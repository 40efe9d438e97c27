------------------------ MODULE KfAppResourcesProofs ------------------------
(* Theorems about KfAppResources, for every value of its constants. *)
EXTENDS KfAppResources, TLAPS

-----------------------------------------------------------------------------
(* Jobs and applications *)

LEMMA AppsType ==
  ASSUME NEW k \in KfDefs, NEW i \in DOMAIN Apps[k]
  PROVE  Apps[k][i] \in SUBSET Resources /\ i \in Nat
BY ConstantsAssumption

LEMMA MarkedType ==
  ASSUME NEW R, NEW known
  PROVE  Marked(R, known) \subseteq R
BY DEF Marked

LEMMA IdleType == JobOK(Idle)
BY DEF Idle, JobOK, Job, PCs

WorkersOK ==
  /\ worker \in [Workers -> Job]
  /\ \A w \in Workers : JobOK(worker[w])

LEMMA BecomeType ==
  ASSUME WorkersOK, NEW w \in Workers, NEW j, JobOK(j), Become(w, j)
  PROVE  WorkersOK'
<1>1. j \in Job
  BY DEF JobOK
<1>2. worker' \in [Workers -> Job]
  BY <1>1 DEF WorkersOK, Become
<1>3. ASSUME NEW v \in Workers PROVE JobOK(worker'[v])
  BY DEF WorkersOK, Become
<1>4. QED
  BY <1>2, <1>3 DEF WorkersOK, JobOK

LEMMA ReturnType ==
  ASSUME WorkersOK, NEW w \in Workers, Return(w)
  PROVE  WorkersOK'
BY IdleType, BecomeType DEF Return

LEMMA VisitedType ==
  ASSUME WorkersOK, NEW w \in Workers, NEW r, NEW failed \in BOOLEAN,
         worker[w].pc # "idle", Visited(w, r, failed)
  PROVE  WorkersOK'
<1> DEFINE j == [worker[w] EXCEPT !.pc = "look", !.todo = worker[w].todo \ {r},
                                  !.target = Nowhere, !.errs = worker[w].errs \/ failed]
<1>1. JobOK(j)
  BY DEF WorkersOK, JobOK, Job, PCs
<1>2. Become(w, j)
  BY DEF Visited
<1>3. QED
  BY <1>1, <1>2, BecomeType

-----------------------------------------------------------------------------
(* Type correctness *)

ClusterOK ==
  /\ phase \in [Resources -> {"absent", "present", "deleting"}]
  /\ owner \in [Resources -> KfDefs \cup {Nobody}]
  /\ maker \in [Resources -> {"user", "operator", "none"}]
StateOK == state \in [KfDefs -> {"live", "deleting", "deleted", "failed"}]
UsedOK  == used \in [EventKinds -> Nat]

LEMMA TypeParts == TypeOK <=> ClusterOK /\ StateOK /\ WorkersOK /\ UsedOK
BY DEF TypeOK, ClusterOK, StateOK, WorkersOK, UsedOK

LEMMA TypePartsNext == TypeOK' <=> ClusterOK' /\ StateOK' /\ WorkersOK' /\ UsedOK'
BY DEF TypeOK, ClusterOK, StateOK, WorkersOK, UsedOK, JobOK

LEMMA SpendType ==
  ASSUME UsedOK, NEW e \in EventKinds, Spend(e)
  PROVE  UsedOK'
BY DEF UsedOK, Spend

LEMMA WriteType ==
  ASSUME ClusterOK, NEW r \in Resources, NEW who \in {"user", "operator"},
         NEW a \in KfDefs \cup {Nobody}, Write(r, who, a)
  PROVE  ClusterOK'
BY DEF ClusterOK, Write

LEMMA BusyType ==
  ASSUME WorkersOK, NEW w \in Workers, worker[w].pc # "idle"
  PROVE  /\ worker[w] \in Job /\ worker[w].key \in KfDefs
         /\ worker[w].todo \subseteq Resources
         /\ worker[w].pc = "apply" => worker[w].app \in DOMAIN Apps[worker[w].key]
         /\ worker[w].pc \in {"remove", "wait", "removeHome"} => worker[w].target \in Resources
BY DEF WorkersOK, JobOK, Job

LEMMA EndType ==
  ASSUME StateOK, WorkersOK, NEW w \in Workers, worker[w].pc # "idle",
         NEW outcome \in {"deleted", "failed"}, End(w, outcome)
  PROVE  StateOK' /\ WorkersOK'
BY BusyType, ReturnType DEF StateOK, End

LEMMA ApplyType ==
  ASSUME ClusterOK, StateOK, WorkersOK, UsedOK, NEW w \in Workers,
         \/ \E k \in KfDefs : BeginApply(w, k)
         \/ Render(w) \/ ApplyOne(w) \/ FinishApp(w)
  PROVE  ClusterOK' /\ StateOK' /\ WorkersOK' /\ UsedOK'
<1> USE DEF cluster
<1>1. ASSUME NEW k \in KfDefs, BeginApply(w, k)
      PROVE  ClusterOK' /\ StateOK' /\ WorkersOK' /\ UsedOK'
  <2> DEFINE j == [Idle EXCEPT !.pc = "render", !.key = k, !.app = 1]
  <2>1. JobOK(j)
    BY DEF Idle, JobOK, Job, PCs
  <2>2. WorkersOK'
    BY <1>1, <2>1, BecomeType DEF BeginApply
  <2>3. ClusterOK'
    <3>1. Home[k] \in Resources
      BY ConstantsAssumption
    <3>2. CASE Write(Home[k], "operator", Nobody)
      BY <3>1, <3>2, WriteType
    <3>3. CASE UNCHANGED cluster
      BY <3>3 DEF ClusterOK
    <3>4. QED
      BY <1>1, <3>2, <3>3 DEF BeginApply
  <2>4. UsedOK'
    BY <1>1, SpendType DEF BeginApply, EventKinds
  <2>5. QED
    BY <1>1, <2>2, <2>3, <2>4 DEF BeginApply, StateOK
<1>2. CASE Render(w)
  <2>1. worker[w].pc # "idle"
    BY <1>2 DEF Render, At
  <2>2. WorkersOK'
    <3>1. ASSUME NEW known, worker[w].app \in DOMAIN Apps[worker[w].key],
                 Become(w, [worker[w] EXCEPT
                   !.pc = "apply", !.todo = Apps[worker[w].key][worker[w].app],
                   !.mark = Marked(Apps[worker[w].key][worker[w].app], known)])
          PROVE  WorkersOK'
      <4> DEFINE R == Apps[worker[w].key][worker[w].app]
                 j == [worker[w] EXCEPT !.pc = "apply", !.todo = R, !.mark = Marked(R, known)]
      <4>1. R \subseteq Resources /\ Marked(R, known) \subseteq Resources
        BY <2>1, <3>1, BusyType, AppsType, MarkedType
      <4>2. JobOK(j)
        <5> HIDE DEF R
        <5>1. j \in Job
          BY <2>1, <4>1, BusyType DEF Job, PCs
        <5>2. j.key \in KfDefs /\ j.pc = "apply" /\ j.app \in DOMAIN Apps[j.key]
          BY <2>1, <3>1, BusyType DEF Job
        <5>3. QED
          BY <5>1, <5>2 DEF JobOK
      <4>3. QED
        BY <3>1, <4>2, BecomeType
    <3>2. QED
      BY <1>2, <3>1, ReturnType DEF Render
  <2>3. UsedOK'
    <3>1. UNCHANGED used \/ Spend("lookups") \/ Spend("faults")
      BY <1>2 DEF Render
    <3>2. QED
      BY <3>1, SpendType DEF UsedOK, EventKinds
  <2>4. QED
    BY <1>2, <2>2, <2>3 DEF Render, ClusterOK, StateOK
<1>3. CASE ApplyOne(w)
  <2>1. /\ worker[w].pc = "apply" /\ worker[w] \in Job /\ worker[w].key \in KfDefs
        /\ worker[w].todo \subseteq Resources
        /\ worker[w].app \in DOMAIN Apps[worker[w].key]
    BY <1>3, BusyType DEF ApplyOne, At
  <2>2. PICK r \in worker[w].todo :
          \/ /\ Write(r, "operator", IF r \in worker[w].mark THEN worker[w].key ELSE Nobody)
             /\ Become(w, [worker[w] EXCEPT !.todo = @ \ {r}])
             /\ UNCHANGED used
          \/ /\ UNCHANGED used \/ Spend("faults")
             /\ Become(w, [worker[w] EXCEPT !.todo = @ \ {r}, !.errs = TRUE])
             /\ UNCHANGED cluster
    BY <1>3 DEF ApplyOne
  <2>3. /\ JobOK([worker[w] EXCEPT !.todo = @ \ {r}])
        /\ JobOK([worker[w] EXCEPT !.todo = @ \ {r}, !.errs = TRUE])
    BY <2>1 DEF JobOK, Job
  <2>4. WorkersOK'
    BY <2>2, <2>3, BecomeType
  <2>5. ClusterOK'
    <3>1. (IF r \in worker[w].mark THEN worker[w].key ELSE Nobody) \in KfDefs \cup {Nobody}
      BY <2>1
    <3>2. CASE UNCHANGED cluster
      BY <3>2 DEF ClusterOK
    <3>3. QED
      BY <2>1, <2>2, <3>1, <3>2, WriteType
  <2>6. UsedOK'
    <3>1. UNCHANGED used \/ Spend("faults")
      BY <2>2
    <3>2. QED
      BY <3>1, SpendType DEF UsedOK, EventKinds
  <2>7. QED
    BY <1>3, <2>4, <2>5, <2>6 DEF ApplyOne, StateOK
<1>4. CASE FinishApp(w)
  <2>1. /\ worker[w].pc = "apply" /\ worker[w] \in Job /\ worker[w].key \in KfDefs
        /\ worker[w].app \in DOMAIN Apps[worker[w].key]
    BY <1>4, BusyType DEF FinishApp, At
  <2> DEFINE R == Apps[worker[w].key][worker[w].app]
  <2>2. R \subseteq Resources /\ worker[w].app + 1 \in Nat
    BY <2>1, AppsType
  <2>3. JobOK([worker[w] EXCEPT !.pc = "render", !.app = @ + 1])
    <3>1. ASSUME NEW n \in Nat
          PROVE  JobOK([worker[w] EXCEPT !.pc = "render", !.app = n])
      BY <2>1 DEF JobOK, Job, PCs
    <3>2. QED
      BY <2>2, <3>1
  <2>4. JobOK([worker[w] EXCEPT !.todo = R, !.errs = FALSE])
    <3> HIDE DEF R
    <3>1. QED
      BY <2>1, <2>2 DEF JobOK, Job
  <2>5. WorkersOK'
    BY <1>4, <2>3, <2>4, BecomeType, ReturnType DEF FinishApp
  <2>6. QED
    BY <1>4, <2>5 DEF FinishApp, ClusterOK, StateOK, UsedOK
<1>5. QED
  BY <1>1, <1>2, <1>3, <1>4

LEMMA DeleteType ==
  ASSUME ClusterOK, StateOK, WorkersOK, UsedOK, NEW w \in Workers,
         \/ \E k \in KfDefs : BeginDelete(w, k)
         \/ NextApp(w) \/ Look(w) \/ Remove(w) \/ Wait(w) \/ LookHome(w) \/ RemoveHome(w)
  PROVE  ClusterOK' /\ StateOK' /\ WorkersOK' /\ UsedOK'
<1> USE DEF cluster
<1>1. UsedOK'
  <2>1. UNCHANGED used \/ \E e \in EventKinds : Spend(e)
    BY DEF BeginDelete, NextApp, Look, Remove, Wait, LookHome, RemoveHome, EventKinds
  <2>2. QED
    BY <2>1, SpendType DEF UsedOK
<1>2. ASSUME NEW k \in KfDefs, BeginDelete(w, k)
      PROVE  ClusterOK' /\ StateOK' /\ WorkersOK'
  <2> DEFINE j == [Idle EXCEPT !.pc = "look", !.key = k, !.app = Len(Apps[k]) + 1]
  <2>1. Len(Apps[k]) + 1 \in Nat
    BY ConstantsAssumption
  <2>2. JobOK(j)
    BY <2>1 DEF Idle, JobOK, Job, PCs
  <2>3. QED
    BY <1>2, <2>2, BecomeType DEF BeginDelete, ClusterOK, StateOK
<1>3. CASE NextApp(w)
  <2>1. worker[w].pc = "look" /\ worker[w] \in Job /\ worker[w].key \in KfDefs
    BY <1>3, BusyType DEF NextApp, At
  <2>2. ASSUME NEW i \in DOMAIN Apps[worker[w].key]
        PROVE  JobOK([worker[w] EXCEPT !.app = i, !.todo = Apps[worker[w].key][i]])
    <3>1. ASSUME NEW n \in Nat, NEW R \in SUBSET Resources
          PROVE  JobOK([worker[w] EXCEPT !.app = n, !.todo = R])
      BY <2>1 DEF JobOK, Job
    <3>2. QED
      BY <2>1, <3>1, AppsType
  <2>3. JobOK([worker[w] EXCEPT !.pc = "home"])
    BY <2>1 DEF JobOK, Job, PCs
  <2>4. \/ End(w, "failed")
        \/ UNCHANGED state /\ \E j : JobOK(j) /\ Become(w, j)
    BY <1>3, <2>2, <2>3 DEF NextApp
  <2>5. StateOK' /\ WorkersOK'
    BY <2>1, <2>4, EndType, BecomeType DEF StateOK
  <2>6. QED
    BY <1>1, <1>3, <2>5 DEF NextApp, ClusterOK
<1>4. CASE Look(w)
  <2>1. /\ worker[w].pc = "look" /\ worker[w] \in Job /\ worker[w].key \in KfDefs
        /\ worker[w].todo \subseteq Resources
    BY <1>4, BusyType DEF Look, At
  <2>2. ASSUME NEW r \in worker[w].todo, NEW pc \in {"remove", "wait"}
        PROVE  JobOK([worker[w] EXCEPT !.pc = pc, !.target = r])
    BY <2>1 DEF JobOK, Job, PCs
  <2>3. \E r \in worker[w].todo :
          \/ \E pc \in {"remove", "wait"} : Become(w, [worker[w] EXCEPT !.pc = pc, !.target = r])
          \/ \E failed \in BOOLEAN : Visited(w, r, failed)
    BY <1>4 DEF Look
  <2>4. WorkersOK'
    BY <2>1, <2>2, <2>3, BecomeType, VisitedType
  <2>5. QED
    BY <1>1, <1>4, <2>4 DEF Look, ClusterOK, StateOK
<1>5. CASE Remove(w)
  <2>1. /\ worker[w].pc = "remove" /\ worker[w] \in Job /\ worker[w].key \in KfDefs
        /\ worker[w].target \in Resources
    BY <1>5, BusyType DEF Remove, At
  <2>2. JobOK([worker[w] EXCEPT !.pc = "wait"])
    BY <2>1 DEF JobOK, Job, PCs
  <2>3. WorkersOK'
    BY <1>5, <2>1, <2>2, BecomeType, VisitedType DEF Remove
  <2>4. QED
    BY <1>1, <1>5, <2>3 DEF Remove, ClusterOK, StateOK
<1>6. CASE Wait(w)
  <2>1. worker[w].pc # "idle" /\ Exists(worker[w].target) \in BOOLEAN
    BY <1>6 DEF Wait, At, Exists
  <2>2. WorkersOK'
    BY <1>6, <2>1, VisitedType DEF Wait
  <2>3. QED
    BY <1>1, <1>6, <2>2 DEF Wait, ClusterOK, StateOK
<1>7. CASE LookHome(w)
  <2>1. worker[w].pc = "home" /\ worker[w] \in Job /\ worker[w].key \in KfDefs
    BY <1>7, BusyType DEF LookHome, At
  <2>2. Home[worker[w].key] \in Resources
    BY <2>1, ConstantsAssumption
  <2>3. JobOK([worker[w] EXCEPT !.pc = "removeHome", !.target = Home[worker[w].key]])
    BY <2>1, <2>2 DEF JobOK, Job, PCs
  <2>4. StateOK' /\ WorkersOK'
    BY <1>7, <2>1, <2>3, BecomeType, EndType DEF LookHome, StateOK
  <2>5. QED
    BY <1>1, <1>7, <2>4 DEF LookHome, ClusterOK
<1>8. CASE RemoveHome(w)
  <2>1. worker[w].pc # "idle"
    BY <1>8 DEF RemoveHome, At
  <2>2. StateOK' /\ WorkersOK'
    BY <1>8, <2>1, EndType DEF RemoveHome
  <2>3. QED
    BY <1>1, <1>8, <2>2 DEF RemoveHome, ClusterOK
<1>9. QED
  BY <1>1, <1>2, <1>3, <1>4, <1>5, <1>6, <1>7, <1>8

LEMMA NextType ==
  ASSUME TypeOK, [Next]_vars
  PROVE  TypeOK'
<1> USE TypeParts, TypePartsNext DEF cluster
<1>1. ASSUME NEW w \in Workers, Step(w)
      PROVE  TypeOK'
  BY <1>1, ApplyType, DeleteType DEF Step
<1>2. ASSUME NEW r \in Resources, EmptyNamespace(r) \/ Vanish(r)
      PROVE  TypeOK'
  BY <1>2 DEF EmptyNamespace, Vanish, ClusterOK, StateOK, WorkersOK, UsedOK, JobOK
<1>3. ASSUME NEW r \in Resources, UserCreate(r)
      PROVE  TypeOK'
  <2>1. ClusterOK'
    BY <1>3, WriteType DEF UserCreate
  <2>2. UsedOK'
    BY <1>3, SpendType DEF UserCreate, EventKinds
  <2>3. QED
    BY <1>3, <2>1, <2>2 DEF UserCreate, StateOK, WorkersOK, JobOK
<1>4. CASE UNCHANGED vars
  BY <1>4 DEF vars, TypeOK, JobOK
<1>5. QED
  BY <1>1, <1>2, <1>3, <1>4 DEF Next

\* The cluster, the jobs of the workers and the outcomes of the KfDefs are
\* well-typed; a worker that applies has an application of its KfDef, and one
\* that removes has a resource: the fields Apply and Delete rely on.
THEOREM TypeCorrect == Spec => []TypeOK
<1>1. Init => TypeOK
  BY IdleType DEF Init, TypeOK, JobOK
<1>2. TypeOK /\ [Next]_vars => TypeOK'
  BY NextType
<1>3. QED
  BY <1>1, <1>2, PTL DEF Spec

-----------------------------------------------------------------------------
(* What users keep *)

\* No namespace was looked up in vain, none was created by a user.
Calm == used["lookups"] = 0 /\ used["namespaces"] = 0

\* The annotation is never on the profiles CRD, and on no namespace of a user.
ClusterOurs ==
  /\ \A r \in Resources : phase[r] = "absent" <=> maker[r] = "none"
  /\ \A r \in Profiles : owner[r] = Nobody
  /\ Calm => \A n \in Namespaces : owner[n] # Nobody => maker[n] = "operator"

\* Nor is it in what a worker has rendered or is about to remove.
JobOurs(j) ==
  /\ j.mark \cap Profiles = {}
  /\ Calm => \A n \in j.mark \cap Namespaces : maker[n] # "user"
  /\ j.pc \in {"remove", "removeHome"} =>
       /\ j.target \notin Profiles
       /\ Calm /\ j.target \in Namespaces => maker[j.target] # "user"

Ours == ClusterOurs /\ \A w \in Workers : JobOurs(worker[w])

LEMMA SpendCalm ==
  ASSUME UsedOK, NEW e \in EventKinds, Spend(e), Calm'
  PROVE  Calm /\ e \notin {"lookups", "namespaces"}
<1>1. used'[e] = used[e] + 1 /\ used[e] \in Nat
  BY DEF UsedOK, Spend
<1>2. e \notin {"lookups", "namespaces"}
  BY <1>1 DEF Calm
<1>3. used'["lookups"] = used["lookups"] /\ used'["namespaces"] = used["namespaces"]
  BY <1>2 DEF UsedOK, Spend, EventKinds
<1>4. QED
  BY <1>2, <1>3 DEF Calm

\* A worker makes nothing a user's.
LEMMA StepCalm ==
  ASSUME TypeOK, NEW w \in Workers, Step(w)
  PROVE  /\ Calm' => Calm
         /\ \A n \in Resources : maker'[n] = "user" => maker[n] = "user"
<1> USE DEF cluster
<1>1. UNCHANGED used \/ \E e \in EventKinds : Spend(e)
  BY DEF Step, BeginApply, Render, ApplyOne, FinishApp, BeginDelete, NextApp,
         Look, Remove, Wait, LookHome, RemoveHome, EventKinds
<1>2. UNCHANGED maker \/ \E r, a : Write(r, "operator", a)
  BY DEF Step, BeginApply, Render, ApplyOne, FinishApp, BeginDelete, NextApp,
         Look, Remove, Wait, LookHome, RemoveHome
<1>3. Calm' => Calm
  BY <1>1, SpendCalm, TypeParts DEF Calm
<1>4. \A n \in Resources : maker'[n] = "user" => maker[n] = "user"
  BY <1>2 DEF Write, TypeOK
<1>5. QED
  BY <1>3, <1>4

\* What a step makes of the job of its worker.
Quiet(w)   == \E j : /\ Become(w, j)
                     /\ j.mark \in {worker[w].mark, {}}
                     /\ j.pc \notin {"remove", "removeHome"}
Renders(w) == \E j, R, known : /\ Become(w, j)
                               /\ j.pc = "apply" /\ j.mark = Marked(R, known)
                               /\ known \subseteq Namespaces
                               /\ known = {n \in Namespaces : Exists(n)} \/ Spend("lookups")
                               /\ UNCHANGED cluster
Targets(w) == \E j : /\ Become(w, j)
                     /\ j.mark = worker[w].mark
                     /\ j.target \in Resources /\ Removable(j.target)
                     /\ UNCHANGED cluster

LEMMA QuietBecome ==
  ASSUME NEW w \in Workers, NEW j, Become(w, j), j.mark = worker[w].mark,
         j.pc \notin {"remove", "removeHome"}
  PROVE  Quiet(w)
BY DEF Quiet

LEMMA StepJob ==
  ASSUME TypeOK, NEW w \in Workers, Step(w)
  PROVE  Quiet(w) \/ Renders(w) \/ Targets(w)
<1>1. worker[w] \in Job
  BY DEF TypeOK
<1>2. ASSUME Return(w) PROVE Quiet(w)
  BY <1>2 DEF Return, Quiet, Idle
<1>3. ASSUME NEW outcome, End(w, outcome) PROVE Quiet(w)
  BY <1>2, <1>3 DEF End
<1>4. ASSUME NEW r, NEW failed, Visited(w, r, failed) PROVE Quiet(w)
  <2>1. ASSUME NEW T, NEW b
        PROVE  LET j == [worker[w] EXCEPT !.pc = "look", !.todo = T, !.target = Nowhere,
                                          !.errs = b]
               IN  j.mark = worker[w].mark /\ j.pc = "look"
    BY <1>1 DEF Job
  <2>2. \E T, b : Become(w, [worker[w] EXCEPT !.pc = "look", !.todo = T, !.target = Nowhere,
                                             !.errs = b])
    BY <1>4, Zenon DEF Visited
  <2>3. PICK T, b : Become(w, [worker[w] EXCEPT !.pc = "look", !.todo = T,
                                             !.target = Nowhere, !.errs = b])
    BY <2>2
  <2> DEFINE j == [worker[w] EXCEPT !.pc = "look", !.todo = T, !.target = Nowhere, !.errs = b]
  <2>4. j.mark = worker[w].mark /\ j.pc = "look"
    BY <2>1
  <2>5. Become(w, j)
    BY <2>3
  <2> HIDE DEF j
  <2>6. QED
    BY <2>4, <2>5, QuietBecome
<1>5. ASSUME NEW k \in KfDefs, BeginApply(w, k) \/ BeginDelete(w, k) PROVE Quiet(w)
  <2>1. ASSUME NEW pc \in {"render", "look"}, NEW i,
               Become(w, [Idle EXCEPT !.pc = pc, !.key = k, !.app = i])
        PROVE  Quiet(w)
    <3> DEFINE j == [Idle EXCEPT !.pc = pc, !.key = k, !.app = i]
    <3>1. j.mark = {} /\ j.pc = pc
      BY DEF Idle
    <3> HIDE DEF j
    <3>2. Become(w, j)
      BY <2>1 DEF j
    <3>3. QED
      BY <3>1, <3>2 DEF Quiet
  <2>2. QED
    BY <1>5, <2>1 DEF BeginApply, BeginDelete
<1>6. CASE Render(w)
  <2>1. ASSUME NEW R, NEW known, known \subseteq Namespaces,
               known = {n \in Namespaces : Exists(n)} \/ Spend("lookups"),
               Become(w, [worker[w] EXCEPT !.pc = "apply", !.todo = R, !.mark = Marked(R, known)])
        PROVE  Renders(w)
    <3> DEFINE j == [worker[w] EXCEPT !.pc = "apply", !.todo = R, !.mark = Marked(R, known)]
    <3>1. j.pc = "apply" /\ j.mark = Marked(R, known)
      BY <1>1 DEF Job
    <3>2. UNCHANGED cluster
      BY <1>6 DEF Render
    <3> HIDE DEF j
    <3>3. Become(w, j)
      BY <2>1 DEF j
    <3>4. QED
      BY <2>1, <3>1, <3>2, <3>3 DEF Renders
  <2>2. QED
    BY <1>2, <1>6, <2>1 DEF Render
<1>7. CASE ApplyOne(w) \/ FinishApp(w)
  <2>1. \A R, b : /\ [worker[w] EXCEPT !.todo = R].mark = worker[w].mark
                  /\ [worker[w] EXCEPT !.todo = R, !.errs = b].mark = worker[w].mark
                  /\ [worker[w] EXCEPT !.todo = R].pc = worker[w].pc
                  /\ [worker[w] EXCEPT !.todo = R, !.errs = b].pc = worker[w].pc
    BY <1>1 DEF Job
  <2>2. \A i : /\ [worker[w] EXCEPT !.pc = "render", !.app = i].mark = worker[w].mark
               /\ [worker[w] EXCEPT !.pc = "render", !.app = i].pc = "render"
    BY <1>1 DEF Job
  <2>3. worker[w].pc = "apply"
    BY <1>7 DEF ApplyOne, FinishApp, At
  <2>4. \/ \E R : Become(w, [worker[w] EXCEPT !.todo = R])
        \/ \E R, b : Become(w, [worker[w] EXCEPT !.todo = R, !.errs = b])
        \/ \E i : Become(w, [worker[w] EXCEPT !.pc = "render", !.app = i])
        \/ Return(w)
    BY <1>7 DEF ApplyOne, FinishApp
  <2>5. ASSUME NEW R, Become(w, [worker[w] EXCEPT !.todo = R]) PROVE Quiet(w)
    BY <2>1, <2>3, <2>5, QuietBecome
  <2>6. ASSUME NEW R, NEW b, Become(w, [worker[w] EXCEPT !.todo = R, !.errs = b]) PROVE Quiet(w)
    BY <2>1, <2>3, <2>6, QuietBecome
  <2>7. ASSUME NEW i, Become(w, [worker[w] EXCEPT !.pc = "render", !.app = i]) PROVE Quiet(w)
    BY <2>2, <2>7, QuietBecome
  <2>8. QED
    BY <1>2, <2>4, <2>5, <2>6, <2>7
<1>8. CASE NextApp(w)
  <2>1. \A i, R : /\ [worker[w] EXCEPT !.app = i, !.todo = R].mark = worker[w].mark
                  /\ [worker[w] EXCEPT !.app = i, !.todo = R].pc = worker[w].pc
                  /\ [worker[w] EXCEPT !.pc = "home"].mark = worker[w].mark
                  /\ [worker[w] EXCEPT !.pc = "home"].pc = "home"
    BY <1>1 DEF Job
  <2>2. worker[w].pc = "look"
    BY <1>8 DEF NextApp, At
  <2>3. \/ \E i, R : Become(w, [worker[w] EXCEPT !.app = i, !.todo = R])
        \/ Become(w, [worker[w] EXCEPT !.pc = "home"])
        \/ End(w, "failed")
    BY <1>8 DEF NextApp
  <2>4. ASSUME NEW i, NEW R, Become(w, [worker[w] EXCEPT !.app = i, !.todo = R]) PROVE Quiet(w)
    BY <2>1, <2>2, <2>4, QuietBecome
  <2>5. ASSUME Become(w, [worker[w] EXCEPT !.pc = "home"]) PROVE Quiet(w)
    BY <2>1, <2>5, QuietBecome
  <2>6. QED
    BY <1>3, <2>3, <2>4, <2>5
<1>9. ASSUME NEW r \in Resources, NEW pc, Removable(r), UNCHANGED cluster,
             Become(w, [worker[w] EXCEPT !.pc = pc, !.target = r])
      PROVE  Targets(w)
  <2> DEFINE j == [worker[w] EXCEPT !.pc = pc, !.target = r]
  <2>1. j.mark = worker[w].mark /\ j.target = r
    BY <1>1 DEF Job
  <2> HIDE DEF j
  <2>2. Become(w, j)
    BY <1>9 DEF j
  <2>3. QED
    BY <1>9, <2>1, <2>2 DEF Targets
<1>10. CASE Look(w)
  BY <1>1, <1>4, <1>9, <1>10 DEF Look, Job
<1>11. CASE Remove(w)
  <2>1. [worker[w] EXCEPT !.pc = "wait"].mark = worker[w].mark
        /\ [worker[w] EXCEPT !.pc = "wait"].pc = "wait"
    BY <1>1 DEF Job
  <2>2. QED
    BY <1>4, <1>11, <2>1 DEF Remove, Quiet
<1>12. CASE Wait(w)
  BY <1>4, <1>12 DEF Wait
<1>13. CASE LookHome(w)
  <2>1. Home[worker[w].key] \in Resources
    BY <1>13, BusyType, TypeParts, ConstantsAssumption DEF LookHome, At
  <2>2. QED
    BY <1>3, <1>9, <1>13, <2>1 DEF LookHome
<1>14. CASE RemoveHome(w)
  BY <1>3, <1>14 DEF RemoveHome
<1>15. QED
  BY <1>5, <1>6, <1>7, <1>8, <1>10, <1>11, <1>12, <1>13, <1>14 DEF Step

\* What a step makes of the cluster.
LEMMA StepCluster ==
  ASSUME TypeOK, NEW w \in Workers, Step(w), Ours
  PROVE  ClusterOurs'
<1> USE DEF cluster
<1>1. ClusterOurs /\ JobOurs(worker[w])
  BY DEF Ours
<1>2. Calm' => Calm
  BY StepCalm
<1>3. ASSUME NEW r \in Resources, NEW a, Write(r, "operator", a),
             r \in Profiles => a = Nobody,
             Calm /\ r \in Namespaces /\ a # Nobody => maker[r] # "user"
      PROVE  ClusterOurs'
  <2>1. \A q \in Resources : phase'[q] = "absent" <=> maker'[q] = "none"
    BY <1>1, <1>3 DEF ClusterOurs, Write, Exists, TypeOK
  <2>2. \A q \in Profiles : owner'[q] = Nobody
    BY <1>1, <1>3 DEF ClusterOurs, Write, TypeOK
  <2>3. Calm' => \A n \in Namespaces : owner'[n] # Nobody => maker'[n] = "operator"
    BY <1>1, <1>2, <1>3, ConstantsAssumption DEF ClusterOurs, Write, Exists, TypeOK
  <2>4. QED
    BY <2>1, <2>2, <2>3 DEF ClusterOurs
<1>4. CASE UNCHANGED cluster
  BY <1>1, <1>2, <1>4 DEF ClusterOurs
<1>5. ASSUME NEW k \in KfDefs, BeginApply(w, k)
      PROVE  ClusterOurs'
  <2>1. Home[k] \in Resources
    BY ConstantsAssumption
  <2>2. QED
    BY <1>3, <1>4, <1>5, <2>1 DEF BeginApply
<1>6. CASE ApplyOne(w)
  <2>1. worker[w].todo \subseteq Resources
    BY DEF TypeOK, Job
  <2>2. ASSUME NEW r \in worker[w].todo,
               Write(r, "operator", IF r \in worker[w].mark THEN worker[w].key ELSE Nobody)
        PROVE  ClusterOurs'
    <3> DEFINE a == IF r \in worker[w].mark THEN worker[w].key ELSE Nobody
    <3>1. /\ r \in Profiles => a = Nobody
          /\ Calm /\ r \in Namespaces /\ a # Nobody => maker[r] # "user"
      BY <1>1 DEF JobOurs
    <3> HIDE DEF a
    <3>2. Write(r, "operator", a)
      BY <2>2 DEF a
    <3>3. QED
      BY <1>3, <2>1, <3>1, <3>2
  <2>3. QED
    BY <1>4, <1>6, <2>2 DEF ApplyOne
<1>7. ASSUME NEW r \in Resources, Exists(r), phase' = [phase EXCEPT ![r] = "deleting"],
             UNCHANGED <<owner, maker>>
      PROVE  ClusterOurs'
  BY <1>1, <1>2, <1>7 DEF ClusterOurs, Exists, TypeOK
<1>8. CASE Remove(w) \/ RemoveHome(w)
  <2>1. worker[w].target \in Resources
    BY <1>8, BusyType, TypeParts DEF Remove, RemoveHome, At
  <2>2. QED
    BY <1>4, <1>7, <1>8, <2>1 DEF Remove, RemoveHome
<1>9. QED
  BY <1>4, <1>5, <1>6, <1>8
     DEF Step, Render, FinishApp, BeginDelete, NextApp, Look, Wait, LookHome

\* What a step makes of the jobs, its own and those of the others.
LEMMA StepJobs ==
  ASSUME TypeOK, NEW w \in Workers, Step(w), Ours
  PROVE  \A v \in Workers : JobOurs(worker[v])'
<1>1. /\ Calm' => Calm
      /\ \A n \in Resources : maker'[n] = "user" => maker[n] = "user"
  BY StepCalm
<1>2. Namespaces \subseteq Resources
  BY ConstantsAssumption
<1>3. ASSUME NEW v \in Workers, NEW j, worker'[v] = j, j.mark \in {worker[v].mark, {}},
             j.pc \in {"remove", "removeHome"} =>
               /\ j.target \notin Profiles
               /\ Calm /\ j.target \in Namespaces => maker[j.target] # "user"
      PROVE  JobOurs(worker[v])'
  BY <1>1, <1>2, <1>3 DEF Ours, JobOurs
<1>4. ASSUME NEW v \in Workers, v # w
      PROVE  JobOurs(worker[v])'
  <2>1. worker'[v] = worker[v]
    BY <1>4, StepJob DEF Quiet, Renders, Targets, Become, TypeOK
  <2>2. QED
    BY <1>3, <2>1 DEF Ours, JobOurs
<1>5. JobOurs(worker[w])'
  <2>1. ASSUME NEW j, Become(w, j)
        PROVE  worker'[w] = j
    BY <2>1 DEF Become, TypeOK
  <2>2. CASE Quiet(w)
    BY <1>3, <2>1, <2>2 DEF Quiet
  <2>3. CASE Targets(w)
    <3>1. PICK j : /\ Become(w, j) /\ j.mark = worker[w].mark
                   /\ j.target \in Resources /\ Removable(j.target)
      BY <2>3 DEF Targets
    <3>2. /\ j.target \notin Profiles
          /\ Calm /\ j.target \in Namespaces => maker[j.target] # "user"
      BY <3>1 DEF Ours, ClusterOurs, Removable
    <3>3. QED
      BY <1>3, <2>1, <3>1, <3>2
  <2>4. CASE Renders(w)
    <3>1. PICK j, R, known :
            /\ Become(w, j)
            /\ j.pc = "apply" /\ j.mark = Marked(R, known)
            /\ known \subseteq Namespaces
            /\ known = {n \in Namespaces : Exists(n)} \/ Spend("lookups")
            /\ UNCHANGED cluster
      BY <2>4 DEF Renders
    <3>2. \A r \in j.mark : r \in R /\ r \notin known \cup Profiles
      <4>1. ASSUME NEW r \in j.mark, r \in known \cup Profiles
            PROVE  FALSE
        <5>1. r \in R /\ \A b \in R \cap (known \cup Profiles) :
                           Place["install"][r] < Place["install"][b]
          BY <3>1 DEF Marked
        <5>2. Place["install"][r] < Place["install"][r]
          BY <4>1, <5>1
        <5>3. r \in Resources
          BY <1>2, <3>1, <4>1, ConstantsAssumption
        <5>4. QED
          BY <5>2, <5>3, ConstantsAssumption DEF Orders
      <4>2. QED
        BY <3>1, <4>1 DEF Marked
    <3>3. Calm' => \A n \in j.mark \cap Namespaces : maker'[n] # "user"
      <4>1. Calm' => ~Spend("lookups")
        BY SpendCalm, TypeParts DEF EventKinds
      <4>2. ASSUME Calm', NEW n \in j.mark \cap Namespaces
            PROVE  maker[n] = "none"
        <5>1. phase[n] = "absent"
          BY <3>1, <3>2, <4>1, <4>2 DEF Exists
        <5>2. QED
          BY <1>2, <5>1 DEF Ours, ClusterOurs
      <4>3. QED
        BY <1>1, <1>2, <4>2
    <3>4. QED
      BY <2>1, <3>1, <3>2, <3>3 DEF JobOurs
  <2>5. QED
    BY <2>2, <2>3, <2>4, StepJob
<1>6. QED
  BY <1>4, <1>5

LEMMA OursStep ==
  ASSUME TypeOK, [Next]_vars, Ours
  PROVE  Ours'
<1> USE DEF cluster
<1>1. ASSUME NEW w \in Workers, Step(w)
      PROVE  Ours'
  BY <1>1, StepCluster, StepJobs DEF Ours
<1>2. ASSUME UNCHANGED worker, Calm' => Calm, ClusterOurs',
             \A n \in Namespaces : Calm' /\ maker'[n] = "user" => maker[n] = "user"
      PROVE  Ours'
  BY <1>2 DEF Ours, JobOurs
<1>3. ASSUME NEW r \in Resources, EmptyNamespace(r) \/ Vanish(r)
      PROVE  Ours'
  <2>1. used' = used /\ worker' = worker
    BY <1>3 DEF EmptyNamespace, Vanish
  <2>2. \A n \in Resources : maker'[n] = "user" => maker[n] = "user"
    BY <1>3 DEF EmptyNamespace, Vanish, TypeOK
  <2>3. ClusterOurs'
    <3>1. Calm' = Calm /\ Namespaces \subseteq Resources /\ Profiles \subseteq Resources
      BY <2>1, ConstantsAssumption DEF Calm
    <3>2. \A n \in Resources : n # r =>
            maker'[n] = maker[n] /\ owner'[n] = owner[n] /\ phase'[n] = phase[n]
      BY <1>3 DEF EmptyNamespace, Vanish, TypeOK
    <3>3. CASE EmptyNamespace(r)
      <4>1. /\ maker'[r] = maker[r] /\ owner'[r] = owner[r]
            /\ phase[r] # "absent" /\ phase'[r] # "absent"
        BY <3>3 DEF EmptyNamespace, TypeOK
      <4>2. QED
        BY <3>1, <3>2, <4>1 DEF Ours, ClusterOurs
    <3>4. CASE Vanish(r)
      <4>1. maker'[r] = "none" /\ owner'[r] = Nobody /\ phase'[r] = "absent"
        BY <3>4 DEF Vanish, TypeOK
      <4>2. QED
        BY <3>1, <3>2, <4>1 DEF Ours, ClusterOurs
    <3>5. QED
      BY <1>3, <3>3, <3>4
  <2>4. QED
    BY <1>2, <2>1, <2>2, <2>3, ConstantsAssumption DEF Calm
<1>4. ASSUME NEW r \in Resources, UserCreate(r)
      PROVE  Ours'
  <2>1. /\ worker' = worker /\ Write(r, "user", Nobody)
        /\ Spend(IF r \in Namespaces THEN "namespaces" ELSE "creations")
    BY <1>4 DEF UserCreate
  <2>2. Calm' => Calm /\ r \notin Namespaces
    BY <2>1, SpendCalm, TypeParts DEF EventKinds
  <2>3. \A n \in Resources : n # r => maker'[n] = maker[n] /\ owner'[n] = owner[n]
                                      /\ phase'[n] = phase[n]
    BY <2>1 DEF Write, TypeOK
  <2>4. owner'[r] = Nobody /\ phase'[r] # "absent" /\ maker'[r] # "none"
    BY <2>1 DEF Write, Exists, TypeOK, Ours, ClusterOurs
  <2>5. ClusterOurs'
    BY <2>2, <2>3, <2>4, ConstantsAssumption DEF Ours, ClusterOurs
  <2>6. QED
    BY <1>2, <2>1, <2>2, <2>3, <2>5, ConstantsAssumption
<1>5. CASE UNCHANGED vars
  BY <1>5 DEF vars, Ours, ClusterOurs, JobOurs, Calm
<1>6. QED
  BY <1>1, <1>3, <1>4, <1>5 DEF Next

\* Only Remove and RemoveHome start the deletion of a namespace or of the CRD.
LEMMA KeptStep ==
  ASSUME TypeOK, [Next]_vars, Ours,
         NEW r \in Namespaces \cup Profiles, phase[r] = "present", phase'[r] = "deleting"
  PROVE  /\ r \notin Profiles
         /\ maker[r] = "operator" \/ used["lookups"] # 0 \/ used["namespaces"] # 0
<1> USE DEF cluster
<1>1. r \in Resources /\ Within[r] = Nowhere
  BY ConstantsAssumption
<1>2. PICK w \in Workers : Remove(w) \/ RemoveHome(w)
  <2>1. ASSUME NEW w \in Workers, Step(w), ~Remove(w), ~RemoveHome(w)
        PROVE  FALSE
    <3>1. UNCHANGED phase \/ \E q, a : Write(q, "operator", a)
      BY <2>1 DEF Step, BeginApply, Render, ApplyOne, FinishApp, BeginDelete,
                  NextApp, Look, Wait, LookHome
    <3>2. QED
      BY <1>1, <3>1 DEF Write, Exists, TypeOK
  <2>2. ASSUME NEW q \in Resources, EmptyNamespace(q) \/ Vanish(q) \/ UserCreate(q)
        PROVE  FALSE
    BY <1>1, <2>2, ConstantsAssumption DEF EmptyNamespace, Vanish, UserCreate, Write, Exists, TypeOK
  <2>3. CASE UNCHANGED vars
    BY <2>3 DEF vars
  <2>4. QED
    BY <2>1, <2>2, <2>3 DEF Next
<1>3. worker[w].pc \in {"remove", "removeHome"} /\ worker[w].target = r
  BY <1>1, <1>2 DEF Remove, RemoveHome, At, TypeOK
<1>4. /\ r \notin Profiles
      /\ Calm /\ r \in Namespaces => maker[r] # "user"
  BY <1>3 DEF Ours, JobOurs
<1>5. maker[r] # "none"
  BY <1>1 DEF Ours, ClusterOurs
<1>6. QED
  BY <1>1, <1>4, <1>5 DEF Calm, TypeOK

\* For any KfDefs, applications and number of workers running at once, the
\* operator deletes neither the profiles CRD nor, unless a lookup has failed or
\* a user has created a namespace meanwhile, a namespace it did not create
\* (GenerateYamlWithOperatorAnnotation, DeleteResource).
THEOREM UserDataIsKept == Spec => UserDataKept
<1>1. Init => TypeOK /\ Ours
  <2>1. Init => TypeOK
    BY IdleType DEF Init, TypeOK, JobOK
  <2>2. Init => Ours
    BY ConstantsAssumption DEF Init, Ours, ClusterOurs, JobOurs, Idle
  <2>3. QED
    BY <2>1, <2>2
<1>2. TypeOK /\ Ours /\ [Next]_vars => (TypeOK /\ Ours)'
  BY NextType, OursStep
<1>3. TypeOK /\ Ours /\ [Next]_vars =>
        [\A r \in Namespaces \cup Profiles :
           phase[r] = "present" /\ phase'[r] = "deleting" =>
             /\ r \notin Profiles
             /\ maker[r] = "operator" \/ used["lookups"] # 0 \/ used["namespaces"] # 0]_vars
  BY KeptStep
<1>4. QED
  BY <1>1, <1>2, <1>3, PTL DEF Spec, UserDataKept

-----------------------------------------------------------------------------
(* One worker: what a deletion that reports no error has left *)

OneWorker == \A v, w \in Workers : v = w

\* r is of the application i of k only, which holds no namespace and no profiles CRD.
Plain(k, i) == Apps[k][i] \cap (Namespaces \cup Profiles) = {}
Own(k, i, r) == i \in DOMAIN Apps[k] /\ r \in Apps[k][i] /\ Plain(k, i) /\ Unshared(r, k)

\* What the deletion leaves of r, and what there can be of it at any time: every
\* apply annotates it, as nothing of its application is exempt.
Users(r)    == phase[r] = "present" => maker[r] = "user" /\ owner[r] = Nobody
Holds(k, r) == phase[r] # "absent" => owner[r] = k \/ (owner[r] = Nobody /\ maker[r] = "user")

ClusterClean ==
  \A k \in KfDefs : \A i \in DOMAIN Apps[k] : \A r \in Apps[k][i] : Own(k, i, r) =>
    Holds(k, r) /\ (state[k] = "deleted" => Users(r))

\* An apply is of a KfDef that lives, and annotates all of a plain application.
JobApplies(j) ==
  /\ j.pc \in {"render", "apply"} => state[j.key] = "live"
  /\ j.pc = "apply" => /\ j.todo \subseteq Apps[j.key][j.app]
                       /\ Plain(j.key, j.app) => j.mark = Apps[j.key][j.app]

\* A deletion without an error so far has removed what it has passed.
Passed(j, i, r) == i > j.app \/ (i = j.app /\ r \notin j.todo)
JobDeletes(j) ==
  /\ j.pc \in {"look", "remove", "wait"} =>
       /\ j.app \in 1..Len(Apps[j.key]) + 1
       /\ ~j.errs => \A i \in DOMAIN Apps[j.key] : \A r \in Apps[j.key][i] :
                       Own(j.key, i, r) /\ Passed(j, i, r) => Users(r)
  /\ j.pc \in {"home", "removeHome"} =>
       \A i \in DOMAIN Apps[j.key] : \A r \in Apps[j.key][i] : Own(j.key, i, r) => Users(r)

Clean == ClusterClean /\ \A w \in Workers : JobApplies(worker[w]) /\ JobDeletes(worker[w])

LEMMA OwnIs ==
  ASSUME NEW k \in KfDefs, NEW i, NEW r, Own(k, i, r)
  PROVE  /\ r \in Resources \ Namespaces
         /\ \A l \in KfDefs : \A j \in DOMAIN Apps[l] : r \in Apps[l][j] => l = k /\ j = i
<1>1. i \in DOMAIN Apps[k] /\ r \in Apps[k][i] /\ r \notin Namespaces /\ Unshared(r, k)
  BY DEF Own, Plain
<1>2. r \in Resources
  BY <1>1, AppsType
<1>3. \A l \in KfDefs : \A j \in DOMAIN Apps[l] : r \in Apps[l][j] => l = k
  BY <1>1 DEF Unshared, Listed
<1>4. \A j \in DOMAIN Apps[k] : r \in Apps[k][j] => j = i
  BY <1>1 DEF Unshared
<1>5. QED
  BY <1>1, <1>2, <1>3, <1>4

\* What a step does to one resource.
Rewritten(r, k) == /\ phase'[r] # "absent" /\ owner'[r] = k
Same(r) == phase'[r] = phase[r] /\ owner'[r] = owner[r] /\ maker'[r] = maker[r]
Loses(r) == \/ phase'[r] = "absent"
            \/ phase'[r] = "deleting" /\ owner'[r] = owner[r] /\ maker'[r] = maker[r] /\ phase[r] # "absent"
Gains(r) == phase[r] = "absent" /\ owner'[r] = Nobody /\ maker'[r] = "user"

LEMMA WriteOther ==
  ASSUME TypeOK, NEW q \in Resources, NEW who, NEW a, Write(q, who, a), NEW r \in Resources, r # q
  PROVE  Same(r)
BY DEF Write, Same, TypeOK

LEMMA OwnSteps ==
  ASSUME TypeOK, Clean, [Next]_vars, NEW k \in KfDefs, NEW i, NEW r, Own(k, i, r)
  PROVE  \/ Same(r) \/ Loses(r) \/ Gains(r)
         \/ Rewritten(r, k) /\ \E w \in Workers : worker[w].pc = "apply" /\ worker[w].key = k
<1> USE DEF cluster
<1>1. /\ r \in Resources \ Namespaces
      /\ \A l \in KfDefs : \A j \in DOMAIN Apps[l] : r \in Apps[l][j] => l = k /\ j = i
  BY OwnIs
<1>2. CASE UNCHANGED cluster
  BY <1>2 DEF Same
<1>3. ASSUME NEW w \in Workers, NEW l \in KfDefs, BeginApply(w, l) PROVE Same(r)
  <2>1. Home[l] \in Namespaces /\ Home[l] \in Resources
    BY ConstantsAssumption
  <2>2. QED
    BY <1>1, <1>2, <1>3, <2>1, WriteOther DEF BeginApply, Same
<1>4. ASSUME NEW w \in Workers, ApplyOne(w)
      PROVE  Same(r) \/ (Rewritten(r, k) /\ worker[w].pc = "apply" /\ worker[w].key = k)
  <2>1. /\ worker[w].pc = "apply" /\ worker[w].key \in KfDefs /\ worker[w].app \in DOMAIN Apps[worker[w].key]
        /\ worker[w].todo \subseteq Resources
    BY <1>4, BusyType, TypeParts DEF ApplyOne, At
  <2>2. /\ worker[w].todo \subseteq Apps[worker[w].key][worker[w].app]
        /\ Plain(worker[w].key, worker[w].app) => worker[w].mark = Apps[worker[w].key][worker[w].app]
    BY <2>1 DEF Clean, JobApplies
  <2>3. ASSUME NEW q \in worker[w].todo,
               Write(q, "operator", IF q \in worker[w].mark THEN worker[w].key ELSE Nobody)
        PROVE  Same(r) \/ (Rewritten(r, k) /\ worker[w].key = k)
    <3>1. CASE q # r
      BY <1>1, <2>1, <2>3, <3>1, WriteOther
    <3>2. CASE q = r
      <4>1. worker[w].key = k /\ worker[w].app = i
        BY <1>1, <2>1, <2>2, <3>2
      <4>2. r \in worker[w].mark
        BY <2>2, <3>2, <4>1 DEF Own
      <4>3. Write(r, "operator", k)
        BY <2>3, <3>2, <4>1, <4>2
      <4>4. Rewritten(r, k)
        BY <1>1, <4>3 DEF Write, Rewritten, Exists, TypeOK
      <4>5. QED
        BY <4>1, <4>4
    <3>3. QED
      BY <3>1, <3>2
  <2>4. QED
    BY <1>2, <1>4, <2>1, <2>3 DEF ApplyOne, Same
<1>5. ASSUME NEW w \in Workers, Remove(w) \/ RemoveHome(w) PROVE Same(r) \/ Loses(r)
  <2>1. worker[w].target \in Resources
    BY <1>5, BusyType, TypeParts DEF Remove, RemoveHome, At
  <2>2. QED
    BY <1>1, <1>5, <2>1 DEF Remove, RemoveHome, Same, Loses, Exists, TypeOK
<1>6. ASSUME NEW q \in Resources, EmptyNamespace(q) \/ Vanish(q) PROVE Same(r) \/ Loses(r)
  BY <1>1, <1>6 DEF EmptyNamespace, Vanish, Same, Loses, TypeOK
<1>7. ASSUME NEW q \in Resources, UserCreate(q) PROVE Same(r) \/ Gains(r)
  BY <1>1, <1>7 DEF UserCreate, Write, Same, Gains, Exists, TypeOK
<1>8. ASSUME NEW w \in Workers, Step(w), ~ApplyOne(w), ~Remove(w), ~RemoveHome(w),
             \A l \in KfDefs : ~BeginApply(w, l)
      PROVE  UNCHANGED cluster
  BY <1>8 DEF Step, Render, FinishApp, BeginDelete, NextApp, Look, Wait, LookHome
<1>9. CASE UNCHANGED vars
  BY <1>2, <1>9 DEF vars
<1>10. QED
  BY <1>2, <1>3, <1>4, <1>5, <1>6, <1>7, <1>8, <1>9 DEF Next

\* So r stays annotated, and what a user is left with stays, unless k is applied.
LEMMA OwnStays ==
  ASSUME TypeOK, Clean, [Next]_vars, NEW k \in KfDefs, NEW i, NEW r, Own(k, i, r)
  PROVE  /\ Holds(k, r)'
         /\ Users(r) /\ (\A w \in Workers : worker[w].pc = "apply" => worker[w].key # k) => Users(r)'
<1>1. Holds(k, r)
  BY DEF Clean, ClusterClean, Own
<1>2. \/ Same(r) \/ Loses(r) \/ Gains(r)
      \/ Rewritten(r, k) /\ \E w \in Workers : worker[w].pc = "apply" /\ worker[w].key = k
  BY OwnSteps
<1>3. QED
  BY <1>1, <1>2 DEF Holds, Users, Same, Loses, Gains, Rewritten

\* A worker that is not applying k leaves what k has deleted alone.
LEMMA UsersStay ==
  ASSUME OneWorker, TypeOK, Clean, [Next]_vars, NEW w \in Workers, NEW k \in KfDefs, NEW i, NEW r,
         Own(k, i, r), Users(r), worker[w].pc # "apply"
  PROVE  Users(r)'
<1>1. \A v \in Workers : worker[v].pc = "apply" => worker[v].key # k
  BY DEF OneWorker
<1>2. QED
  BY <1>1, OwnStays

\* What a deletion has to show of the job j it goes on with.
LEMMA GoesOn ==
  ASSUME OneWorker, TypeOK, Clean, Next, NEW w \in Workers, NEW j, Become(w, j),
         worker[w].pc \in {"look", "remove", "wait"},
         j.key = worker[w].key, j.pc \in {"look", "remove", "wait"}, j.app \in 1..Len(Apps[j.key]) + 1,
         ~j.errs => ~worker[w].errs,
         ~j.errs => \A i \in DOMAIN Apps[j.key] : \A r \in Apps[j.key][i] :
                      Own(j.key, i, r) /\ Passed(j, i, r) /\ ~Passed(worker[w], i, r) => Users(r)
  PROVE  JobApplies(worker[w])' /\ JobDeletes(worker[w])'
<1>1. worker'[w] = j /\ j.key \in KfDefs
  BY BusyType, TypeParts DEF Become, TypeOK
<1>2. ASSUME ~j.errs, NEW i \in DOMAIN Apps[j.key], NEW r \in Apps[j.key][i],
             Own(j.key, i, r), Passed(j, i, r)
      PROVE  Users(r)'
  <2>1. Passed(worker[w], i, r) => Users(r)
    BY <1>2 DEF Clean, JobDeletes
  <2>2. Users(r)
    BY <1>2, <2>1
  <2>3. QED
    BY <1>1, <1>2, <2>2, UsersStay
<1>3. JobApplies(worker[w])'
  BY <1>1 DEF JobApplies
<1>4. JobDeletes(worker[w])'
  BY <1>1, <1>2 DEF JobDeletes, Own, Unshared, Listed, Plain, Passed
<1>5. QED
  BY <1>3, <1>4

LEMMA VisitedGoesOn ==
  ASSUME OneWorker, TypeOK, Clean, Next, NEW w \in Workers, NEW r, NEW failed \in BOOLEAN,
         Visited(w, r, failed), worker[w].pc \in {"look", "remove", "wait"},
         ~failed => \A i : Own(worker[w].key, i, r) => Users(r)
  PROVE  JobApplies(worker[w])' /\ JobDeletes(worker[w])'
<1> DEFINE T == worker[w].todo \ {r}
           b == worker[w].errs \/ failed
           j == [worker[w] EXCEPT !.pc = "look", !.todo = T, !.target = Nowhere, !.errs = b]
<1>1. Become(w, j)
  BY DEF Visited
<1>2. worker[w] \in Job /\ worker[w].app \in 1..Len(Apps[worker[w].key]) + 1
  BY BusyType, TypeParts DEF Clean, JobDeletes
<1>3. j.pc = "look" /\ j.key = worker[w].key /\ j.app = worker[w].app /\ j.todo = T /\ j.errs = b
  BY <1>2 DEF Job
<1> HIDE DEF j
<1>4. ~j.errs => ~worker[w].errs /\ ~failed
  BY <1>3
<1>5. \A i, q : Passed(j, i, q) /\ ~Passed(worker[w], i, q) => q = r
  BY <1>3 DEF Passed
<1>6. QED
  BY <1>1, <1>2, <1>3, <1>4, <1>5, GoesOn

LEMMA ApplyClean ==
  ASSUME TypeOK, Clean, NEW w \in Workers,
         (\E k \in KfDefs : BeginApply(w, k)) \/ Render(w) \/ ApplyOne(w) \/ FinishApp(w)
  PROVE  JobApplies(worker[w])' /\ JobDeletes(worker[w])'
<1>0. UNCHANGED state
  BY DEF BeginApply, Render, ApplyOne, FinishApp
<1>1. ASSUME NEW j, Become(w, j), j.pc \in {"idle", "render", "apply"},
             j.pc # "idle" => state[j.key] = "live",
             j.pc = "apply" => /\ j.todo \subseteq Apps[j.key][j.app]
                               /\ Plain(j.key, j.app) => j.mark = Apps[j.key][j.app]
      PROVE  JobApplies(worker[w])' /\ JobDeletes(worker[w])'
  <2>1. worker'[w] = j
    BY <1>1 DEF Become, TypeOK
  <2>2. QED
    BY <1>0, <1>1, <2>1 DEF JobApplies, JobDeletes, Plain
<1>2. ASSUME Return(w) PROVE JobApplies(worker[w])' /\ JobDeletes(worker[w])'
  BY <1>1, <1>2 DEF Return, Idle
<1>3. ASSUME NEW k \in KfDefs, BeginApply(w, k) PROVE JobApplies(worker[w])' /\ JobDeletes(worker[w])'
  <2> DEFINE j == [Idle EXCEPT !.pc = "render", !.key = k, !.app = 1]
  <2>1. j.pc = "render" /\ j.key = k
    BY DEF Idle
  <2> HIDE DEF j
  <2>2. Become(w, j) /\ state[k] = "live"
    BY <1>3 DEF BeginApply, j
  <2>3. QED
    BY <1>1, <2>1, <2>2
<1>4. ASSUME worker[w].pc \in {"render", "apply"}
      PROVE  worker[w] \in Job /\ worker[w].key \in KfDefs /\ state[worker[w].key] = "live"
  BY <1>4, BusyType, TypeParts DEF Clean, JobApplies
<1>5. CASE Render(w)
  <2> DEFINE R == Apps[worker[w].key][worker[w].app]
             there == {n \in Namespaces : Exists(n)}
  <2>1. worker[w].pc = "render"
    BY <1>5 DEF Render, At
  <2>2. ASSUME NEW known \in SUBSET there,
               Become(w, [worker[w] EXCEPT !.pc = "apply", !.todo = R, !.mark = Marked(R, known)])
        PROVE  JobApplies(worker[w])' /\ JobDeletes(worker[w])'
    <3> DEFINE M == Marked(R, known)
               j == [worker[w] EXCEPT !.pc = "apply", !.todo = R, !.mark = M]
    <3>1. Become(w, j)
      BY <2>2
    <3>2. j.pc = "apply" /\ j.todo = R /\ j.mark = M /\ j.key = worker[w].key /\ j.app = worker[w].app
      <4> HIDE DEF M, R
      <4>1. QED
        BY <1>4, <2>1 DEF Job
    <3>3. Plain(worker[w].key, worker[w].app) => M = R
      BY DEF Plain, Marked
    <3> HIDE DEF j, M
    <3>4. QED
      BY <1>1, <1>4, <2>1, <3>1, <3>2, <3>3
  <2>3. \/ Return(w)
        \/ \E known \in SUBSET there :
             Become(w, [worker[w] EXCEPT !.pc = "apply", !.todo = R, !.mark = Marked(R, known)])
    BY <1>5 DEF Render
  <2>4. QED
    BY <1>2, <2>2, <2>3
<1>6. CASE ApplyOne(w)
  <2>1. worker[w].pc = "apply"
    BY <1>6 DEF ApplyOne, At
  <2>2. ASSUME NEW T \in SUBSET worker[w].todo, NEW b,
               \/ Become(w, [worker[w] EXCEPT !.todo = T])
               \/ Become(w, [worker[w] EXCEPT !.todo = T, !.errs = b])
        PROVE  JobApplies(worker[w])' /\ JobDeletes(worker[w])'
    <3>1. ASSUME NEW j, Become(w, j), j.pc = "apply", j.todo = T, j.mark = worker[w].mark,
                 j.key = worker[w].key, j.app = worker[w].app
          PROVE  JobApplies(worker[w])' /\ JobDeletes(worker[w])'
      BY <1>1, <1>4, <2>1, <3>1 DEF Clean, JobApplies
    <3>2. /\ [worker[w] EXCEPT !.todo = T].pc = "apply" /\ [worker[w] EXCEPT !.todo = T].todo = T
          /\ [worker[w] EXCEPT !.todo = T].mark = worker[w].mark
          /\ [worker[w] EXCEPT !.todo = T].key = worker[w].key
          /\ [worker[w] EXCEPT !.todo = T].app = worker[w].app
      BY <1>4, <2>1 DEF Job
    <3>3. /\ [worker[w] EXCEPT !.todo = T, !.errs = b].pc = "apply"
          /\ [worker[w] EXCEPT !.todo = T, !.errs = b].todo = T
          /\ [worker[w] EXCEPT !.todo = T, !.errs = b].mark = worker[w].mark
          /\ [worker[w] EXCEPT !.todo = T, !.errs = b].key = worker[w].key
          /\ [worker[w] EXCEPT !.todo = T, !.errs = b].app = worker[w].app
      BY <1>4, <2>1 DEF Job
    <3>4. QED
      BY <2>2, <3>1, <3>2, <3>3
  <2>3. \E T \in SUBSET worker[w].todo : \E b :
          \/ Become(w, [worker[w] EXCEPT !.todo = T])
          \/ Become(w, [worker[w] EXCEPT !.todo = T, !.errs = b])
    <3>1. PICK r \in worker[w].todo :
            \/ Become(w, [worker[w] EXCEPT !.todo = @ \ {r}])
            \/ Become(w, [worker[w] EXCEPT !.todo = @ \ {r}, !.errs = TRUE])
      BY <1>6 DEF ApplyOne
    <3> DEFINE T == worker[w].todo \ {r}
    <3>2. T \in SUBSET worker[w].todo
      OBVIOUS
    <3>3. Become(w, [worker[w] EXCEPT !.todo = T]) \/ Become(w, [worker[w] EXCEPT !.todo = T, !.errs = TRUE])
      BY <3>1
    <3> HIDE DEF T
    <3>4. QED
      BY <3>2, <3>3
  <2>4. QED
    BY <2>2, <2>3
<1>7. CASE FinishApp(w)
  <2>1. worker[w].pc = "apply"
    BY <1>7 DEF FinishApp, At
  <2>2. CASE \E i : Become(w, [worker[w] EXCEPT !.pc = "render", !.app = i])
    <3>1. PICK i : Become(w, [worker[w] EXCEPT !.pc = "render", !.app = i])
      BY <2>2
    <3> DEFINE j == [worker[w] EXCEPT !.pc = "render", !.app = i]
    <3>2. j.pc = "render" /\ j.key = worker[w].key
      BY <1>4, <2>1 DEF Job
    <3>3. Become(w, j)
      BY <3>1
    <3> HIDE DEF j
    <3>4. QED
      BY <1>1, <1>4, <2>1, <3>2, <3>3
  <2>3. CASE Become(w, [worker[w] EXCEPT !.todo = Apps[worker[w].key][worker[w].app], !.errs = FALSE])
    <3> DEFINE R == Apps[worker[w].key][worker[w].app]
    <3> DEFINE j == [worker[w] EXCEPT !.todo = R, !.errs = FALSE]
    <3>1. Become(w, j)
      BY <2>3
    <3>2. /\ j.pc = "apply" /\ j.todo = R /\ j.mark = worker[w].mark
          /\ j.key = worker[w].key /\ j.app = worker[w].app
      <4> HIDE DEF R
      <4>1. QED
        BY <1>4, <2>1 DEF Job
    <3> HIDE DEF j
    <3>3. QED
      BY <1>1, <1>4, <2>1, <3>1, <3>2 DEF Clean, JobApplies
  <2>4. \/ \E i : Become(w, [worker[w] EXCEPT !.pc = "render", !.app = i])
        \/ Become(w, [worker[w] EXCEPT !.todo = Apps[worker[w].key][worker[w].app], !.errs = FALSE])
        \/ Return(w)
    BY <1>7 DEF FinishApp
  <2>5. QED
    BY <1>2, <2>2, <2>3, <2>4
<1>8. QED
  BY <1>3, <1>5, <1>6, <1>7

LEMMA EndClean ==
  ASSUME TypeOK, NEW w \in Workers, Return(w) \/ \E outcome : End(w, outcome)
  PROVE  JobApplies(worker[w])' /\ JobDeletes(worker[w])'
<1>1. worker'[w] = Idle
  BY DEF End, Return, Become, TypeOK
<1>2. QED
  BY <1>1 DEF JobApplies, JobDeletes, Idle

LEMMA DeleteClean ==
  ASSUME OneWorker, TypeOK, Clean, Next, NEW w \in Workers,
         \/ \E k \in KfDefs : BeginDelete(w, k)
         \/ NextApp(w) \/ Look(w) \/ Remove(w) \/ Wait(w) \/ LookHome(w) \/ RemoveHome(w)
  PROVE  JobApplies(worker[w])' /\ JobDeletes(worker[w])'
<1> USE DEF cluster
<1>1. worker[w] \in Job /\ \A j : Become(w, j) => worker'[w] = j
  BY DEF TypeOK, Become
<1>2. ASSUME NEW k \in KfDefs, BeginDelete(w, k) PROVE JobApplies(worker[w])' /\ JobDeletes(worker[w])'
  <2> DEFINE n == Len(Apps[k]) + 1
             j == [Idle EXCEPT !.pc = "look", !.key = k, !.app = n]
  <2>1. Become(w, j)
    BY <1>2 DEF BeginDelete
  <2>2. j.pc = "look" /\ j.key = k /\ j.app = n /\ n \in 1..Len(Apps[k]) + 1
    <3>1. n \in 1..Len(Apps[k]) + 1
      BY ConstantsAssumption
    <3> HIDE DEF n
    <3>2. QED
      BY <3>1 DEF Idle
  <2> HIDE DEF j
  <2>3. \A i \in DOMAIN Apps[k] : \A r : ~Passed(j, i, r)
    BY <2>2, ConstantsAssumption DEF Passed
  <2>4. worker'[w] = j
    BY <1>1, <2>1
  <2>5. JobApplies(worker[w])'
    BY <2>2, <2>4 DEF JobApplies
  <2>6. JobDeletes(worker[w])'
    BY <2>2, <2>3, <2>4 DEF JobDeletes, Passed
  <2>7. QED
    BY <2>5, <2>6
<1>3. CASE NextApp(w)
  <2> DEFINE i == worker[w].app - 1
             R == Apps[worker[w].key][i]
  <2>1. /\ worker[w].pc = "look" /\ worker[w].todo = {} /\ worker[w].key \in KfDefs
        /\ worker[w].app \in 1..Len(Apps[worker[w].key]) + 1
    BY <1>3, BusyType, TypeParts DEF NextApp, At, Clean, JobDeletes
  <2>2. DOMAIN Apps[worker[w].key] = 1..Len(Apps[worker[w].key]) /\ Len(Apps[worker[w].key]) \in Nat
    BY <2>1, ConstantsAssumption
  <2>3. CASE i \in DOMAIN Apps[worker[w].key] /\ Become(w, [worker[w] EXCEPT !.app = i, !.todo = R])
    <3> DEFINE j == [worker[w] EXCEPT !.app = i, !.todo = R]
    <3>1. Become(w, j)
      BY <2>3
    <3>2. j.pc = "look" /\ j.key = worker[w].key /\ j.app = i /\ j.todo = R /\ j.errs = worker[w].errs
      <4> HIDE DEF i, R
      <4>1. QED
        BY <1>1, <2>1 DEF Job
    <3> HIDE DEF j
    <3>3. ASSUME NEW h \in DOMAIN Apps[j.key], NEW r \in Apps[j.key][h], Passed(j, h, r)
          PROVE  Passed(worker[w], h, r)
      <4>1. h > i
        <5>1. CASE h = i
          BY <3>2, <3>3, <5>1 DEF Passed
        <5>2. QED
          BY <3>2, <3>3, <5>1 DEF Passed
      <4>2. h > worker[w].app \/ h = worker[w].app
        BY <2>1, <2>2, <3>2, <3>3, <4>1
      <4>3. QED
        BY <2>1, <4>2 DEF Passed
    <3>4. i \in 1..Len(Apps[worker[w].key]) + 1
      BY <2>1, <2>2, <2>3
    <3> HIDE DEF i
    <3>5. QED
      BY <2>1, <3>1, <3>2, <3>3, <3>4, GoesOn
  <2>4. CASE i \notin DOMAIN Apps[worker[w].key] /\ ~worker[w].errs /\ Become(w, [worker[w] EXCEPT !.pc = "home"])
    <3> DEFINE j == [worker[w] EXCEPT !.pc = "home"]
    <3>1. worker'[w] = j
      BY <1>1, <2>4
    <3>2. j.pc = "home" /\ j.key = worker[w].key
      BY <1>1, <2>1 DEF Job
    <3> HIDE DEF j
    <3>3. worker[w].app = 1
      BY <2>1, <2>2, <2>4
    <3>4. ASSUME NEW h \in DOMAIN Apps[j.key], NEW r \in Apps[j.key][h], Own(j.key, h, r)
          PROVE  Users(r)'
      <4>1. Passed(worker[w], h, r)
        BY <2>1, <2>2, <3>2, <3>3 DEF Passed
      <4>2. Users(r)
        BY <2>1, <2>4, <3>2, <4>1, <3>4 DEF Clean, JobDeletes
      <4>3. QED
        BY <2>1, <3>2, <3>4, <4>2, UsersStay
    <3>5. JobApplies(worker[w])'
      BY <3>1, <3>2 DEF JobApplies
    <3>6. JobDeletes(worker[w])'
      BY <3>1, <3>2, <3>4 DEF JobDeletes, Own, Unshared, Listed, Plain
    <3>7. QED
      BY <3>5, <3>6
  <2>5. \/ i \in DOMAIN Apps[worker[w].key] /\ Become(w, [worker[w] EXCEPT !.app = i, !.todo = R])
        \/ i \notin DOMAIN Apps[worker[w].key] /\ ~worker[w].errs /\ Become(w, [worker[w] EXCEPT !.pc = "home"])
        \/ End(w, "failed")
    BY <1>3 DEF NextApp
  <2>6. QED
    BY <2>3, <2>4, <2>5, EndClean
<1>4. ASSUME worker[w].pc \in {"look", "remove", "wait"}, NEW pc \in {"remove", "wait"}, NEW j,
             Become(w, j), j.pc = pc, j.key = worker[w].key, j.app = worker[w].app,
             j.todo = worker[w].todo, j.errs = worker[w].errs
      PROVE  JobApplies(worker[w])' /\ JobDeletes(worker[w])'
  <2>1. worker[w].app \in 1..Len(Apps[worker[w].key]) + 1
    BY <1>4 DEF Clean, JobDeletes
  <2>2. \A i, r : Passed(j, i, r) => Passed(worker[w], i, r)
    BY <1>4 DEF Passed
  <2>3. QED
    BY <1>4, <2>1, <2>2, GoesOn
<1>5. CASE Look(w)
  <2>1. worker[w].pc = "look" /\ worker[w].key \in KfDefs
    BY <1>5, BusyType, TypeParts DEF Look, At
  <2>2. PICK r \in worker[w].todo :
          \/ /\ Removable(r)
             /\ Become(w, [worker[w] EXCEPT !.pc = IF phase[r] = "present" THEN "remove" ELSE "wait",
                                            !.target = r])
          \/ ~Removable(r) /\ Visited(w, r, FALSE)
          \/ Visited(w, r, TRUE)
    BY <1>5 DEF Look
  <2>3. CASE Become(w, [worker[w] EXCEPT !.pc = IF phase[r] = "present" THEN "remove" ELSE "wait",
                                         !.target = r])
    <3> DEFINE pc == IF phase[r] = "present" THEN "remove" ELSE "wait"
               j == [worker[w] EXCEPT !.pc = pc, !.target = r]
    <3>1. Become(w, j) /\ pc \in {"remove", "wait"}
      BY <2>3
    <3>2. /\ j.pc = pc /\ j.key = worker[w].key /\ j.app = worker[w].app
          /\ j.todo = worker[w].todo /\ j.errs = worker[w].errs
      <4> HIDE DEF pc
      <4>1. QED
        BY <1>1 DEF Job
    <3> HIDE DEF j, pc
    <3>3. QED
      BY <1>4, <2>1, <3>1, <3>2
  <2>4. CASE ~Removable(r) /\ Visited(w, r, FALSE)
    <3>1. ASSUME NEW i, Own(worker[w].key, i, r) PROVE Users(r)
      <4>1. Holds(worker[w].key, r)
        BY <2>1, <3>1 DEF Clean, ClusterClean, Own
      <4>2. worker[w].key # Nobody
        BY <2>1, ConstantsAssumption
      <4>3. QED
        BY <2>4, <4>1, <4>2 DEF Users, Holds, Removable, Exists
    <3>2. QED
      BY <2>1, <2>4, <3>1, VisitedGoesOn
  <2>5. CASE Visited(w, r, TRUE)
    BY <2>1, <2>5, VisitedGoesOn
  <2>6. QED
    BY <2>2, <2>3, <2>4, <2>5
<1>6. CASE Remove(w)
  <2>1. worker[w].pc = "remove"
    BY <1>6 DEF Remove, At
  <2>2. CASE Become(w, [worker[w] EXCEPT !.pc = "wait"])
    <3> DEFINE j == [worker[w] EXCEPT !.pc = "wait"]
    <3>1. /\ j.pc = "wait" /\ j.key = worker[w].key /\ j.app = worker[w].app
          /\ j.todo = worker[w].todo /\ j.errs = worker[w].errs
      BY <1>1 DEF Job
    <3>2. Become(w, j)
      BY <2>2
    <3> HIDE DEF j
    <3>3. QED
      BY <1>4, <2>1, <3>1, <3>2
  <2>3. CASE \E r : Visited(w, r, TRUE)
    BY <2>1, <2>3, VisitedGoesOn
  <2>4. QED
    BY <1>6, <2>2, <2>3 DEF Remove
<1>7. CASE Wait(w)
  <2> DEFINE r == worker[w].target
  <2>1. worker[w].pc = "wait" /\ Visited(w, r, Exists(r)) /\ Exists(r) \in BOOLEAN
    BY <1>7 DEF Wait, At, Exists
  <2>2. ~Exists(r) => Users(r)
    BY DEF Exists, Users
  <2> HIDE DEF r
  <2>3. QED
    BY <2>1, <2>2, VisitedGoesOn
<1>8. CASE LookHome(w)
  <2>1. worker[w].pc = "home" /\ worker[w].key \in KfDefs
    BY <1>8, BusyType, TypeParts DEF LookHome, At
  <2> DEFINE n == Home[worker[w].key]
             j == [worker[w] EXCEPT !.pc = "removeHome", !.target = n]
  <2>2. CASE Become(w, j)
    <3>1. j.pc = "removeHome" /\ j.key = worker[w].key
      <4> HIDE DEF n
      <4>1. QED
        BY <1>1 DEF Job
    <3>2. worker'[w] = j
      <4> HIDE DEF j
      <4>1. QED
        BY <1>1, <2>2
    <3> HIDE DEF j
    <3>3. ASSUME NEW i \in DOMAIN Apps[j.key], NEW r \in Apps[j.key][i], Own(j.key, i, r)
          PROVE  Users(r)'
      <4>1. Users(r)
        BY <2>1, <3>1, <3>3 DEF Clean, JobDeletes
      <4>2. QED
        BY <2>1, <3>1, <3>3, <4>1, UsersStay
    <3>4. JobApplies(worker[w])'
      BY <3>1, <3>2 DEF JobApplies
    <3>5. JobDeletes(worker[w])'
      BY <3>1, <3>2, <3>3 DEF JobDeletes, Own, Unshared, Listed, Plain
    <3>6. QED
      BY <3>4, <3>5
  <2>3. CASE End(w, "deleted")
    BY <2>3, EndClean
  <2>4. QED
    BY <1>8, <2>2, <2>3 DEF LookHome
<1>9. CASE RemoveHome(w)
  BY <1>9, EndClean DEF RemoveHome
<1>10. QED
  BY <1>2, <1>3, <1>5, <1>6, <1>7, <1>8, <1>9

\* Who can report that a deletion is done.
LEMMA DeletedBy ==
  ASSUME TypeOK, Next, NEW k \in KfDefs, state'[k] = "deleted"
  PROVE  state[k] = "deleted" \/ \E w \in Workers : worker[w].pc \in {"home", "removeHome"} /\ worker[w].key = k
<1>1. ASSUME NEW w \in Workers, NEW outcome, End(w, outcome), worker[w].key # k
      PROVE  state'[k] = state[k]
  BY <1>1 DEF End, TypeOK
<1>2. ASSUME NEW w \in Workers, End(w, "failed") PROVE state[k] = "deleted"
  BY <1>2 DEF End, TypeOK
<1>3. ASSUME NEW w \in Workers, LookHome(w) \/ RemoveHome(w)
      PROVE  state[k] = "deleted" \/ (worker[w].pc \in {"home", "removeHome"} /\ worker[w].key = k)
  BY <1>1, <1>3 DEF LookHome, RemoveHome, At
<1>4. ASSUME NEW w \in Workers, NextApp(w) PROVE state[k] = "deleted"
  BY <1>2, <1>4 DEF NextApp
<1>5. ASSUME NEW w \in Workers, NEW l \in KfDefs, BeginDelete(w, l) PROVE state[k] = "deleted"
  BY <1>5 DEF BeginDelete, TypeOK
<1>6. ASSUME NEW w \in Workers, NEW l \in KfDefs,
             BeginApply(w, l) \/ Render(w) \/ ApplyOne(w) \/ FinishApp(w) \/ Look(w) \/ Remove(w) \/ Wait(w)
      PROVE  UNCHANGED state
  BY <1>6 DEF BeginApply, Render, ApplyOne, FinishApp, Look, Remove, Wait
<1>7. ASSUME NEW r \in Resources, EmptyNamespace(r) \/ Vanish(r) \/ UserCreate(r) PROVE UNCHANGED state
  BY <1>7 DEF EmptyNamespace, Vanish, UserCreate
<1>8. QED
  BY <1>3, <1>4, <1>5, <1>6, <1>7 DEF Next, Step

LEMMA CleanStep ==
  ASSUME OneWorker, TypeOK, Clean, [Next]_vars
  PROVE  Clean'
<1>1. CASE UNCHANGED vars
  BY <1>1 DEF vars, cluster, Clean, ClusterClean, JobApplies, JobDeletes, Own, Unshared, Listed, Plain,
              Passed, Users, Holds
<1>2. CASE Next
  <2>1. ASSUME NEW k \in KfDefs, NEW i \in DOMAIN Apps[k], NEW r \in Apps[k][i], Own(k, i, r)
        PROVE  Holds(k, r)' /\ (state'[k] = "deleted" => Users(r)')
    <3>1. Holds(k, r)'
      BY <1>2, <2>1, OwnStays
    <3>2. ASSUME state'[k] = "deleted" PROVE Users(r)'
      <4>1. CASE state[k] = "deleted"
        <5>1. Users(r)
          BY <2>1, <4>1 DEF Clean, ClusterClean
        <5>2. \A w \in Workers : worker[w].pc = "apply" => worker[w].key # k
          BY <4>1 DEF Clean, JobApplies
        <5>3. QED
          BY <1>2, <2>1, <5>1, <5>2, OwnStays
      <4>2. CASE \E w \in Workers : worker[w].pc \in {"home", "removeHome"} /\ worker[w].key = k
        <5>1. PICK w \in Workers : worker[w].pc \in {"home", "removeHome"} /\ worker[w].key = k
          BY <4>2
        <5>2. Users(r)
          BY <2>1, <5>1 DEF Clean, JobDeletes
        <5>3. QED
          BY <1>2, <2>1, <5>1, <5>2, UsersStay
      <4>3. QED
        BY <1>2, <3>2, <4>1, <4>2, DeletedBy
    <3>3. QED
      BY <3>1, <3>2
  <2>2. ClusterClean'
    BY <2>1 DEF ClusterClean, Own, Unshared, Listed, Plain
  <2>3. ASSUME NEW w \in Workers, Step(w) PROVE JobApplies(worker[w])' /\ JobDeletes(worker[w])'
    BY <1>2, <2>3, ApplyClean, DeleteClean DEF Step
  <2>4. ASSUME UNCHANGED <<worker, state>>, NEW w \in Workers
        PROVE  JobApplies(worker[w])' /\ JobDeletes(worker[w])'
    <3>1. JobApplies(worker[w])'
      BY <2>4 DEF Clean, JobApplies, Plain
    <3>2. CASE worker[w].pc = "idle" \/ worker[w].pc \in {"render", "apply"}
      <4>1. JobDeletes(worker[w])'
        BY <2>4, <3>2 DEF JobDeletes
      <4>2. QED
        BY <3>1, <4>1
    <3>3. CASE worker[w].pc \in {"look", "remove", "wait", "home", "removeHome"}
      <4>1. worker[w].key \in KfDefs /\ worker[w].pc # "apply"
        BY <3>3, BusyType, TypeParts
      <4>2. ASSUME NEW i \in DOMAIN Apps[worker[w].key], NEW r \in Apps[worker[w].key][i],
                   Own(worker[w].key, i, r), Users(r)
            PROVE  Users(r)'
        BY <1>2, <4>1, <4>2, UsersStay
      <4>0. worker' = worker /\ JobDeletes(worker[w])
        BY <2>4 DEF Clean
      <4>5. ASSUME NEW i \in DOMAIN Apps[worker[w].key], NEW r \in Apps[worker[w].key][i],
                   Own(worker[w].key, i, r), Passed(worker[w], i, r),
                   worker[w].pc \in {"look", "remove", "wait"}, ~worker[w].errs
            PROVE  Users(r)'
        <5>1. Users(r)
          BY <4>0, <4>5 DEF JobDeletes
        <5>2. QED
          BY <4>2, <4>5, <5>1
      <4>6. ASSUME NEW i \in DOMAIN Apps[worker[w].key], NEW r \in Apps[worker[w].key][i],
                   Own(worker[w].key, i, r), worker[w].pc \in {"home", "removeHome"}
            PROVE  Users(r)'
        <5>1. Users(r)
          BY <4>0, <4>6 DEF JobDeletes
        <5>2. QED
          BY <4>2, <4>6, <5>1
      <4>3. JobDeletes(worker[w])'
        BY <4>0, <4>5, <4>6 DEF JobDeletes, Own, Unshared, Listed, Plain, Passed
      <4>4. QED
        BY <3>1, <4>3
    <3>4. worker[w].pc \in PCs
      BY DEF TypeOK, Job
    <3>5. QED
      BY <3>1, <3>2, <3>3, <3>4 DEF PCs
  <2>5. ASSUME NEW r \in Resources, EmptyNamespace(r) \/ Vanish(r) \/ UserCreate(r)
        PROVE  UNCHANGED <<worker, state>>
    BY <2>5 DEF EmptyNamespace, Vanish, UserCreate
  <2>6. \A w \in Workers : JobApplies(worker[w])' /\ JobDeletes(worker[w])'
    <3>1. CASE \E w \in Workers : Step(w)
      BY <2>3, <3>1 DEF OneWorker
    <3>2. CASE \E r \in Resources : EmptyNamespace(r) \/ Vanish(r) \/ UserCreate(r)
      BY <2>4, <2>5, <3>2
    <3>3. QED
      BY <1>2, <3>1, <3>2 DEF Next
  <2>7. QED
    BY <2>2, <2>6 DEF Clean
<1>3. QED
  BY <1>1, <1>2

\* Where nothing else applies or deletes meanwhile, and whatever fails, is retried
\* or is created by users: a deletion that reports no error has removed all that
\* belongs to the KfDef alone and to an application without a namespace or the
\* profiles CRD (Delete, kustomize.go; DeleteResource, k8utils.go).
THEOREM DeletionIsClean ==
  ASSUME OneWorker
  PROVE  Spec => []CleanDeletion
<1>1. Init => TypeOK /\ Clean
  <2>1. Init => TypeOK
    BY IdleType DEF Init, TypeOK, JobOK
  <2>2. Init => ClusterClean
    <3>1. ASSUME Init, NEW k \in KfDefs, NEW i \in DOMAIN Apps[k], NEW r \in Apps[k][i]
          PROVE  r \in Resources
      BY AppsType
    <3>2. QED
      BY <3>1 DEF Init, ClusterClean, Holds
  <2>3. Init => \A w \in Workers : JobApplies(worker[w]) /\ JobDeletes(worker[w])
    BY DEF Init, JobApplies, JobDeletes, Idle
  <2>4. QED
    BY <2>1, <2>2, <2>3 DEF Clean
<1>2. TypeOK /\ Clean /\ [Next]_vars => (TypeOK /\ Clean)'
  BY NextType, CleanStep
<1>3. Clean => CleanDeletion
  BY DEF Clean, ClusterClean, CleanDeletion, Own, Plain, Users
<1>4. QED
  BY <1>1, <1>2, <1>3, PTL DEF Spec

=============================================================================
