------------------------------ MODULE KfArrikto ------------------------------
(***************************************************************************)
(* The existing_arrikto platform (pkg/kfapp/existing_arrikto/existing.go), *)
(* which installs Istio, Dex and the AuthService on a cluster that exists. *)
(* Every Apply draws a new secret for the AuthService to show to Dex and   *)
(* writes it into the manifests of both, but objects that are there are    *)
(* left as they are.                                                       *)
(***************************************************************************)
EXTENDS Naturals

CONSTANT ArrLimit        \* bounds: how often each event may happen

ArrEventKinds == {"commands", "stops", "failures"}

ASSUME ArrAssumption == ArrLimit \in [ArrEventKinds -> Nat]

VARIABLES
  namespace,   \* the KfDef's namespace
  installed,   \* what is in the cluster besides Dex and the AuthService
  dex,         \* the secret Dex knows the AuthService by, 0 if there is no Dex
  authservice, \* the secret the AuthService shows to Dex, 0 if there is none
  files,       \* the secrets in the files dex.yaml and authservice.yaml of the cache
  arrCmd, arrLast, arrUsed

login   == <<dex, authservice>>
arrVars == <<namespace, installed, login, files, arrCmd, arrLast, arrUsed>>

Manifests == {"crds", "control plane", "gateway", "filter"}
NoArrCmd  == [kind |-> "none", pc |-> "idle"]

\* What Apply goes on with after each of them.
After == [f \in Manifests \cup {"certs"} |->
            CASE f = "crds" -> "control plane"
              [] f = "control plane" -> "endpoint"
              [] f = "certs" -> "render authservice"
              [] f = "gateway" -> "filter"
              [] f = "filter" -> "dex"]

ArrTypeOK ==
  /\ namespace \in {"none", "there", "terminating"}
  /\ installed \subseteq Manifests \cup {"certs"}
  /\ dex \in Nat /\ authservice \in Nat
  /\ files \in [dex : Nat, authservice : Nat]
  /\ arrCmd.kind \in {"none", "apply", "delete"}
  /\ arrLast \in [kind : {"none", "apply", "delete"}, outcome : {"none", "ok", "failed"}]
  /\ arrUsed \in [ArrEventKinds -> Nat]

ArrInit ==
  /\ namespace \in {"none", "there"}
  /\ installed = {} /\ dex = 0 /\ authservice = 0
  /\ files = [dex |-> 0, authservice |-> 0]
  /\ arrCmd = NoArrCmd
  /\ arrLast = [kind |-> "none", outcome |-> "none"]
  /\ arrUsed = [e \in ArrEventKinds |-> 0]

-----------------------------------------------------------------------------

ArrSpend(e) == arrUsed[e] < ArrLimit[e] /\ arrUsed' = [arrUsed EXCEPT ![e] = @ + 1]
ArrAt(pc)   == arrCmd.pc = pc
ArrGoto(pc) == arrCmd' = [arrCmd EXCEPT !.pc = pc] /\ UNCHANGED <<arrLast, arrUsed>>
ArrFinish(outcome) == arrCmd' = NoArrCmd /\ arrLast' = [kind |-> arrCmd.kind, outcome |-> outcome]
ArrEnd(outcome)    == ArrFinish(outcome) /\ UNCHANGED arrUsed

\* The secret of the apply that is running: genRandomString.
NewSecret == arrUsed["commands"]

ArrStart ==
  /\ ArrAt("idle") /\ ArrSpend("commands")
  /\ \E kind \in {"apply", "delete"} :
       /\ arrCmd' = [kind |-> kind, pc |-> IF kind = "apply" THEN "namespace" ELSE "remove"]
       /\ arrLast' = [kind |-> kind, outcome |-> "none"]
  /\ UNCHANGED <<namespace, installed, login, files>>

\* A namespace that exists, or is on its way out, is fine.
ArrCreateNamespace ==
  /\ ArrAt("namespace") /\ ArrGoto("crds")
  /\ namespace' = IF namespace = "none" THEN "there" ELSE namespace
  /\ UNCHANGED <<installed, login, files>>

\* applyManifests, CreateResourceFromFile: create what is not there.
Install(f) ==
  /\ ArrAt(f) /\ f \in Manifests
  /\ installed' = installed \cup {f}
  /\ ArrGoto(After[f])
  /\ UNCHANGED <<namespace, login, files>>

\* A secret that exists is fine.
CreateSelfSignedCerts ==
  /\ ArrAt("certs") /\ ArrGoto(After["certs"])
  /\ installed' = installed \cup {"certs"}
  /\ UNCHANGED <<namespace, login, files>>

\* getEndpoints: the load balancer gets an address, or Apply gives up.
GetEndpoints ==
  /\ ArrAt("endpoint")
  /\ \/ ArrGoto("certs")
     \/ ArrSpend("failures") /\ ArrFinish("failed")
  /\ UNCHANGED <<namespace, installed, login, files>>

\* generateFromGoTemplate, one file after the other.
RenderAuthService ==
  /\ ArrAt("render authservice") /\ ArrGoto("render dex")
  /\ files' = [files EXCEPT !.authservice = NewSecret]
  /\ UNCHANGED <<namespace, installed, login>>

RenderDex ==
  /\ ArrAt("render dex") /\ ArrGoto("gateway")
  /\ files' = [files EXCEPT !.dex = NewSecret]
  /\ UNCHANGED <<namespace, installed, login>>

\* Mutant: Dex is replaced by what the file says.
ReplaceDex ==
  /\ ArrAt("dex") /\ ArrGoto("authservice")
  /\ dex' = files.dex
  /\ UNCHANGED <<namespace, installed, authservice, files>>

\* applyManifests: Dex, then the AuthService, each only if it is not there.
ApplyDex ==
  /\ ArrAt("dex") /\ ArrGoto("authservice")
  /\ dex' = IF dex = 0 THEN files.dex ELSE dex
  /\ UNCHANGED <<namespace, installed, authservice, files>>

ApplyAuthService ==
  /\ ArrAt("authservice") /\ ArrEnd("ok")
  /\ authservice' = IF authservice = 0 THEN files.authservice ELSE authservice
  /\ UNCHANGED <<namespace, installed, dex, files>>

\* Delete waits for the namespace to be gone.
ArrDeleteNamespace ==
  /\ ArrAt("remove")
  /\ \/ namespace = "none" /\ ArrGoto("manifests") /\ UNCHANGED namespace
     \/ namespace = "there" /\ namespace' = "terminating" /\ UNCHANGED <<arrCmd, arrLast, arrUsed>>
  /\ UNCHANGED <<installed, login, files>>

\* deleteManifests: the paths lead into the cached repository only after an
\* Apply of the same process; here no file is found, and each is passed over.
PassOverManifests ==
  /\ ArrAt("manifests") /\ ArrEnd("ok")
  /\ UNCHANGED <<namespace, installed, login, files>>

ArrStop ==
  /\ ~ArrAt("idle") /\ ArrSpend("stops") /\ ArrFinish("failed")
  /\ UNCHANGED <<namespace, installed, login, files>>

\* Kubernetes empties the namespace.
ArrNamespaceGone ==
  /\ namespace = "terminating" /\ namespace' = "none"
  /\ UNCHANGED <<installed, login, files, arrCmd, arrLast, arrUsed>>

ArrNext ==
  \/ ArrStart \/ ArrCreateNamespace \/ \E f \in Manifests : Install(f)
  \/ GetEndpoints \/ CreateSelfSignedCerts \/ RenderAuthService \/ RenderDex \/ ApplyDex \/ ApplyAuthService
  \/ ArrDeleteNamespace \/ PassOverManifests \/ ArrStop \/ ArrNamespaceGone

ArrSpec == ArrInit /\ [][ArrNext]_arrVars

-----------------------------------------------------------------------------
(* Properties *)

\* The AuthService shows Dex the secret Dex knows, through any sequence of
\* applies and deletions, unless an apply has stopped on its way: the next one
\* then adds the AuthService with a secret of its own (Apply, existing.go).
LoginAgrees == dex # 0 /\ authservice # 0 /\ arrUsed["stops"] = 0 => dex = authservice
=============================================================================
