------------------------------ MODULE KfSettings ------------------------------
(***************************************************************************)
(* The configuration in memory: its setters and getters                    *)
(* (pkg/kfconfig/types.go), how it is read from and written to a KfDef's   *)
(* file (pkg/kfconfig/loaders), and, where the applications are a stack,   *)
(* the kustomizations in which parameters are kept instead.  A command     *)
(* loads the file, changes settings, may generate, writes the file, and    *)
(* may stop anywhere.  What the settings mean, a table, is kept beside.    *)
(***************************************************************************)
EXTENDS Naturals, Sequences, FiniteSets, SequencesExt

CONSTANTS
  KfDefFiles,    \* files that users write, as LoadKfConfig gets them
  ParamNames,    \* of the applications
  SettingValues,
  OverlayNames,
  SecretNames,
  StackOf,       \* appToStack: application -> directory
  SettingLimit   \* bounds of the model: how often each event happens

SettingEventKinds == {"settings", "loads", "stops"}
StackName == "kubeflow-apps"   \* KfAppsStackName
Platforms == {"GCP", "AWS"}    \* the plugins' kinds

\* Names are unique in a file: the setters take the last of several, the getters
\* the first.
Unique(seq) == \A i, j \in DOMAIN seq : seq[i].name = seq[j].name => i = j
\* A secret has a literal value, the name of an environment variable, or neither.
SetSources == {"literal", "env"} \X SettingValues
Sources    == SetSources \cup {<<"none", "">>}
Secrets    == [name : SecretNames, source : Sources]
Plugins    == [name : Platforms, spec : SettingValues]
Applications ==
  [name : DOMAIN StackOf, path : STRING, overlays : Seq(OverlayNames),
   params : Seq([name : ParamNames, value : SettingValues])]
ASSUME SettingAssumption ==
  /\ \A f \in KfDefFiles :
       /\ f.apps \in Seq(Applications) /\ f.plugins \in Seq(Plugins) /\ f.secrets \in Seq(Secrets)
       /\ Unique(f.apps) /\ Unique(f.secrets) /\ Unique(f.plugins)
       /\ \A a \in ToSet(f.apps) : Unique(a.params)
  /\ SettingLimit \in [SettingEventKinds -> Nat]

VARIABLES
  kfFile,   \* the KfDef in app.yaml
  conf,     \* the KfConfig in memory, <<>> when no command runs
  stackDirs,\* directory of a stack -> its kustomization and config maps
  setting,  \* the parameter whose config map is still to be written
  meant,    \* what the settings made mean: tables of parameters, overlays, ...
  torn,     \* directories in which a command stopped between the two files
  settingUsed

settingVars == <<kfFile, conf, stackDirs, setting, meant, torn, settingUsed>>

SettingOnce(k) ==
  settingUsed[k] < SettingLimit[k] /\ settingUsed' = [settingUsed EXCEPT ![k] = @ + 1]

-----------------------------------------------------------------------------
(* pkg/kfconfig/loaders *)

\* LoadKfConfig: the platform is the last plugin's; basic auth is inferred.
LoadKfConfig(f) ==
  [apps |-> f.apps, plugins |-> f.plugins, secrets |-> f.secrets,
   platform |-> IF f.plugins = <<>> THEN "" ELSE Last(f.plugins).name,
   basic |-> \E a \in ToSet(f.apps) : a.path = "common/basic-auth"]

\* Mutant: the secrets are written as they are.
LoadKfDefWithSecrets(c) == [apps |-> c.apps, plugins |-> c.plugins, secrets |-> c.secrets]

\* LoadKfDef: of a secret's sources only the environment is written.
LoadKfDef(c) ==
  [apps |-> c.apps, plugins |-> c.plugins,
   secrets |-> [i \in DOMAIN c.secrets |->
      [c.secrets[i] EXCEPT !.source = IF @[1] = "env" THEN @ ELSE <<"none", "">>]]]

\* The tables a configuration means.
At(seq, n)   == seq[CHOOSE i \in DOMAIN seq : seq[i].name = n]
Names(seq)   == {seq[i].name : i \in DOMAIN seq}
Table(seq, Field(_)) == [n \in Names(seq) |-> Field(At(seq, n))]
Value(x)     == x.value
Spec(x)      == x.spec
Source(x)    == x.source
Meaning(c) ==
  [params   |-> Table(c.apps, LAMBDA a : Table(a.params, Value)),
   overlays |-> Table(c.apps, LAMBDA a : ToSet(a.overlays)),
   plugins  |-> Table(c.plugins, Spec),
   secrets  |-> Table(c.secrets, Source)]

NoCommand == <<>>
Running   == conf # NoCommand
Without(t, n) == [m \in DOMAIN t \ {n} |-> t[m]]
With(t, n, v) == [m \in DOMAIN t \cup {n} |-> IF m = n THEN v ELSE t[m]]

-----------------------------------------------------------------------------
(* pkg/kfconfig/types.go *)

Index(seq, n) == CHOOSE i \in DOMAIN seq : seq[i].name = n
UsingStacks   == StackName \in Names(conf.apps)

\* setParameter: replaces or appends.
SetIn(seq, x) ==
  IF x.name \in Names(seq) THEN [seq EXCEPT ![Index(seq, x.name)] = x] ELSE Append(seq, x)

\* legacySetApplicationParameter; an application that is not there is passed over.
LegacySetParameter(a, p, v) ==
  IF a \in Names(conf.apps)
  THEN /\ conf' = [conf EXCEPT !.apps[Index(conf.apps, a)].params = SetIn(@, [name |-> p, value |-> v])]
       /\ meant' = [meant EXCEPT !.params[a] = With(@, p, v)]
  ELSE UNCHANGED <<conf, meant>>

NoStack == [bases |-> <<>>, patches |-> <<>>, maps |-> <<>>]
StackDir(d) == IF d \in DOMAIN stackDirs THEN stackDirs[d] ELSE NoStack

\* Mutant: a kustomization that is there is left as it is.
PatchNewOnly(a) ==
  stackDirs' = IF StackOf[a] \in DOMAIN stackDirs THEN stackDirs
               ELSE With(stackDirs, StackOf[a], [NoStack EXCEPT !.patches = <<a>>])

\* setApplicationParameterInConfigMap, first file: the kustomization names the
\* application's config map as a patch.
AddPatch(a) ==
  LET d == StackOf[a]
      k == StackDir(d)
  IN stackDirs' = With(stackDirs, d, [k EXCEPT !.patches = IF a \in ToSet(@) THEN @ ELSE Append(@, a)])

SetApplicationParameter(a, p, v) ==
  /\ Running /\ setting = <<>> /\ SettingOnce("settings")
  /\ IF UsingStacks
     THEN AddPatch(a) /\ setting' = <<a, p, v>> /\ UNCHANGED <<conf, meant>>
     ELSE LegacySetParameter(a, p, v) /\ UNCHANGED <<setting, stackDirs>>
  /\ UNCHANGED <<kfFile, torn>>

\* Second file: the config map, with the parameters it had.
WriteConfigMap ==
  /\ Running /\ setting # <<>>
  /\ LET d == StackOf[setting[1]]
         a == setting[1]
         had == IF a \in DOMAIN stackDirs[d].maps THEN stackDirs[d].maps[a] ELSE <<>>
     IN /\ stackDirs' = [stackDirs EXCEPT ![d].maps = With(@, a, With(had, setting[2], setting[3]))]
        /\ torn' = torn \ {<<d, a>>}
        /\ meant' = [meant EXCEPT !.stack = With(@, <<a, setting[2]>>, setting[3])]
  /\ setting' = <<>>
  /\ UNCHANGED <<kfFile, conf, settingUsed>>

\* Mutant: the base is appended whenever the application is generated.
AddBaseAgain(k, a) == [k EXCEPT !.bases = Append(@, a)]

\* createStackAppKustomization: its base in the cache is added to what is there.
AddStackBase(k, a) == [k EXCEPT !.bases = IF a \in ToSet(@) THEN @ ELSE Append(@, a)]
GenerateStack(a) ==
  /\ Running /\ setting = <<>> /\ UsingStacks /\ a \in Names(conf.apps)
  /\ stackDirs' = With(stackDirs, a, AddStackBase(StackDir(a), a))
  /\ UNCHANGED <<kfFile, conf, setting, meant, torn, settingUsed>>

\* DeleteApplication: what follows moves up.
DeleteApplication(a) ==
  /\ Running /\ setting = <<>> /\ SettingOnce("settings")
  /\ IF a \in Names(conf.apps)
     THEN /\ conf' = [conf EXCEPT !.apps = RemoveAt(@, Index(@, a))]
          /\ meant' = [meant EXCEPT !.params = Without(@, a), !.overlays = Without(@, a)]
     ELSE UNCHANGED <<conf, meant>>
  /\ UNCHANGED <<kfFile, stackDirs, setting, torn>>

\* AddApplicationOverlay, RemoveApplicationOverlay.
AddOverlay(overlays, o) == IF o \in ToSet(overlays) THEN overlays ELSE Append(overlays, o)
RemoveOverlay(overlays, o) ==
  IF o \in ToSet(overlays)
  THEN RemoveAt(overlays, CHOOSE i \in DOMAIN overlays :
                            overlays[i] = o /\ \A j \in i + 1..Len(overlays) : overlays[j] # o)
  ELSE overlays
SetOverlay(a, o, add) ==
  /\ Running /\ setting = <<>> /\ SettingOnce("settings")
  /\ IF a \in Names(conf.apps)
     THEN /\ conf' = [conf EXCEPT !.apps[Index(conf.apps, a)].overlays =
                        IF add THEN AddOverlay(@, o) ELSE RemoveOverlay(@, o)]
          /\ meant' = [meant EXCEPT !.overlays[a] = IF add THEN @ \cup {o} ELSE @ \ {o}]
     ELSE UNCHANGED <<conf, meant>>
  /\ UNCHANGED <<kfFile, stackDirs, setting, torn>>

\* SetPluginSpec.
SetPluginSpec(k, s) ==
  /\ Running /\ setting = <<>> /\ SettingOnce("settings")
  /\ conf' = [conf EXCEPT !.plugins = SetIn(@, [name |-> k, spec |-> s])]
  /\ meant' = [meant EXCEPT !.plugins = With(@, k, s)]
  /\ UNCHANGED <<kfFile, stackDirs, setting, torn>>

\* Mutant: a secret is always appended.
AppendSecret(seq, s) == Append(seq, s)

\* SetSecret.
PutSecret(seq, s) == SetIn(seq, s)
SetSecret(n, src) ==
  /\ Running /\ setting = <<>> /\ SettingOnce("settings")
  /\ conf' = [conf EXCEPT !.secrets = PutSecret(@, [name |-> n, source |-> src])]
  /\ meant' = [meant EXCEPT !.secrets = With(@, n, src)]
  /\ UNCHANGED <<kfFile, stackDirs, setting, torn>>

-----------------------------------------------------------------------------

SettingInit ==
  /\ kfFile \in KfDefFiles
  /\ conf = NoCommand /\ stackDirs = <<>> /\ setting = <<>> /\ torn = {}
  /\ meant = [params |-> <<>>, overlays |-> <<>>, plugins |-> <<>>, secrets |-> <<>>, stack |-> <<>>]
  /\ settingUsed = [k \in SettingEventKinds |-> 0]

LoadSettings ==
  /\ ~Running /\ SettingOnce("loads")
  /\ conf' = LoadKfConfig(kfFile)
  /\ LET m == Meaning(LoadKfConfig(kfFile))
     IN meant' = [meant EXCEPT !.params = m.params, !.overlays = m.overlays,
                               !.plugins = m.plugins, !.secrets = m.secrets]
  /\ UNCHANGED <<kfFile, stackDirs, setting, torn>>

\* WriteConfigToFile; the command may go on.
WriteSettings ==
  /\ Running /\ setting = <<>>
  /\ kfFile' = LoadKfDef(conf)
  /\ UNCHANGED <<conf, stackDirs, setting, meant, torn, settingUsed>>

EndSettings ==
  /\ Running /\ setting = <<>>
  /\ conf' = NoCommand
  /\ UNCHANGED <<kfFile, stackDirs, setting, meant, torn, settingUsed>>

StopSettings ==
  /\ Running /\ setting # <<>> /\ SettingOnce("stops")
  /\ conf' = NoCommand /\ setting' = <<>>
  /\ torn' = IF setting[1] \in DOMAIN stackDirs[StackOf[setting[1]]].maps THEN torn
             ELSE torn \cup {<<StackOf[setting[1]], setting[1]>>}
  /\ UNCHANGED <<kfFile, stackDirs, meant>>

SettingStep ==
  \/ LoadSettings \/ WriteSettings \/ EndSettings \/ StopSettings \/ WriteConfigMap
  \/ \E a \in DOMAIN StackOf :
       \/ GenerateStack(a) \/ DeleteApplication(a)
       \/ \E p \in ParamNames, v \in SettingValues : SetApplicationParameter(a, p, v)
       \/ \E o \in OverlayNames, add \in BOOLEAN : SetOverlay(a, o, add)
  \/ \E k \in Platforms, v \in SettingValues : SetPluginSpec(k, v)
  \/ \E n \in SecretNames, src \in SetSources : SetSecret(n, src)

SettingTypeOK ==
  /\ Running => Unique(conf.apps) /\ Unique(conf.plugins)
  /\ setting # <<>> => Running /\ UsingStacks
  /\ \A d \in DOMAIN stackDirs : DOMAIN stackDirs[d].maps \subseteq ToSet(stackDirs[d].patches)

-----------------------------------------------------------------------------
(* Properties *)

\* No application of a file that a user wrote lists an overlay twice:
\* RemoveApplicationOverlay would remove only the last of the two.
OverlaysOnce == \A f \in KfDefFiles : \A i \in DOMAIN f.apps : IsInjective(f.apps[i].overlays)

\* Through any sequence of settings, what a getter reads is what was set last for
\* that name, and settings of other names have not changed it: the lists mean the
\* tables (the setters and getters of KfConfig, types.go).
SettingsRead ==
  Running =>
    /\ Unique(conf.apps) /\ Unique(conf.plugins) /\ Unique(conf.secrets)
    /\ \A i \in DOMAIN conf.apps : Unique(conf.apps[i].params)
    /\ \A f \in {"params", "overlays", "plugins", "secrets"} : Meaning(conf)[f] = meant[f]

\* No file ever has a literal secret in it unless the user wrote it there, and a
\* file that a command wrote is the same when it is loaded and written again
\* (LoadKfConfig, LoadKfDef, loaders/v1.go).
WrittenIsRead ==
  kfFile \notin KfDefFiles =>
    /\ \A i \in DOMAIN kfFile.secrets : kfFile.secrets[i].source[1] # "literal"
    /\ LoadKfDef(LoadKfConfig(kfFile)) = kfFile

\* A stack's kustomization has every base once and every patch once, and the file
\* of a patch, unless the command stopped right between the two; and every
\* parameter that was set is in the config map it patches, with its last value
\* (SetApplicationParameter, types.go; createStackAppKustomization, kustomize.go).
StackComplete ==
  /\ \A d \in DOMAIN stackDirs :
       LET k == stackDirs[d]
       IN /\ IsInjective(k.bases) /\ IsInjective(k.patches)
          /\ \A a \in ToSet(k.patches) :
               a \in DOMAIN k.maps \/ <<d, a>> \in torn \/ (setting # <<>> /\ setting[1] = a)
  /\ \A x \in DOMAIN meant.stack : stackDirs[StackOf[x[1]]].maps[x[1]][x[2]] = meant.stack[x]
=============================================================================
