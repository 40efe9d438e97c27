---------------------------- MODULE KfAppDirProofs ----------------------------
(***************************************************************************)
(* Theorems about the directory of a deployment, for every sequence of     *)
(* revisions, every number of commands, faults, crashes and edits.         *)
(*                                                                         *)
(* Types and NoForeignDelete hold for any number of workers.  The others   *)
(* are about one worker: kfctl is one, and what two Reconciles do to each  *)
(* other's directory is the subject of the run `shared'.                   *)
(***************************************************************************)
EXTENDS KfAppDir, TLAPS

Events   == [DirEventKinds -> Nat]
AppState == [state : {"none", "copied", "built"}, rev : Nat]
Config   == [state : {"none", "torn", "ok"}, rev : Nat, caches : Seq(Revs),
             cluster : Contexts \cup {"none"}, force : BOOLEAN]
Cmd      == [kind : {"none", "build", "apply", "delete"}, pc : PCs, given : Nat, conf : Config, at : Nat]

\* Where a command has read the configuration, and where it lists the cache.
Listed == {"platform", "generate", "copy", "build", "resync", "refetch", "apply", "save", "check",
           "delete", "platform gone"}
Loaded == Listed \cup {"init", "sync", "fetch"}

ConfigOK == config \in Config /\ (config.state = "ok" => config.rev \in Revs)
CacheOK  == cache \in [state : {"none", "partial", "full"}, rev : Nat]
KustOK ==
  /\ kust \in [made : BOOLEAN, apps : [Apps -> AppState]]
  /\ \A a \in Apps : kust.apps[a].state # "none" => kust.apps[a].rev \in Revs
  /\ ~kust.made => kust = NoKust
DirWorldOK ==
  /\ mode \in {"operator", "kfctl"} /\ spec \in Revs /\ current \in Contexts
  /\ applied \in [Contexts -> [Apps -> AppState]]
  /\ platformUp \in BOOLEAN /\ finished \subseteq Contexts
CmdInv(w) ==
  /\ cmd[w].pc \in {"remove", "write", "create"} => cmd[w].given \in Revs
  /\ cmd[w].pc \in Loaded => cmd[w].conf.state = "ok" /\ cmd[w].conf.rev \in Revs
  /\ cmd[w].pc \in Listed => cmd[w].conf.caches # <<>>
DirCmdOK == cmd \in [Workers -> Cmd] /\ \A w \in Workers : CmdInv(w)

DirTypeInv == ConfigOK /\ CacheOK /\ KustOK /\ DirWorldOK /\ DirCmdOK /\ used \in Events

LEMMA DirTypeInvImplies == DirTypeInv => DirTypeOK
BY DEF DirTypeInv, DirTypeOK, ConfigOK, CacheOK, KustOK, DirWorldOK, DirCmdOK, Config, Cmd, Events

-----------------------------------------------------------------------------
(* Types *)

LEMMA RevsType == Revs \subseteq Nat /\ 1 \in Revs /\ \A r \in Revs : SpecApps[r] \in Seq(STRING)
BY DirAssumption DEF Revs

LEMMA AppsType == \A r \in Revs : \A i \in DOMAIN SpecApps[r] : SpecApps[r][i] \in Apps
BY DEF Apps

LEMMA NoneType ==
  /\ NoConfig \in Config /\ NoConfig.state = "none" /\ NoConfig.caches = <<>> /\ NoConfig.cluster = "none"
  /\ ~NoConfig.force
  /\ NoApp \in AppState /\ NoApp.state = "none"
  /\ NoKust \in [made : BOOLEAN, apps : [Apps -> AppState]] /\ ~NoKust.made
  /\ \A a \in Apps : NoKust.apps[a] = NoApp
  /\ NoCache \in [state : {"none", "partial", "full"}, rev : Nat] /\ NoCache.state = "none"
  /\ NoCmd \in Cmd /\ NoCmd.pc = "idle"
<1>1. NoConfig \in Config /\ <<>> \in Seq(Revs)
  BY DEF NoConfig, Config
<1>2. NoApp \in AppState /\ NoApp.state = "none"
  BY DEF NoApp, AppState
<1>3. NoCmd \in Cmd
  BY <1>1 DEF NoCmd, Cmd, PCs
<1>4. QED
  BY <1>1, <1>2, <1>3 DEF NoConfig, NoKust, NoCache, NoCmd

LEMMA DirInitType == DirInit => DirTypeInv
<1> SUFFICES ASSUME DirInit PROVE DirTypeInv
  OBVIOUS
<1>1. ConfigOK /\ CacheOK /\ KustOK
  BY NoneType DEF DirInit, ConfigOK, CacheOK, KustOK
<1>2. DirWorldOK
  BY NoneType, RevsType DEF DirInit, DirWorldOK, Contexts
<1>3. DirCmdOK
  BY NoneType DEF DirInit, DirCmdOK, CmdInv, Loaded, Listed
<1>4. used \in Events
  BY DEF DirInit, Events
<1>5. QED
  BY <1>1, <1>2, <1>3, <1>4 DEF DirTypeInv

LEMMA DirSpendType ==
  ASSUME used \in Events, NEW e \in DirEventKinds, Spend(e)
  PROVE  used' \in Events /\ \A k \in DirEventKinds : k # e => used'[k] = used[k]
BY DEF Spend, Events

\* The command of one worker goes on: what it keeps, and that the others keep all.
Moves(w, pc) ==
  /\ cmd' \in [Workers -> Cmd] /\ cmd'[w].pc = pc
  /\ cmd'[w].kind = cmd[w].kind /\ cmd'[w].given = cmd[w].given
  /\ \A v \in Workers \ {w} : cmd'[v] = cmd[v]

LEMMA StepMoves ==
  ASSUME DirCmdOK, NEW w \in Workers, NEW pc \in PCs, Step(w, pc)
  PROVE  Moves(w, pc) /\ cmd'[w].conf = cmd[w].conf /\ cmd'[w].at = 1 /\ UNCHANGED used
<1>1. cmd[w] \in Cmd /\ cmd \in [Workers -> Cmd]
  BY DEF DirCmdOK
<1> HIDE DEF DirCmdOK
<1>2. cmd' = [cmd EXCEPT ![w] = [cmd[w] EXCEPT !.pc = pc, !.at = 1]]
  BY DEF Step
<1>3. [cmd[w] EXCEPT !.pc = pc, !.at = 1] \in Cmd
  BY <1>1 DEF Cmd
<1>4. QED
  BY <1>1, <1>2, <1>3 DEF Moves, Step, Cmd

LEMMA NextMoves ==
  ASSUME DirCmdOK, NEW w \in Workers, NEW pc \in PCs, NextApp(w, pc)
  PROVE  Moves(w, pc) /\ cmd'[w].conf = cmd[w].conf /\ cmd'[w].at = cmd[w].at + 1 /\ UNCHANGED used
<1>1. cmd[w] \in Cmd /\ cmd \in [Workers -> Cmd]
  BY DEF DirCmdOK
<1> DEFINE at == cmd[w].at + 1
<1>2. cmd' = [cmd EXCEPT ![w] = [cmd[w] EXCEPT !.pc = pc, !.at = at]] /\ at \in Nat
  BY <1>1 DEF NextApp, Cmd
<1> HIDE DEF at
<1>3. [cmd[w] EXCEPT !.pc = pc, !.at = at] \in Cmd
  BY <1>1, <1>2 DEF Cmd
<1>4. Moves(w, pc) /\ cmd'[w].conf = cmd[w].conf /\ cmd'[w].at = at
  BY <1>1, <1>2, <1>3 DEF Moves, Cmd
<1>5. QED
  BY <1>4 DEF NextApp, at

\* Other writes to the configuration a command has in memory.
LEMMA ConfMoves ==
  ASSUME DirCmdOK, NEW w \in Workers, NEW pc \in PCs, NEW conf \in Config,
         cmd' = [cmd EXCEPT ![w] = [cmd[w] EXCEPT !.pc = pc, !.conf = conf]]
  PROVE  Moves(w, pc) /\ cmd'[w].conf = conf /\ cmd'[w].at = cmd[w].at
<1>1. cmd[w] \in Cmd /\ cmd \in [Workers -> Cmd]
  BY DEF DirCmdOK
<1>2. [cmd[w] EXCEPT !.pc = pc, !.conf = conf] \in Cmd
  BY <1>1 DEF Cmd
<1>3. QED
  BY <1>1, <1>2 DEF Moves, Cmd

LEMMA PcMoves ==
  ASSUME DirCmdOK, NEW w \in Workers, NEW pc \in PCs, cmd' = [cmd EXCEPT ![w].pc = pc]
  PROVE  Moves(w, pc) /\ cmd'[w].conf = cmd[w].conf /\ cmd'[w].at = cmd[w].at
<1>1. cmd[w] \in Cmd /\ cmd \in [Workers -> Cmd]
  BY DEF DirCmdOK
<1>2. QED
  BY <1>1 DEF Moves, Cmd

LEMMA DirEnds ==
  ASSUME DirCmdOK, NEW w \in Workers, cmd' = [cmd EXCEPT ![w] = NoCmd]
  PROVE  DirCmdOK' /\ cmd'[w] = NoCmd /\ \A v \in Workers \ {w} : cmd'[v] = cmd[v]
<1>1. cmd' \in [Workers -> Cmd] /\ cmd'[w] = NoCmd /\ \A v \in Workers \ {w} : cmd'[v] = cmd[v]
  BY NoneType DEF DirCmdOK
<1>2. \A v \in Workers : CmdInv(v)'
  BY <1>1, NoneType DEF DirCmdOK, CmdInv, Loaded, Listed
<1>3. QED
  BY <1>1, <1>2 DEF DirCmdOK

\* One worker's command keeps the types of all.
LEMMA MovesType ==
  ASSUME DirCmdOK, NEW w \in Workers, NEW pc, Moves(w, pc), CmdInv(w)'
  PROVE  DirCmdOK'
<1>1. \A v \in Workers \ {w} : CmdInv(v)'
  BY DEF Moves, DirCmdOK, CmdInv
<1>2. QED
  BY <1>1 DEF Moves, DirCmdOK

LEMMA DirStartType ==
  ASSUME DirCmdOK, NEW w \in Workers, NEW kind \in {"build", "apply", "delete"}, NEW given \in Nat,
         NEW pc \in {"remove", "write", "annotate", "create", "load"}, pc \notin {"annotate", "load"} => given \in Revs,
         cmd' = [cmd EXCEPT ![w] = [NoCmd EXCEPT !.kind = kind, !.given = given, !.pc = pc]]
  PROVE  /\ DirCmdOK' /\ cmd'[w].kind = kind /\ cmd'[w].given = given /\ cmd'[w].pc = pc
         /\ \A v \in Workers \ {w} : cmd'[v] = cmd[v]
<1> DEFINE new == [NoCmd EXCEPT !.kind = kind, !.given = given, !.pc = pc]
<1>1. new \in Cmd /\ new.kind = kind /\ new.given = given /\ new.pc = pc
  BY NoneType DEF Cmd, PCs
<1> HIDE DEF new
<1>2. cmd' = [cmd EXCEPT ![w] = new] /\ cmd \in [Workers -> Cmd]
  BY DEF new, DirCmdOK
<1>3. cmd' \in [Workers -> Cmd] /\ cmd'[w] = new /\ \A v \in Workers \ {w} : cmd'[v] = cmd[v]
  BY <1>1, <1>2
<1>4. \A v \in Workers : CmdInv(v)'
  BY <1>1, <1>3 DEF DirCmdOK, CmdInv, Loaded, Listed
<1>5. QED
  BY <1>1, <1>3, <1>4 DEF DirCmdOK

LEMMA BeginType ==
  ASSUME DirTypeInv, NEW w \in Workers,
         \/ \E kind \in {"apply", "delete"} : OperatorStart(w, kind)
         \/ \E kind \in {"build", "apply", "delete"}, remote \in BOOLEAN : KfctlStart(w, kind, remote)
         \/ RemoveDir(w) \/ WriteKfDef(w) \/ Annotate(w) \/ CreateConfig(w) \/ Load(w)
  PROVE  DirTypeInv'
<1>1. /\ ConfigOK /\ CacheOK /\ KustOK /\ DirWorldOK /\ DirCmdOK /\ CmdInv(w) /\ used \in Events /\ cmd[w] \in Cmd
      /\ cmd[w].given \in Nat /\ cmd[w].conf \in Config
  BY DEF DirTypeInv, DirCmdOK, Cmd
<1>2. ASSUME DirCmdOK', UNCHANGED World, UNCHANGED <<mode, spec, current>>, used' \in Events, ConfigOK', CacheOK', KustOK'
      PROVE  DirTypeInv'
  BY <1>1, <1>2 DEF DirTypeInv, DirWorldOK, World
<1>3. UNCHANGED config => ConfigOK'
  BY <1>1 DEF ConfigOK
<1>4. UNCHANGED cache => CacheOK'
  BY <1>1 DEF CacheOK
<1>5. UNCHANGED kust => KustOK'
  BY <1>1 DEF KustOK
<1>6. ASSUME NEW pc \in PCs, Step(w, pc), pc \notin Loaded, pc \in {"remove", "write", "create"} => cmd[w].given \in Revs
      PROVE  DirCmdOK' /\ UNCHANGED used
  <2>1. Moves(w, pc) /\ UNCHANGED used
    BY <1>1, <1>6, StepMoves
  <2>2. CmdInv(w)'
    BY <1>6, <2>1 DEF CmdInv, Loaded, Moves
  <2>3. QED
    BY <1>1, <2>1, <2>2, MovesType
<1>7. CASE \E kind \in {"apply", "delete"} : OperatorStart(w, kind)
  <2>1. PICK kind \in {"apply", "delete"} : OperatorStart(w, kind)
    BY <1>7
  <2> DEFINE pc == IF kind = "apply" THEN "remove" ELSE "write"
  <2>2. /\ cmd' = [cmd EXCEPT ![w] = [NoCmd EXCEPT !.kind = kind, !.given = spec, !.pc = pc]]
        /\ Spend("commands") /\ UNCHANGED <<mode, spec, dir, current, World>>
    BY <2>1 DEF OperatorStart
  <2>3. spec \in Revs /\ spec \in Nat /\ pc \in {"remove", "write"}
    BY <1>1, RevsType DEF DirWorldOK
  <2> HIDE DEF pc
  <2>4. DirCmdOK'
    BY <1>1, <2>2, <2>3, DirStartType
  <2>5. used' \in Events
    BY <1>1, <2>2, DirSpendType DEF DirEventKinds
  <2>6. QED
    BY <1>2, <1>3, <1>4, <1>5, <2>2, <2>4, <2>5 DEF dir
<1>8. CASE \E kind \in {"build", "apply", "delete"}, remote \in BOOLEAN : KfctlStart(w, kind, remote)
  <2>1. PICK kind \in {"build", "apply", "delete"}, remote \in BOOLEAN : KfctlStart(w, kind, remote)
    BY <1>8
  <2> DEFINE pc == IF remote THEN "create" ELSE IF kind = "delete" THEN "annotate" ELSE "load"
             given == IF remote THEN spec ELSE config.rev
  <2>2. /\ cmd' = [cmd EXCEPT ![w] = [NoCmd EXCEPT !.kind = kind, !.given = given, !.pc = pc]]
        /\ Spend("commands") /\ UNCHANGED <<mode, spec, dir, current, World>>
    BY <2>1 DEF KfctlStart
  <2>3. given \in Nat /\ pc \in {"create", "annotate", "load"} /\ (pc = "create" => given \in Revs)
    BY <1>1, RevsType DEF DirWorldOK, ConfigOK, Config
  <2> HIDE DEF pc, given
  <2>4. DirCmdOK'
    BY <1>1, <2>2, <2>3, DirStartType
  <2>5. used' \in Events
    BY <1>1, <2>2, DirSpendType DEF DirEventKinds
  <2>6. QED
    BY <1>2, <1>3, <1>4, <1>5, <2>2, <2>4, <2>5 DEF dir
<1>9. CASE RemoveDir(w)
  <2>1. DirCmdOK' /\ UNCHANGED used
    BY <1>1, <1>6, <1>9 DEF RemoveDir, AtPC, PCs, Loaded, Listed, CmdInv
  <2>2. ConfigOK' /\ CacheOK' /\ KustOK'
    BY <1>9, NoneType DEF RemoveDir, ConfigOK, CacheOK, KustOK
  <2>3. QED
    BY <1>1, <1>2, <1>9, <2>1, <2>2 DEF RemoveDir
<1>10. ASSUME NEW rev \in Revs, config' = [NoConfig EXCEPT !.state = "ok", !.rev = rev] PROVE ConfigOK'
  <2>1. config' = [NoConfig EXCEPT !.state = "ok", !.rev = rev] /\ rev \in Nat
    BY <1>10, RevsType
  <2>2. QED
    BY <2>1, NoneType DEF ConfigOK, Config
<1>11. CASE WriteKfDef(w)
  <2>1. DirCmdOK' /\ UNCHANGED used
    BY <1>6, <1>11 DEF WriteKfDef, AtPC, PCs, Loaded, Listed
  <2>2. ConfigOK'
    BY <1>1, <1>10, <1>11 DEF WriteKfDef, AtPC, CmdInv
  <2>3. QED
    BY <1>1, <1>2, <1>4, <1>5, <1>11, <2>1, <2>2 DEF WriteKfDef
<1>12. CASE Annotate(w)
  <2>1. DirCmdOK' /\ UNCHANGED used
    BY <1>6, <1>12 DEF Annotate, AtPC, PCs, Loaded, Listed
  <2>2. ASSUME NEW force \in BOOLEAN, config' = [config EXCEPT !.force = force] PROVE ConfigOK'
    BY <1>1, <2>2 DEF ConfigOK, Config
  <2>3. ConfigOK'
    BY <1>3, <1>12, <2>2 DEF Annotate
  <2>4. QED
    BY <1>1, <1>2, <1>4, <1>5, <1>12, <2>1, <2>3 DEF Annotate
<1>13. CASE CreateConfig(w)
  <2>1. DirCmdOK' /\ UNCHANGED used
    BY <1>1, <1>6, <1>13, DirEnds DEF CreateConfig, AtPC, PCs, Loaded, Listed, Done
  <2>2. ConfigOK'
    BY <1>1, <1>3, <1>10, <1>13 DEF CreateConfig, AtPC, CmdInv
  <2>3. QED
    BY <1>1, <1>2, <1>4, <1>5, <1>13, <2>1, <2>2 DEF CreateConfig
<1>14. CASE Load(w)
  <2>1. CASE Done(w)
    BY <1>1, <1>2, <1>3, <1>4, <1>5, <1>14, <2>1, DirEnds DEF Load, dir, Done
  <2>2. CASE config.state = "ok" /\ cmd' = [cmd EXCEPT ![w].pc = "init", ![w].conf = config] /\ UNCHANGED used
    <3>1. cmd' = [cmd EXCEPT ![w] = [cmd[w] EXCEPT !.pc = "init", !.conf = config]]
      BY <2>2
    <3>2. Moves(w, "init") /\ cmd'[w].conf = config
      BY <1>1, <3>1, ConfMoves DEF PCs, ConfigOK
    <3>3. CmdInv(w)'
      BY <1>1, <2>2, <3>2 DEF CmdInv, Moves, Loaded, Listed, ConfigOK
    <3>4. DirCmdOK'
      BY <1>1, <3>2, <3>3, MovesType
    <3>5. QED
      BY <1>1, <1>2, <1>3, <1>4, <1>5, <1>14, <2>2, <3>4 DEF Load, dir
  <2>3. QED
    BY <1>14, <2>1, <2>2 DEF Load
<1>15. QED
  BY <1>7, <1>8, <1>9, <1>11, <1>12, <1>13, <1>14

\* What a step has to show besides what it leaves alone.
LEMMA FrameType ==
  ASSUME DirTypeInv, DirCmdOK', used' \in Events, DirWorldOK' \/ UNCHANGED <<mode, spec, current, World>>,
         ConfigOK' \/ UNCHANGED config, CacheOK' \/ UNCHANGED cache, KustOK' \/ UNCHANGED kust
  PROVE  DirTypeInv'
<1>1. ConfigOK'
  BY DEF DirTypeInv, ConfigOK
<1>2. CacheOK'
  BY DEF DirTypeInv, CacheOK
<1>3. KustOK'
  BY DEF DirTypeInv, KustOK
<1>4. DirWorldOK'
  BY DEF DirTypeInv, DirWorldOK, World
<1>5. QED
  BY <1>1, <1>2, <1>3, <1>4 DEF DirTypeInv

\* A command that has read the configuration goes on with it, or ends.
LEMMA GoesOnType ==
  ASSUME DirTypeInv, NEW w \in Workers, cmd[w].pc \in Loaded,
         NEW pc \in Loaded, Step(w, pc) \/ NextApp(w, pc), pc \in Listed => cmd[w].conf.caches # <<>>
  PROVE  DirCmdOK' /\ used' \in Events
<1>1. DirCmdOK /\ CmdInv(w) /\ pc \in PCs
  BY DEF DirTypeInv, DirCmdOK, Loaded, Listed, PCs
<1>2. Moves(w, pc) /\ cmd'[w].conf = cmd[w].conf /\ UNCHANGED used
  BY <1>1, StepMoves, NextMoves
<1>3. CmdInv(w)'
  BY <1>1, <1>2 DEF CmdInv, Moves, Loaded, Listed
<1>4. QED
  BY <1>1, <1>2, <1>3, MovesType DEF DirTypeInv

LEMMA DoneType ==
  ASSUME DirTypeInv, NEW w \in Workers, Done(w)
  PROVE  DirCmdOK' /\ used' \in Events
BY DirEnds DEF Done, DirTypeInv

\* What a command knows of its applications.
LEMMA LoadedType ==
  ASSUME DirTypeInv, NEW w \in Workers, cmd[w].pc \in Loaded
  PROVE  /\ cmd[w] \in Cmd /\ cmd[w].conf \in Config /\ cmd[w].conf.state = "ok" /\ cmd[w].conf.rev \in Revs
         /\ cmd[w].at \in Nat /\ AppsOf(w) \in Seq(STRING) /\ DOMAIN AppsOf(w) = 1..Len(AppsOf(w)) /\ Len(AppsOf(w)) \in Nat
         /\ \A i \in DOMAIN AppsOf(w) : AppsOf(w)[i] \in Apps
<1>1. cmd[w] \in Cmd /\ cmd[w].conf.state = "ok" /\ cmd[w].conf.rev \in Revs
  BY DEF DirTypeInv, DirCmdOK, CmdInv
<1>2. AppsOf(w) \in Seq(STRING) /\ \A i \in DOMAIN AppsOf(w) : AppsOf(w)[i] \in Apps
  BY <1>1, RevsType, AppsType DEF AppsOf
<1>3. DOMAIN AppsOf(w) = 1..Len(AppsOf(w)) /\ Len(AppsOf(w)) \in Nat
  BY <1>2
<1>4. QED
  BY <1>1, <1>2, <1>3 DEF Cmd

LEMMA LastFirstType ==
  ASSUME DirTypeInv, NEW w \in Workers, cmd[w].pc \in Loaded, cmd[w].at \in DOMAIN AppsOf(w)
  PROVE  LastFirst(w) \in Apps
<1> DEFINE n == Len(AppsOf(w))  i == cmd[w].at
<1>1. n \in Nat /\ i \in 1..n /\ DOMAIN AppsOf(w) = 1..n /\ \A j \in 1..n : AppsOf(w)[j] \in Apps
  BY LoadedType
<1> HIDE DEF n, i
<1>2. n + 1 - i \in 1..n
  BY <1>1
<1>3. QED
  BY <1>1, <1>2 DEF LastFirst, n, i

LEMMA AppendOne ==
  ASSUME NEW S, NEW s \in Seq(S), NEW x \in S
  PROVE  Append(s, x) \in Seq(S) /\ Append(s, x) # <<>>
<1>1. Append(s, x) \in Seq(S) /\ Len(Append(s, x)) = Len(s) + 1 /\ Len(s) \in Nat
  OBVIOUS
<1>2. Len(<<>>) = 0
  OBVIOUS
<1>3. QED
  BY <1>1, <1>2

LEMMA SyncType ==
  ASSUME DirTypeInv, NEW w \in Workers,
         InitPlatform(w) \/ SyncCache(w) \/ Fetched(w) \/ GeneratePlatform(w)
  PROVE  DirTypeInv'
<1>1. /\ DirCmdOK /\ CmdInv(w) /\ used \in Events /\ cmd[w] \in Cmd
  BY DEF DirTypeInv, DirCmdOK
<1>2. ASSUME NEW pc \in Loaded, NEW next \in Loaded, WithPlatform(w, pc, next),
             next \in Listed => cmd[w].conf.caches # <<>>
      PROVE  DirTypeInv'
  <2>1. DirCmdOK' /\ used' \in Events
    BY <1>2, GoesOnType DEF WithPlatform, AtPC
  <2>2. config' = cmd[w].conf \/ UNCHANGED config
    BY <1>2 DEF WithPlatform
  <2>3. ConfigOK' \/ UNCHANGED config
    BY <1>2, <2>2, LoadedType DEF WithPlatform, AtPC, ConfigOK
  <2>4. QED
    BY <1>2, <2>1, <2>3, FrameType DEF WithPlatform
<1>3. CASE InitPlatform(w)
  BY <1>2, <1>3 DEF InitPlatform, Loaded, Listed
<1>4. CASE GeneratePlatform(w)
  <2>1. cmd[w].conf.caches # <<>>
    BY <1>1, <1>4 DEF GeneratePlatform, WithPlatform, AtPC, CmdInv, Listed
  <2>2. QED
    BY <1>2, <1>4, <2>1 DEF GeneratePlatform, Loaded, Listed
<1>5. AfterSync(w) \in {"platform", "check", "apply"}
  BY DEF AfterSync
<1>6. CASE SyncCache(w)
  <2>1. cmd[w].pc \in Loaded /\ (cmd[w].pc = "resync" => cmd[w].conf.caches # <<>>)
    BY <1>1, <1>6 DEF SyncCache, AtPC, Loaded, Listed, CmdInv
  <2>2. UNCHANGED cache \/ CacheOK'
    BY <1>6 DEF SyncCache, KeepOrFetch, CacheOK
  <2>3. CASE cmd[w].conf.caches # <<>> /\ Step(w, AfterSync(w))
    BY <1>5, <1>6, <2>1, <2>2, <2>3, GoesOnType, FrameType DEF SyncCache, Loaded, Listed
  <2>4. CASE Step(w, IF AtPC(w, "sync") THEN "fetch" ELSE "refetch")
    <3>1. DirCmdOK' /\ used' \in Events
      BY <1>6, <2>1, <2>4, GoesOnType DEF SyncCache, AtPC, Loaded, Listed
    <3>2. QED
      BY <1>6, <2>2, <3>1, FrameType DEF SyncCache
  <2>5. QED
    BY <1>6, <2>3, <2>4 DEF SyncCache, KeepOrFetch
<1>7. CASE Fetched(w)
  <2> DEFINE conf == [cmd[w].conf EXCEPT !.caches = Append(cmd[w].conf.caches, cmd[w].conf.rev)]
  <2>1. cmd[w].pc \in Loaded /\ cmd[w].conf \in Config /\ cmd[w].conf.rev \in Revs /\ cmd[w].conf.state = "ok"
    BY <1>7, LoadedType DEF Fetched, AtPC, Loaded, Listed
  <2>2. cmd[w].conf.caches \in Seq(Revs)
    BY <2>1 DEF Config
  <2>3. Append(cmd[w].conf.caches, cmd[w].conf.rev) \in Seq(Revs)
        /\ Append(cmd[w].conf.caches, cmd[w].conf.rev) # <<>>
    BY <2>1, <2>2, AppendOne
  <2>4. conf \in Config /\ conf.state = "ok" /\ conf.rev \in Revs /\ conf.caches # <<>>
    BY <2>1, <2>3 DEF Config
  <2>5. cmd' = [cmd EXCEPT ![w] = [cmd[w] EXCEPT !.pc = AfterSync(w), !.conf = conf]]
    BY <1>1, <1>7, <2>1 DEF Fetched, Cmd, Config, DirCmdOK
  <2> HIDE DEF conf
  <2>6. AfterSync(w) \in PCs /\ AfterSync(w) \notin {"remove", "write", "create"}
    BY <1>5 DEF PCs
  <2>7. Moves(w, AfterSync(w)) /\ cmd'[w].conf = conf
    BY <1>1, <2>4, <2>5, <2>6, ConfMoves
  <2>8. CmdInv(w)'
    BY <2>4, <2>6, <2>7 DEF CmdInv, Moves
  <2>9. DirCmdOK'
    BY <1>1, <2>7, <2>8, MovesType
  <2>10. CacheOK'
    BY <1>7, <2>1, RevsType DEF Fetched, CacheOK
  <2>11. QED
    BY <1>1, <1>7, <2>9, <2>10, FrameType DEF Fetched
<1>8. QED
  BY <1>3, <1>4, <1>6, <1>7

\* The manifests of one application are written.
LEMMA KustWrite ==
  ASSUME KustOK, NEW a \in Apps, NEW state \in {"copied", "built"}, NEW rev \in Revs,
         kust' = [made |-> TRUE, apps |-> [kust.apps EXCEPT ![a] = [state |-> state, rev |-> rev]]]
  PROVE  KustOK'
<1>1. kust.apps \in [Apps -> AppState] /\ \A b \in Apps : kust.apps[b].state # "none" => kust.apps[b].rev \in Revs
  BY DEF KustOK
<1>2. [state |-> state, rev |-> rev] \in AppState
  BY RevsType DEF AppState
<1>3. /\ [kust.apps EXCEPT ![a] = [state |-> state, rev |-> rev]] \in [Apps -> AppState]
      /\ \A b \in Apps : [kust.apps EXCEPT ![a] = [state |-> state, rev |-> rev]][b].state # "none"
                         => [kust.apps EXCEPT ![a] = [state |-> state, rev |-> rev]][b].rev \in Revs
  BY <1>1, <1>2
<1>4. QED
  BY <1>3 DEF KustOK

LEMMA DirGenerateType ==
  ASSUME DirTypeInv, NEW w \in Workers,
         SkipKustomize(w) \/ MakeKustomizeDir(w) \/ CopyApp(w) \/ CopyFails(w) \/ BuildApp(w) \/ AllBuilt(w)
  PROVE  DirTypeInv'
<1>1. /\ DirCmdOK /\ CmdInv(w) /\ used \in Events /\ cmd[w] \in Cmd /\ KustOK
      /\ cmd[w].pc \in {"generate", "copy", "build"} /\ cmd[w].pc \in Loaded /\ cmd[w].conf.caches # <<>>
  BY DEF DirTypeInv, DirCmdOK, CmdInv, AtPC, SkipKustomize, MakeKustomizeDir, CopyApp, CopyFails, BuildApp, AllBuilt,
         Loaded, Listed
<1>2. AfterGenerate(w) => DirCmdOK' /\ used' \in Events
  BY <1>1, DoneType, GoesOnType DEF AfterGenerate, Loaded, Listed
<1>3. CASE SkipKustomize(w) \/ AllBuilt(w)
  BY <1>2, <1>3, FrameType DEF SkipKustomize, AllBuilt, dir
<1>4. CASE CopyFails(w)
  BY <1>4, DoneType, FrameType DEF CopyFails, dir
<1>5. CASE MakeKustomizeDir(w)
  <2>1. DirCmdOK' /\ used' \in Events
    BY <1>1, <1>5, GoesOnType DEF MakeKustomizeDir, Loaded, Listed
  <2>2. kust' = [made |-> TRUE, apps |-> kust.apps]
    BY <1>1, <1>5 DEF MakeKustomizeDir, KustOK
  <2>3. KustOK'
    BY <1>1, <2>2 DEF KustOK
  <2>4. QED
    BY <1>5, <2>1, <2>3, FrameType DEF MakeKustomizeDir
<1>6. ASSUME cmd[w].at \in DOMAIN AppsOf(w) PROVE AppAt(w) \in Apps
  BY <1>1, <1>6, LoadedType DEF AppAt
<1>7. CASE CopyApp(w)
  <2>1. Head(cmd[w].conf.caches) \in Revs
    BY <1>1, LoadedType DEF Config
  <2>2. KustOK'
    BY <1>1, <1>6, <1>7, <2>1, KustWrite DEF CopyApp
  <2>3. Moves(w, "build") /\ cmd'[w].conf = cmd[w].conf
    BY <1>1, <1>7, PcMoves DEF CopyApp, PCs
  <2>4. CmdInv(w)'
    BY <1>1, <2>3 DEF CmdInv, Moves, Loaded, Listed
  <2>5. DirCmdOK'
    BY <1>1, <2>3, <2>4, MovesType
  <2>6. QED
    BY <1>1, <1>7, <2>2, <2>5, FrameType DEF CopyApp
<1>8. CASE BuildApp(w)
  <2>1. CASE Done(w) /\ UNCHANGED kust
    BY <1>8, <2>1, DoneType, FrameType DEF BuildApp
  <2>2. CASE /\ kust.apps[AppAt(w)].state # "none"
             /\ kust' = [kust EXCEPT !.apps[AppAt(w)] = [state |-> "built", rev |-> cmd[w].conf.rev]]
             /\ NextApp(w, "copy")
    <3>1. DirCmdOK' /\ used' \in Events
      BY <1>1, <2>2, GoesOnType DEF Loaded, Listed
    <3>2. cmd[w].conf.rev \in Revs
      BY <1>1, LoadedType
    <3>3. kust.made \/ kust = NoKust
      BY <1>1 DEF KustOK
    <3>4. KustOK'
      <4>1. CASE AppAt(w) \in Apps
        <5>1. kust.made
          BY <2>2, <3>3, <4>1, NoneType
        <5>2. kust' = [made |-> TRUE, apps |-> [kust.apps EXCEPT ![AppAt(w)] = [state |-> "built", rev |-> cmd[w].conf.rev]]]
          BY <1>1, <2>2, <5>1 DEF KustOK
        <5>3. QED
          BY <1>1, <3>2, <4>1, <5>2, KustWrite
      <4>2. CASE AppAt(w) \notin Apps
        <5>1. kust' = [kust EXCEPT !.apps = kust.apps]
          BY <1>1, <2>2, <4>2 DEF KustOK
        <5>2. kust' = kust
          BY <1>1, <5>1 DEF KustOK
        <5>3. QED
          BY <1>1, <5>2 DEF KustOK
      <4>3. QED
        BY <4>1, <4>2
    <3>5. QED
      BY <1>8, <3>1, <3>4, FrameType DEF BuildApp
  <2>3. QED
    BY <1>8, <2>1, <2>2 DEF BuildApp
<1>9. QED
  BY <1>3, <1>4, <1>5, <1>7, <1>8

LEMMA ClusterType ==
  ASSUME DirTypeInv, NEW w \in Workers,
         \/ ApplyApp(w) \/ AllApplied(w) \/ SaveConfig(w)
         \/ CheckCluster(w) \/ DeleteApp(w) \/ AppsDeleted(w) \/ DeletePlatform(w)
  PROVE  DirTypeInv'
<1>1. /\ DirCmdOK /\ CmdInv(w) /\ used \in Events /\ cmd[w] \in Cmd /\ KustOK /\ DirWorldOK
      /\ cmd[w].pc \in {"apply", "save", "check", "delete", "platform gone"}
      /\ cmd[w].pc \in Loaded /\ cmd[w].conf.caches # <<>>
  BY DEF DirTypeInv, DirCmdOK, CmdInv, AtPC, ApplyApp, AllApplied, SaveConfig, CheckCluster, DeleteApp, AppsDeleted,
         DeletePlatform, Loaded, Listed
<1>2. ASSUME NEW pc \in Loaded, Step(w, pc) \/ NextApp(w, pc) \/ Done(w) PROVE DirCmdOK' /\ used' \in Events
  BY <1>1, <1>2, GoesOnType, DoneType
<1>3. ASSUME NEW a \in Apps, NEW new \in AppState, applied' = [applied EXCEPT ![current][a] = new]
      PROVE  applied' \in [Contexts -> [Apps -> AppState]]
  BY <1>1, <1>3 DEF DirWorldOK
<1>4. CASE ApplyApp(w)
  <2>1. DirCmdOK' /\ used' \in Events
    BY <1>2, <1>4 DEF ApplyApp, Loaded, Listed
  <2>2. AppAt(w) \in Apps /\ kust.apps[AppAt(w)] \in AppState
    BY <1>1, <1>4, LoadedType DEF ApplyApp, AppAt, KustOK
  <2>3. applied' \in [Contexts -> [Apps -> AppState]]
    BY <1>1, <1>3, <1>4, <2>2 DEF ApplyApp, DirWorldOK
  <2>4. DirWorldOK'
    BY <1>1, <1>4, <2>3 DEF ApplyApp, DirWorldOK
  <2>5. QED
    BY <1>4, <2>1, <2>4, FrameType DEF ApplyApp, dir
<1>5. CASE DeleteApp(w)
  <2>1. DirCmdOK' /\ used' \in Events
    BY <1>2, <1>5 DEF DeleteApp, Loaded, Listed
  <2>2. LastFirst(w) \in Apps
    BY <1>1, <1>5, LastFirstType DEF DeleteApp
  <2>3. applied' \in [Contexts -> [Apps -> AppState]]
    BY <1>1, <1>3, <1>5, <2>2, NoneType DEF DeleteApp, DirWorldOK
  <2>4. DirWorldOK'
    BY <1>1, <1>5, <2>3 DEF DeleteApp, DirWorldOK
  <2>5. QED
    BY <1>5, <2>1, <2>4, FrameType DEF DeleteApp, dir
<1>6. CASE AllApplied(w)
  <2> DEFINE conf == [cmd[w].conf EXCEPT !.cluster = IF mode = "kfctl" THEN current ELSE cmd[w].conf.cluster]
  <2>1. cmd[w].conf \in Config /\ cmd[w].conf.state = "ok" /\ cmd[w].conf.rev \in Revs
    BY <1>1, LoadedType
  <2>2. conf \in Config /\ conf.state = "ok" /\ conf.rev \in Revs /\ conf.caches # <<>>
    BY <1>1, <2>1 DEF Config, DirWorldOK
  <2>3. cmd' = [cmd EXCEPT ![w] = [cmd[w] EXCEPT !.pc = "save", !.conf = conf]]
    BY <1>1, <1>6, <2>1 DEF AllApplied, Cmd, Config, DirCmdOK
  <2> HIDE DEF conf
  <2>4. Moves(w, "save") /\ cmd'[w].conf = conf
    BY <1>1, <2>2, <2>3, ConfMoves DEF PCs
  <2>5. CmdInv(w)'
    BY <2>2, <2>4 DEF CmdInv, Moves
  <2>6. DirCmdOK'
    BY <1>1, <2>4, <2>5, MovesType
  <2>7. QED
    BY <1>1, <1>6, <2>6, FrameType DEF AllApplied, dir
<1>7. CASE SaveConfig(w)
  <2>1. DirCmdOK' /\ used' \in Events
    BY <1>7, DoneType DEF SaveConfig
  <2>2. ConfigOK'
    BY <1>1, <1>7, LoadedType DEF SaveConfig, ConfigOK
  <2>3. DirWorldOK'
    BY <1>1, <1>7 DEF SaveConfig, DirWorldOK
  <2>4. QED
    BY <1>7, <2>1, <2>2, <2>3, FrameType DEF SaveConfig
<1>8. CASE CheckCluster(w)
  BY <1>2, <1>8, FrameType DEF CheckCluster, dir, Loaded, Listed
<1>9. CASE AppsDeleted(w)
  <2>1. CASE Done(w)
    BY <1>9, <2>1, DoneType, FrameType DEF AppsDeleted, dir
  <2>2. CASE cmd' = [cmd EXCEPT ![w].pc = "platform gone"] /\ UNCHANGED used
    <3>1. Moves(w, "platform gone") /\ cmd'[w].conf = cmd[w].conf
      BY <1>1, <2>2, PcMoves DEF PCs
    <3>2. CmdInv(w)'
      BY <1>1, <3>1 DEF CmdInv, Moves, Loaded, Listed
    <3>3. DirCmdOK'
      BY <1>1, <3>1, <3>2, MovesType
    <3>4. QED
      BY <1>1, <1>9, <2>2, <3>3, FrameType DEF AppsDeleted, dir
  <2>3. QED
    BY <1>9, <2>1, <2>2 DEF AppsDeleted
<1>10. CASE DeletePlatform(w)
  <2>1. DirCmdOK' /\ used' \in Events
    BY <1>10, DoneType DEF DeletePlatform
  <2>2. DirWorldOK'
    BY <1>1, <1>10 DEF DeletePlatform, DirWorldOK
  <2>3. QED
    BY <1>10, <2>1, <2>2, FrameType DEF DeletePlatform, dir
<1>11. QED
  BY <1>4, <1>5, <1>6, <1>7, <1>8, <1>9, <1>10

LEMMA OtherType ==
  ASSUME DirTypeInv,
         \/ \E w \in Workers : Fault(w)
         \/ DirCrash \/ RemoveByHand \/ SwitchContext \/ \E r \in Revs : Edit(r)
  PROVE  DirTypeInv'
<1>1. ConfigOK /\ DirCmdOK /\ used \in Events /\ DirWorldOK /\ KustOK
  BY DEF DirTypeInv
<1>2. \A e \in {"faults", "crashes", "edits", "removals", "switches"} : e \in DirEventKinds
  BY DEF DirEventKinds
<1>3. UNCHANGED cmd => DirCmdOK'
  BY <1>1 DEF DirCmdOK, CmdInv
<1>4. ASSUME NEW w \in Workers, Fault(w) PROVE DirTypeInv'
  <2>1. DirCmdOK'
    BY <1>1, <1>4, DirEnds DEF Fault
  <2>2. used' \in Events
    BY <1>1, <1>2, <1>4, DirSpendType DEF Fault
  <2>3. config' = config \/ config' = [NoConfig EXCEPT !.state = "torn"]
    BY <1>4 DEF Fault
  <2>4. ConfigOK' \/ UNCHANGED config
    BY <2>3, NoneType DEF ConfigOK, Config
  <2>5. QED
    BY <1>4, <2>1, <2>2, <2>4, FrameType DEF Fault
<1>5. CASE DirCrash
  <2>1. cmd' \in [Workers -> Cmd] /\ \A w \in Workers : cmd'[w] = NoCmd
    BY <1>5, NoneType DEF DirCrash
  <2>2. DirCmdOK'
    BY <2>1, NoneType DEF DirCmdOK, CmdInv, Loaded, Listed
  <2>3. used' \in Events
    BY <1>1, <1>2, <1>5, DirSpendType DEF DirCrash
  <2>4. ConfigOK' /\ CacheOK' /\ KustOK'
    BY <1>5, NoneType DEF DirCrash, ConfigOK, CacheOK, KustOK
  <2>5. QED
    BY <1>5, <2>2, <2>3, <2>4, FrameType DEF DirCrash
<1>6. CASE RemoveByHand
  <2>1. used' \in Events
    BY <1>1, <1>2, <1>6, DirSpendType DEF RemoveByHand
  <2>2. CacheOK' \/ UNCHANGED cache
    BY <1>6, NoneType DEF RemoveByHand, CacheOK
  <2>3. KustOK' \/ UNCHANGED kust
    BY <1>6, NoneType DEF RemoveByHand, KustOK
  <2>4. QED
    BY <1>3, <1>6, <2>1, <2>2, <2>3, FrameType DEF RemoveByHand
<1>7. CASE SwitchContext
  <2>1. used' \in Events
    BY <1>1, <1>2, <1>7, DirSpendType DEF SwitchContext
  <2>2. DirWorldOK'
    BY <1>1, <1>7 DEF SwitchContext, DirWorldOK, World
  <2>3. QED
    BY <1>3, <1>7, <2>1, <2>2, FrameType DEF SwitchContext, dir
<1>8. ASSUME NEW r \in Revs, Edit(r) PROVE DirTypeInv'
  <2>1. used' \in Events
    BY <1>1, <1>2, <1>8, DirSpendType DEF Edit
  <2>2. DirWorldOK'
    BY <1>1, <1>8 DEF Edit, DirWorldOK, World
  <2>3. ConfigOK' \/ UNCHANGED config
    BY <1>1, <1>8, RevsType DEF Edit, ConfigOK, Config
  <2>4. QED
    BY <1>3, <1>8, <2>1, <2>2, <2>3, FrameType DEF Edit
<1>9. QED
  BY <1>4, <1>5, <1>6, <1>7, <1>8

LEMMA DirNextType == DirTypeInv /\ [DirNext]_dirVars => DirTypeInv'
<1> SUFFICES ASSUME DirTypeInv, [DirNext]_dirVars PROVE DirTypeInv'
  OBVIOUS
<1>1. CASE UNCHANGED dirVars
  <2>1. DirCmdOK' /\ used' \in Events
    BY <1>1 DEF dirVars, DirTypeInv, DirCmdOK, CmdInv
  <2>2. QED
    BY <1>1, <2>1, FrameType DEF dirVars, dir, World
<1>2. ASSUME NEW w \in Workers, DirStep(w) PROVE DirTypeInv'
  BY <1>2, BeginType, SyncType, DirGenerateType, ClusterType, OtherType DEF DirStep
<1>3. QED
  BY <1>1, <1>2, OtherType DEF DirNext

\* The directory's types: nothing a file that is torn, missing or of another
\* command can hold takes a command out of its states, for any number of
\* workers.
THEOREM DirTypeCorrect == DirSpec => []DirTypeOK
BY DirInitType, DirNextType, DirTypeInvImplies, PTL DEF DirSpec

-----------------------------------------------------------------------------
(* What a step does to the command of a worker                              *)

Keeps(w, pc) == Moves(w, pc) /\ cmd'[w].conf = cmd[w].conf
Early == {"remove", "write", "annotate", "create", "load"}

LEMMA EarlyEffect ==
  ASSUME DirTypeInv, NEW w \in Workers
  PROVE  /\ RemoveDir(w) => Keeps(w, "write")
         /\ WriteKfDef(w) => Keeps(w, "annotate")
         /\ Annotate(w) => Keeps(w, "load")
         /\ CreateConfig(w) => \/ cmd' = [cmd EXCEPT ![w] = NoCmd] /\ UNCHANGED config
                               \/ Keeps(w, "load") /\ config' = [NoConfig EXCEPT !.state = "ok", !.rev = cmd[w].given]
         /\ Load(w) => \/ cmd' = [cmd EXCEPT ![w] = NoCmd]
                       \/ config.state = "ok" /\ Moves(w, "init") /\ cmd'[w].conf = config
<1>1. DirCmdOK /\ config \in Config /\ cmd \in [Workers -> Cmd]
  BY DEF DirTypeInv, ConfigOK, DirCmdOK
<1>2. \A pc \in PCs : Step(w, pc) => Keeps(w, pc)
  BY <1>1, StepMoves DEF Keeps
<1>3. ASSUME cmd' = [cmd EXCEPT ![w].pc = "init", ![w].conf = config]
      PROVE  Moves(w, "init") /\ cmd'[w].conf = config
  <2>1. cmd' = [cmd EXCEPT ![w] = [cmd[w] EXCEPT !.pc = "init", !.conf = config]]
    BY <1>3
  <2>2. QED
    BY <1>1, <2>1, ConfMoves DEF PCs
<1>4. QED
  BY <1>2, <1>3 DEF RemoveDir, WriteKfDef, Annotate, CreateConfig, Load, Done, PCs

LEMMA SyncEffect ==
  ASSUME DirTypeInv, NEW w \in Workers
  PROVE  /\ InitPlatform(w) => Keeps(w, "sync")
         /\ GeneratePlatform(w) => Keeps(w, "generate")
         /\ SyncCache(w) => \/ /\ cache.state # "none" /\ cmd[w].conf.caches # <<>> /\ UNCHANGED cache
                               /\ Keeps(w, AfterSync(w)) /\ cmd'[w].at = 1
                            \/ /\ cache.state = "none" \/ cmd[w].conf.caches = <<>>
                               /\ Keeps(w, IF AtPC(w, "sync") THEN "fetch" ELSE "refetch") /\ cmd'[w].at = 1
         /\ Fetched(w) => /\ Moves(w, AfterSync(w)) /\ cmd'[w].at = cmd[w].at /\ cmd'[w].conf.caches # <<>>
                          /\ cmd'[w].conf.rev = cmd[w].conf.rev /\ cmd'[w].conf.cluster = cmd[w].conf.cluster
                          /\ cmd'[w].conf.force = cmd[w].conf.force
<1>1. DirCmdOK /\ cmd[w] \in Cmd /\ AfterSync(w) \in PCs /\ cmd[w].conf \in Config
  BY DEF DirTypeInv, DirCmdOK, AfterSync, PCs, Cmd
<1>2. \A pc \in PCs : Step(w, pc) => Keeps(w, pc) /\ cmd'[w].at = 1
  BY <1>1, StepMoves DEF Keeps
<1>3. InitPlatform(w) => Keeps(w, "sync")
  BY <1>2 DEF InitPlatform, WithPlatform, PCs
<1>4. GeneratePlatform(w) => Keeps(w, "generate")
  BY <1>2 DEF GeneratePlatform, WithPlatform, PCs
<1>5. SyncCache(w) => \/ /\ cache.state # "none" /\ cmd[w].conf.caches # <<>> /\ UNCHANGED cache
                         /\ Keeps(w, AfterSync(w)) /\ cmd'[w].at = 1
                      \/ /\ cache.state = "none" \/ cmd[w].conf.caches = <<>>
                         /\ Keeps(w, IF AtPC(w, "sync") THEN "fetch" ELSE "refetch") /\ cmd'[w].at = 1
  BY <1>1, <1>2 DEF SyncCache, KeepOrFetch, PCs
<1>6. ASSUME Fetched(w)
      PROVE  /\ Moves(w, AfterSync(w)) /\ cmd'[w].at = cmd[w].at /\ cmd'[w].conf.caches # <<>>
             /\ cmd'[w].conf.rev = cmd[w].conf.rev /\ cmd'[w].conf.cluster = cmd[w].conf.cluster
             /\ cmd'[w].conf.force = cmd[w].conf.force
  <2> DEFINE more == Append(cmd[w].conf.caches, cmd[w].conf.rev)
             conf == [cmd[w].conf EXCEPT !.caches = more]
  <2>1. cmd[w].conf.caches \in Seq(Revs) /\ cmd[w].conf.rev \in Revs
    BY <1>6, LoadedType DEF Fetched, AtPC, Loaded, Listed, Config
  <2>2. more \in Seq(Revs) /\ more # <<>>
    BY <2>1, AppendOne
  <2>3. cmd' = [cmd EXCEPT ![w] = [cmd[w] EXCEPT !.pc = AfterSync(w), !.conf = conf]]
    BY <1>1, <1>6 DEF Fetched, Cmd, Config, DirCmdOK
  <2> HIDE DEF more
  <2>4. conf \in Config /\ conf.caches # <<>> /\ conf.rev = cmd[w].conf.rev /\ conf.force = cmd[w].conf.force
        /\ conf.cluster = cmd[w].conf.cluster
    BY <1>1, <2>2 DEF Config
  <2> HIDE DEF conf
  <2>5. Moves(w, AfterSync(w)) /\ cmd'[w].conf = conf /\ cmd'[w].at = cmd[w].at
    BY <1>1, <2>3, <2>4, ConfMoves
  <2>6. QED
    BY <2>4, <2>5
<1>7. QED
  BY <1>3, <1>4, <1>5, <1>6

LEMMA GenerateEffect ==
  ASSUME DirTypeInv, NEW w \in Workers
  PROVE  /\ AfterGenerate(w) => \/ cmd[w].kind = "build" /\ cmd' = [cmd EXCEPT ![w] = NoCmd]
                                \/ cmd[w].kind # "build" /\ Keeps(w, "resync") /\ cmd'[w].at = 1
         /\ MakeKustomizeDir(w) => Keeps(w, "copy") /\ cmd'[w].at = 1
         /\ CopyApp(w) => Keeps(w, "build") /\ cmd'[w].at = cmd[w].at
         /\ CopyFails(w) => cmd' = [cmd EXCEPT ![w] = NoCmd]
         /\ BuildApp(w) => \/ cmd' = [cmd EXCEPT ![w] = NoCmd] /\ UNCHANGED kust
                           \/ /\ Keeps(w, "copy") /\ cmd'[w].at = cmd[w].at + 1
                              /\ kust.apps[AppAt(w)].state # "none"
                              /\ kust' = [kust EXCEPT !.apps[AppAt(w)] = [state |-> "built", rev |-> cmd[w].conf.rev]]
<1>1. DirCmdOK
  BY DEF DirTypeInv
<1>2. \A pc \in PCs : Step(w, pc) => Keeps(w, pc) /\ cmd'[w].at = 1
  BY <1>1, StepMoves DEF Keeps
<1>3. \A pc \in PCs : NextApp(w, pc) => Keeps(w, pc) /\ cmd'[w].at = cmd[w].at + 1
  BY <1>1, NextMoves DEF Keeps
<1>4. CopyApp(w) => Keeps(w, "build") /\ cmd'[w].at = cmd[w].at
  BY <1>1, PcMoves DEF CopyApp, Keeps, PCs
<1>5. QED
  BY <1>2, <1>3, <1>4 DEF AfterGenerate, MakeKustomizeDir, CopyFails, BuildApp, Done, PCs

LEMMA ClusterEffect ==
  ASSUME DirTypeInv, NEW w \in Workers
  PROVE  /\ ApplyApp(w) => \/ cmd' = [cmd EXCEPT ![w] = NoCmd] /\ UNCHANGED applied
                           \/ /\ Keeps(w, "apply") /\ cmd'[w].at = cmd[w].at + 1
                              /\ kust.apps[AppAt(w)].state # "none"
                              /\ applied' = [applied EXCEPT ![current][AppAt(w)] = kust.apps[AppAt(w)]]
         /\ AllApplied(w) => /\ Moves(w, "save") /\ cmd'[w].conf.caches = cmd[w].conf.caches
                             /\ cmd'[w].conf.rev = cmd[w].conf.rev /\ cmd'[w].conf.force = cmd[w].conf.force
                             /\ mode = "kfctl" => cmd'[w].conf.cluster = current
         /\ SaveConfig(w) => cmd' = [cmd EXCEPT ![w] = NoCmd]
         /\ CheckCluster(w) => \/ cmd' = [cmd EXCEPT ![w] = NoCmd]
                               \/ /\ Keeps(w, "delete") /\ cmd'[w].at = 1
                                  /\ cmd[w].conf.force \/ (mode = "kfctl" /\ cmd[w].conf.cluster = current)
         /\ DeleteApp(w) => \/ cmd' = [cmd EXCEPT ![w] = NoCmd] /\ UNCHANGED applied
                            \/ /\ Keeps(w, "delete") /\ cmd'[w].at = cmd[w].at + 1
                               /\ applied' = [applied EXCEPT ![current][LastFirst(w)] = NoApp]
         /\ AppsDeleted(w) => cmd' = [cmd EXCEPT ![w] = NoCmd] \/ Keeps(w, "platform gone")
         /\ DeletePlatform(w) => cmd' = [cmd EXCEPT ![w] = NoCmd]
         /\ Fault(w) => cmd' = [cmd EXCEPT ![w] = NoCmd]
<1>1. DirCmdOK /\ cmd[w] \in Cmd /\ cmd[w].conf \in Config /\ current \in Contexts
  BY DEF DirTypeInv, DirCmdOK, Cmd, DirWorldOK
<1>2. \A pc \in PCs : Step(w, pc) => Keeps(w, pc) /\ cmd'[w].at = 1
  BY <1>1, StepMoves DEF Keeps
<1>3. \A pc \in PCs : NextApp(w, pc) => Keeps(w, pc) /\ cmd'[w].at = cmd[w].at + 1
  BY <1>1, NextMoves DEF Keeps
<1>4. ASSUME AllApplied(w)
      PROVE  /\ Moves(w, "save") /\ cmd'[w].conf.caches = cmd[w].conf.caches
             /\ cmd'[w].conf.rev = cmd[w].conf.rev /\ cmd'[w].conf.force = cmd[w].conf.force
             /\ mode = "kfctl" => cmd'[w].conf.cluster = current
  <2> DEFINE cluster == IF mode = "kfctl" THEN current ELSE cmd[w].conf.cluster
             conf == [cmd[w].conf EXCEPT !.cluster = cluster]
  <2>1. cluster \in Contexts \cup {"none"} /\ (mode = "kfctl" => cluster = current)
    BY <1>1 DEF Config
  <2>2. cmd' = [cmd EXCEPT ![w] = [cmd[w] EXCEPT !.pc = "save", !.conf = conf]]
    BY <1>1, <1>4 DEF AllApplied, Cmd, Config, DirCmdOK
  <2> HIDE DEF cluster
  <2>3. conf \in Config /\ conf.caches = cmd[w].conf.caches /\ conf.rev = cmd[w].conf.rev
        /\ conf.force = cmd[w].conf.force /\ conf.cluster = cluster
    BY <1>1, <2>1 DEF Config
  <2> HIDE DEF conf
  <2>4. Moves(w, "save") /\ cmd'[w].conf = conf
    BY <1>1, <2>2, <2>3, ConfMoves DEF PCs
  <2>5. QED
    BY <2>1, <2>3, <2>4
<1>5. AppsDeleted(w) => cmd' = [cmd EXCEPT ![w] = NoCmd] \/ Keeps(w, "platform gone")
  BY <1>1, PcMoves DEF AppsDeleted, Done, Keeps, PCs
<1>6. QED
  BY <1>2, <1>3, <1>4, <1>5 DEF ApplyApp, SaveConfig, CheckCluster, DeleteApp, DeletePlatform, Fault, Done, PCs

-----------------------------------------------------------------------------
(* Only what kfctl has finished is deleted                                  *)

\* The configuration and the commands know of no cluster but those an apply has
\* finished on; the one that is saved is about to be one.
Known(w) ==
  /\ cmd[w].pc \in Loaded => ~cmd[w].conf.force
  /\ cmd[w].pc \in Loaded \ {"save"} => cmd[w].conf.cluster \in finished \cup {"none"}
  /\ cmd[w].pc = "save" => cmd[w].conf.cluster = current
  /\ cmd[w].pc = "delete" => cmd[w].conf.cluster = current

ForeignInv ==
  mode = "kfctl" =>
    /\ config.cluster \in finished \cup {"none"} /\ ~config.force
    /\ \A w \in Workers : Known(w)

\* Who writes the file of the configuration, and what of it.
LEMMA ConfigSteps ==
  ASSUME DirTypeInv, [DirNext]_dirVars
  PROVE  \/ config' = config
         \/ config'.caches = <<>> /\ config'.cluster = "none" /\ ~config'.force
         \/ \E w \in Workers : Annotate(w) /\ config' = [config EXCEPT !.force = mode = "operator" /\ cmd[w].kind = "delete"]
         \/ mode = "kfctl" /\ \E w \in Workers : (InitPlatform(w) \/ GeneratePlatform(w)) /\ config' = cmd[w].conf
         \/ \E w \in Workers : SaveConfig(w)
         \/ mode = "kfctl" /\ \E r \in Revs : config' = [config EXCEPT !.rev = r]
<1>1. NoConfig.caches = <<>> /\ NoConfig.cluster = "none" /\ ~NoConfig.force
      /\ [NoConfig EXCEPT !.state = "torn"].caches = <<>> /\ [NoConfig EXCEPT !.state = "torn"].cluster = "none"
      /\ ~[NoConfig EXCEPT !.state = "torn"].force
  BY DEF NoConfig
<1>2. ASSUME NEW rev
      PROVE  /\ [NoConfig EXCEPT !.state = "ok", !.rev = rev].caches = <<>>
             /\ [NoConfig EXCEPT !.state = "ok", !.rev = rev].cluster = "none"
             /\ ~[NoConfig EXCEPT !.state = "ok", !.rev = rev].force
  BY DEF NoConfig
<1>3. ASSUME NEW w \in Workers, RemoveDir(w) \/ WriteKfDef(w) \/ CreateConfig(w) \/ Fault(w)
      PROVE  config' = config \/ (config'.caches = <<>> /\ config'.cluster = "none" /\ ~config'.force)
  <2>1. \/ config' = NoConfig \/ config' = config \/ config' = [NoConfig EXCEPT !.state = "torn"]
        \/ config' = [NoConfig EXCEPT !.state = "ok", !.rev = cmd[w].given]
    BY <1>3 DEF RemoveDir, WriteKfDef, CreateConfig, Fault
  <2>2. QED
    BY <1>1, <1>2, <2>1
<1>4. ASSUME NEW w \in Workers, DirStep(w),
             ~RemoveDir(w), ~WriteKfDef(w), ~CreateConfig(w), ~Fault(w), ~SaveConfig(w)
      PROVE  \/ config' = config
             \/ Annotate(w) /\ config' = [config EXCEPT !.force = mode = "operator" /\ cmd[w].kind = "delete"]
             \/ mode = "kfctl" /\ (InitPlatform(w) \/ GeneratePlatform(w)) /\ config' = cmd[w].conf
  <2>1. CASE Annotate(w)
    BY <2>1 DEF Annotate
  <2>2. CASE InitPlatform(w) \/ GeneratePlatform(w)
    BY <2>2 DEF InitPlatform, GeneratePlatform, WithPlatform
  <2>3. CASE ~Annotate(w) /\ ~InitPlatform(w) /\ ~GeneratePlatform(w)
    BY <1>4, <2>3 DEF DirStep, OperatorStart, KfctlStart, Load, SyncCache, Fetched, SkipKustomize, MakeKustomizeDir,
       CopyApp, CopyFails, BuildApp, AllBuilt, ApplyApp, AllApplied, CheckCluster, DeleteApp, AppsDeleted,
       DeletePlatform, dir
  <2>4. QED
    BY <2>1, <2>2, <2>3
<1>5. CASE \E w \in Workers : DirStep(w)
  BY <1>3, <1>4, <1>5
<1>6. CASE DirCrash \/ RemoveByHand \/ SwitchContext \/ \E r \in Revs : Edit(r)
  BY <1>1, <1>6 DEF DirCrash, RemoveByHand, SwitchContext, Edit, dir
<1>7. CASE UNCHANGED dirVars
  BY <1>7 DEF dirVars, dir
<1>8. QED
  BY <1>5, <1>6, <1>7 DEF DirNext

\* What stays, whoever moves.
LEMMA WorldSteps ==
  ASSUME [DirNext]_dirVars
  PROVE  /\ UNCHANGED mode
         /\ finished' = finished \/ (mode = "kfctl" /\ finished' = finished \cup {current})
         /\ current' = current \/ (UNCHANGED <<cmd, config, finished>> /\ \A w \in Workers : cmd[w].pc = "idle")
<1>1. ASSUME NEW w \in Workers, DirStep(w)
      PROVE  UNCHANGED <<mode, current>> /\ (finished' = finished \/ (mode = "kfctl" /\ finished' = finished \cup {current}))
  BY <1>1 DEF DirStep, OperatorStart, KfctlStart, RemoveDir, WriteKfDef, Annotate, CreateConfig, Load,
       InitPlatform, GeneratePlatform, WithPlatform, SyncCache, Fetched, SkipKustomize, MakeKustomizeDir,
       CopyApp, CopyFails, BuildApp, AllBuilt, ApplyApp, AllApplied, SaveConfig, CheckCluster, DeleteApp,
       AppsDeleted, DeletePlatform, Fault, dir, World
<1>2. QED
  BY <1>1 DEF DirNext, DirCrash, RemoveByHand, SwitchContext, Edit, AtPC, dirVars, dir, World

LEMMA KnownStep ==
  ASSUME DirTypeInv, ForeignInv, mode = "kfctl", NEW w \in Workers, DirStep(w), UNCHANGED current,
         finished' = finished \/ finished' = finished \cup {current}
  PROVE  Known(w)'
<1>1. Known(w) /\ config.cluster \in finished \cup {"none"} /\ ~config.force
  BY DEF ForeignInv
<1>2. \A x \in finished \cup {"none"} : x \in finished' \cup {"none"}
  OBVIOUS
<1>3. ASSUME cmd'[w].pc \notin Loaded PROVE Known(w)'
  BY <1>3 DEF Known, Loaded, Listed
<1>4. CASE cmd' = [cmd EXCEPT ![w] = NoCmd]
  BY <1>3, <1>4, NoneType DEF DirTypeInv, DirCmdOK, Loaded, Listed
<1>5. ASSUME NEW pc, pc \notin {"save", "delete"}, Moves(w, pc), cmd[w].pc \in Loaded \ {"save"},
             cmd'[w].conf.force = cmd[w].conf.force, cmd'[w].conf.cluster = cmd[w].conf.cluster
      PROVE  Known(w)'
  BY <1>1, <1>2, <1>5 DEF Known, Moves
<1>6. ASSUME NEW pc, pc \notin {"save", "delete"}, Keeps(w, pc), cmd[w].pc \in Loaded \ {"save"}
      PROVE  Known(w)'
  BY <1>5, <1>6 DEF Keeps
<1>7. CASE \/ \E kind \in {"apply", "delete"} : OperatorStart(w, kind)
           \/ \E kind \in {"build", "apply", "delete"}, remote \in BOOLEAN : KfctlStart(w, kind, remote)
  <2>1. PICK kind \in {"build", "apply", "delete"}, remote \in BOOLEAN : KfctlStart(w, kind, remote)
    BY <1>7 DEF OperatorStart
  <2> DEFINE pc == IF remote THEN "create" ELSE IF kind = "delete" THEN "annotate" ELSE "load"
             given == IF remote THEN spec ELSE config.rev
  <2>2. cmd' = [cmd EXCEPT ![w] = [NoCmd EXCEPT !.kind = kind, !.given = given, !.pc = pc]]
    BY <2>1 DEF KfctlStart
  <2>3. given \in Nat /\ pc \in {"create", "annotate", "load"} /\ (pc = "create" => given \in Revs) /\ DirCmdOK
    BY RevsType DEF DirTypeInv, DirWorldOK, ConfigOK, Config
  <2> HIDE DEF pc, given
  <2>4. cmd'[w].pc = pc
    BY <2>2, <2>3, DirStartType
  <2>5. QED
    BY <1>3, <2>3, <2>4 DEF Loaded, Listed
<1>8. CASE RemoveDir(w) \/ WriteKfDef(w) \/ Annotate(w) \/ CreateConfig(w)
  BY <1>3, <1>4, <1>8, EarlyEffect DEF Keeps, Moves, Loaded, Listed
<1>9. CASE Load(w)
  <2>1. CASE Moves(w, "init") /\ cmd'[w].conf = config
    BY <1>1, <1>2, <2>1 DEF Known, Moves
  <2>2. QED
    BY <1>4, <1>9, <2>1, EarlyEffect
<1>10. AfterSync(w) \notin {"save", "delete"}
  BY DEF AfterSync
<1>11. CASE InitPlatform(w) \/ GeneratePlatform(w) \/ SyncCache(w)
  <2>1. cmd[w].pc \in Loaded \ {"save"}
    BY <1>11 DEF InitPlatform, GeneratePlatform, WithPlatform, SyncCache, AtPC, Loaded, Listed
  <2>2. QED
    BY <1>6, <1>10, <1>11, <2>1, SyncEffect
<1>12. CASE Fetched(w)
  <2>1. cmd[w].pc \in Loaded \ {"save"}
    BY <1>12 DEF Fetched, AtPC, Loaded, Listed
  <2>2. QED
    BY <1>5, <1>10, <1>12, <2>1, SyncEffect
<1>13. CASE SkipKustomize(w) \/ MakeKustomizeDir(w) \/ CopyApp(w) \/ CopyFails(w) \/ BuildApp(w) \/ AllBuilt(w)
  <2>1. cmd[w].pc \in Loaded \ {"save"}
    BY <1>13 DEF SkipKustomize, MakeKustomizeDir, CopyApp, CopyFails, BuildApp, AllBuilt, AtPC, Loaded, Listed
  <2>2. QED
    BY <1>4, <1>6, <1>13, <2>1, GenerateEffect DEF SkipKustomize, AllBuilt
<1>14. CASE ApplyApp(w) \/ AppsDeleted(w) \/ SaveConfig(w) \/ DeletePlatform(w) \/ Fault(w)
  <2>1. CASE Keeps(w, "apply") \/ Keeps(w, "platform gone")
    <3>1. cmd[w].pc \in Loaded \ {"save"} \/ SaveConfig(w) \/ DeletePlatform(w) \/ Fault(w)
      BY <1>14 DEF ApplyApp, AppsDeleted, AtPC, Loaded, Listed
    <3>2. QED
      BY <1>4, <1>6, <2>1, <3>1, ClusterEffect
  <2>2. QED
    BY <1>4, <1>14, <2>1, ClusterEffect
<1>15. CASE AllApplied(w)
  <2>1. cmd[w].pc \in Loaded
    BY <1>15 DEF AllApplied, AtPC, Loaded, Listed
  <2>2. cmd'[w].pc = "save" /\ cmd'[w].conf.force = cmd[w].conf.force /\ cmd'[w].conf.cluster = current
    BY <1>15, ClusterEffect DEF Moves
  <2>3. QED
    BY <1>1, <2>1, <2>2 DEF Known
<1>16. CASE CheckCluster(w) \/ DeleteApp(w)
  <2>1. cmd[w].pc \in {"check", "delete"}
    BY <1>16 DEF CheckCluster, DeleteApp, AtPC
  <2>2. CASE Keeps(w, "delete") /\ cmd[w].conf.cluster = current
    BY <1>1, <1>2, <2>1, <2>2 DEF Known, Keeps, Moves, Loaded, Listed
  <2>3. cmd[w].pc = "delete" => cmd[w].conf.cluster = current
    BY <1>1 DEF Known
  <2>4. ~cmd[w].conf.force
    BY <1>1, <2>1 DEF Known, Loaded, Listed
  <2>5. CheckCluster(w) => cmd' = [cmd EXCEPT ![w] = NoCmd] \/ (Keeps(w, "delete") /\ cmd[w].conf.cluster = current)
    BY <2>4, ClusterEffect
  <2>6. DeleteApp(w) => cmd' = [cmd EXCEPT ![w] = NoCmd] \/ (Keeps(w, "delete") /\ cmd[w].conf.cluster = current)
    BY <2>3, ClusterEffect DEF DeleteApp, AtPC
  <2>7. QED
    BY <1>4, <1>16, <2>2, <2>5, <2>6
<1>17. QED
  BY <1>7, <1>8, <1>9, <1>11, <1>12, <1>13, <1>14, <1>15, <1>16 DEF DirStep

\* A step of one worker is none of another, but for a crash.
LEMMA Others ==
  ASSUME DirTypeInv, [DirNext]_dirVars, NEW w \in Workers
  PROVE  DirStep(w) \/ cmd'[w] = cmd[w] \/ cmd'[w] = NoCmd
<1>1. ASSUME NEW v \in Workers, v # w, DirStep(v) PROVE cmd'[w] = cmd[w]
  BY <1>1 DEF DirTypeInv, DirCmdOK, DirStep, OperatorStart, KfctlStart, RemoveDir, WriteKfDef, Annotate, CreateConfig,
       Load, InitPlatform, GeneratePlatform, WithPlatform, SyncCache, KeepOrFetch, Fetched, SkipKustomize,
       MakeKustomizeDir, AfterGenerate, CopyApp, CopyFails, BuildApp, AllBuilt, ApplyApp, AllApplied, SaveConfig,
       CheckCluster, DeleteApp, AppsDeleted, DeletePlatform, Fault, Step, NextApp, Done
<1>2. CASE DirCrash \/ RemoveByHand \/ SwitchContext \/ (\E r \in Revs : Edit(r)) \/ UNCHANGED dirVars
  BY <1>2 DEF DirCrash, RemoveByHand, SwitchContext, Edit, dirVars
<1>3. QED
  BY <1>1, <1>2 DEF DirNext

LEMMA ForeignStep ==
  ASSUME DirTypeInv, ForeignInv, [DirNext]_dirVars
  PROVE  ForeignInv'
<1> SUFFICES ASSUME mode' = "kfctl"
             PROVE  /\ config'.cluster \in finished' \cup {"none"} /\ ~config'.force
                    /\ \A w \in Workers : Known(w)'
  BY DEF ForeignInv
<1>1. /\ mode = "kfctl" /\ config.cluster \in finished \cup {"none"} /\ ~config.force
      /\ \A w \in Workers : Known(w)
      /\ finished' = finished \/ finished' = finished \cup {current}
      /\ config \in Config
  BY WorldSteps DEF ForeignInv, DirTypeInv, ConfigOK
<1>2. config'.cluster \in finished' \cup {"none"} /\ ~config'.force
  <2>1. CASE config' = config \/ (config'.cluster = "none" /\ ~config'.force)
    BY <1>1, <2>1
  <2>2. CASE \E w \in Workers : Annotate(w) /\ config' = [config EXCEPT !.force = mode = "operator" /\ cmd[w].kind = "delete"]
    BY <1>1, <2>2 DEF Config
  <2>3. ASSUME NEW w \in Workers, InitPlatform(w) \/ GeneratePlatform(w), config' = cmd[w].conf
        PROVE  config'.cluster \in finished' \cup {"none"} /\ ~config'.force
    <3>1. cmd[w].pc \in Loaded \ {"save"}
      BY <2>3 DEF InitPlatform, GeneratePlatform, WithPlatform, AtPC, Loaded, Listed
    <3>2. QED
      BY <1>1, <2>3, <3>1 DEF Known
  <2>4. ASSUME NEW w \in Workers, SaveConfig(w)
        PROVE  config'.cluster \in finished' \cup {"none"} /\ ~config'.force
    <3>1. cmd[w].pc = "save" /\ config' = cmd[w].conf /\ finished' = finished \cup {current}
      BY <1>1, <2>4 DEF SaveConfig, AtPC
    <3>2. QED
      BY <1>1, <3>1 DEF Known, Loaded, Listed
  <2>5. CASE \E r \in Revs : config' = [config EXCEPT !.rev = r]
    BY <1>1, <2>5 DEF Config
  <2>6. QED
    BY <2>1, <2>2, <2>3, <2>4, <2>5, ConfigSteps
<1>3. ASSUME NEW w \in Workers PROVE Known(w)'
  <2>1. CASE DirStep(w)
    <3>1. cmd[w].pc = "idle" /\ UNCHANGED cmd => Known(w)'
      BY DEF Known, Loaded, Listed
    <3>2. QED
      BY <1>1, <2>1, <3>1, KnownStep, WorldSteps
  <2>2. CASE cmd'[w] = cmd[w]
    <3>1. current' = current \/ cmd[w].pc = "idle"
      BY WorldSteps
    <3>2. QED
      BY <1>1, <2>2, <3>1 DEF Known, Loaded, Listed
  <2>3. CASE cmd'[w] = NoCmd
    BY <2>3, NoneType DEF Known, Loaded, Listed
  <2>4. QED
    BY <2>1, <2>2, <2>3, Others
<1>4. QED
  BY <1>2, <1>3

LEMMA AppliedSteps ==
  ASSUME [DirNext]_dirVars
  PROVE  UNCHANGED applied \/ \E w \in Workers : ApplyApp(w) \/ DeleteApp(w)
<1>1. ASSUME NEW w \in Workers, DirStep(w), ~ApplyApp(w), ~DeleteApp(w) PROVE UNCHANGED applied
  BY <1>1 DEF DirStep, OperatorStart, KfctlStart, RemoveDir, WriteKfDef, Annotate, CreateConfig, Load,
       InitPlatform, GeneratePlatform, WithPlatform, SyncCache, Fetched, SkipKustomize, MakeKustomizeDir,
       CopyApp, CopyFails, BuildApp, AllBuilt, AllApplied, SaveConfig, CheckCluster,
       AppsDeleted, DeletePlatform, Fault, dir, World
<1>2. QED
  BY <1>1 DEF DirNext, DirCrash, RemoveByHand, SwitchContext, Edit, dirVars, dir, World

LEMMA DeletesKnown ==
  ASSUME DirTypeInv, ForeignInv, [DirNext]_dirVars, NEW c \in Contexts, NEW a \in Apps,
         mode = "kfctl", applied[c][a] # NoApp, applied'[c][a] = NoApp
  PROVE  c \in finished
<1>1. applied \in [Contexts -> [Apps -> AppState]] /\ current \in Contexts /\ "none" \notin Contexts
  BY DEF DirTypeInv, DirWorldOK, Contexts
<1>2. PICK w \in Workers : ApplyApp(w) \/ DeleteApp(w)
  BY AppliedSteps
<1>3. CASE ApplyApp(w)
  <2>1. PICK new : new.state # "none" /\ applied' = [applied EXCEPT ![current][AppAt(w)] = new]
    BY <1>3, <1>2 DEF ApplyApp
  <2>2. applied'[c][a] = applied[c][a] \/ applied'[c][a] = new
    BY <1>1, <2>1
  <2>3. QED
    BY <2>1, <2>2, NoneType
<1>4. CASE DeleteApp(w)
  <2>1. cmd[w].pc = "delete" /\ cmd[w].conf.cluster = current /\ cmd[w].conf.cluster \in finished \cup {"none"}
    BY <1>4 DEF DeleteApp, AtPC, ForeignInv, Known, Loaded, Listed
  <2>2. c = current
    BY <1>1, <1>4 DEF DeleteApp
  <2>3. QED
    BY <1>1, <2>1, <2>2
<1>5. QED
  BY <1>2, <1>3, <1>4

\* Whatever is switched, edited, torn or left half-way: kfctl deletes an
\* application only from a cluster on which an apply of the directory has come
\* to its end (Delete, kustomize.go).
THEOREM NothingForeignIsDeleted == DirSpec => NoForeignDelete
<1>1. DirInit => DirTypeInv /\ ForeignInv
  <2>1. DirInit => ForeignInv
    BY NoneType DEF DirInit, ForeignInv, Known, Loaded, Listed
  <2>2. QED
    BY <2>1, DirInitType
<1>2. DirTypeInv /\ ForeignInv /\ [DirNext]_dirVars => (DirTypeInv /\ ForeignInv)'
  BY DirNextType, ForeignStep
<1>3. DirTypeInv /\ ForeignInv /\ [DirNext]_dirVars =>
        [\A c \in Contexts, a \in Apps :
           mode = "kfctl" /\ applied[c][a] # NoApp /\ applied'[c][a] = NoApp => c \in finished]_dirVars
  BY DeletesKnown
<1>4. QED
  BY <1>1, <1>2, <1>3, PTL DEF DirSpec, NoForeignDelete

-----------------------------------------------------------------------------
(* One worker: the cache that is listed is complete                         *)

OneWorker == \A v, w \in Workers : v = w

Ready == config.state = "ok" /\ config.caches # <<>>

CacheInv ==
  used["removals"] = 0 =>
    /\ Ready => cache.state = "full"
    /\ \A w \in Workers : cmd[w].pc \in Loaded =>
         /\ cmd[w].conf.caches # <<>> => cache.state = "full"
         /\ Ready => cmd[w].conf.caches # <<>>

\* The step of the one worker, or one of the rest of the world.
LEMMA OneSteps ==
  ASSUME OneWorker, [DirNext]_dirVars
  PROVE  \/ \E w \in Workers : DirStep(w) /\ \A v \in Workers : v = w
         \/ DirCrash \/ RemoveByHand \/ SwitchContext \/ (\E r \in Revs : Edit(r)) \/ UNCHANGED dirVars
BY DEF OneWorker, DirNext

LEMMA RemovalsGrow ==
  ASSUME DirTypeInv, [DirNext]_dirVars
  PROVE  used'["removals"] = 0 => used["removals"] = 0 /\ ~RemoveByHand
<1>1. used \in Events
  BY DEF DirTypeInv
<1>2. ASSUME NEW e \in DirEventKinds, Spend(e) PROVE used'["removals"] = 0 => used["removals"] = 0 /\ e # "removals"
  BY <1>1, <1>2 DEF Spend, Events, DirEventKinds
<1>3. ASSUME NEW w \in Workers, DirStep(w) PROVE UNCHANGED used \/ \E e \in {"commands", "faults"} : Spend(e)
  BY <1>3 DEF DirStep, OperatorStart, KfctlStart, RemoveDir, WriteKfDef, Annotate, CreateConfig, Load,
       InitPlatform, GeneratePlatform, WithPlatform, SyncCache, KeepOrFetch, Fetched, SkipKustomize, MakeKustomizeDir,
       AfterGenerate, CopyApp, CopyFails, BuildApp, AllBuilt, ApplyApp, AllApplied, SaveConfig, CheckCluster, DeleteApp,
       AppsDeleted, DeletePlatform, Fault, Step, NextApp, Done
<1>4. RemoveByHand => ~(used'["removals"] = 0)
  BY <1>2 DEF RemoveByHand, DirEventKinds
<1>5. UNCHANGED used \/ \E e \in DirEventKinds : Spend(e)
  BY <1>3 DEF DirNext, DirCrash, RemoveByHand, SwitchContext, Edit, dirVars, DirEventKinds
<1>6. QED
  BY <1>2, <1>4, <1>5

\* The steps of a worker that change the cache.
LEMMA CacheSteps ==
  ASSUME NEW w \in Workers, DirStep(w)
  PROVE  UNCHANGED cache \/ RemoveDir(w) \/ SyncCache(w) \/ Fetched(w)
BY DEF DirStep, OperatorStart, KfctlStart, WriteKfDef, Annotate, CreateConfig, Load,
       InitPlatform, GeneratePlatform, WithPlatform, SkipKustomize, MakeKustomizeDir,
       CopyApp, CopyFails, BuildApp, AllBuilt, ApplyApp, AllApplied, SaveConfig, CheckCluster, DeleteApp,
       AppsDeleted, DeletePlatform, Fault, dir

\* A command has read the configuration only at Load; it lists what it listed,
\* and a fetch lists more.
LEMMA ListedKept ==
  ASSUME DirTypeInv, NEW w \in Workers, DirStep(w), cmd'[w].pc \in Loaded
  PROVE  \/ Load(w) /\ cmd'[w].conf = config /\ config.state = "ok"
         \/ Fetched(w)
         \/ cmd[w].pc \in Loaded /\ cmd'[w].conf.caches = cmd[w].conf.caches
<1>1. CASE cmd' = [cmd EXCEPT ![w] = NoCmd]
  BY <1>1, NoneType DEF DirTypeInv, DirCmdOK, Loaded, Listed
<1>2. CASE \/ \E kind \in {"apply", "delete"} : OperatorStart(w, kind)
           \/ \E kind \in {"build", "apply", "delete"}, remote \in BOOLEAN : KfctlStart(w, kind, remote)
  <2>1. ASSUME NEW kind, NEW given, NEW pc \in {"remove", "write", "create", "annotate", "load"},
               cmd' = [cmd EXCEPT ![w] = [NoCmd EXCEPT !.kind = kind, !.given = given, !.pc = pc]]
        PROVE  cmd'[w].pc \notin Loaded
    <3>1. [NoCmd EXCEPT !.kind = kind, !.given = given, !.pc = pc].pc = pc
      BY DEF NoCmd
    <3>2. cmd'[w] = [NoCmd EXCEPT !.kind = kind, !.given = given, !.pc = pc]
      BY <2>1 DEF DirTypeInv, DirCmdOK
    <3>3. cmd'[w].pc = pc
      BY <3>1, <3>2
    <3>4. QED
      BY <3>3 DEF Loaded, Listed
  <2>2. ASSUME NEW kind, OperatorStart(w, kind) PROVE cmd'[w].pc \notin Loaded
    <3> DEFINE pc == IF kind = "apply" THEN "remove" ELSE "write"
    <3>1. cmd' = [cmd EXCEPT ![w] = [NoCmd EXCEPT !.kind = kind, !.given = spec, !.pc = pc]]
      BY <2>2 DEF OperatorStart
    <3>2. pc \in {"remove", "write", "create", "annotate", "load"}
      OBVIOUS
    <3> HIDE DEF pc
    <3>3. QED
      BY <2>1, <3>1, <3>2
  <2>3. ASSUME NEW kind, NEW remote \in BOOLEAN, KfctlStart(w, kind, remote) PROVE cmd'[w].pc \notin Loaded
    <3> DEFINE pc == IF remote THEN "create" ELSE IF kind = "delete" THEN "annotate" ELSE "load"
               given == IF remote THEN spec ELSE config.rev
    <3>1. cmd' = [cmd EXCEPT ![w] = [NoCmd EXCEPT !.kind = kind, !.given = given, !.pc = pc]]
      BY <2>3 DEF KfctlStart
    <3>2. pc \in {"remove", "write", "create", "annotate", "load"}
      OBVIOUS
    <3> HIDE DEF pc, given
    <3>3. QED
      BY <2>1, <3>1, <3>2
  <2>4. QED
    BY <1>2, <2>2, <2>3
<1>3. CASE RemoveDir(w) \/ WriteKfDef(w) \/ Annotate(w) \/ CreateConfig(w) \/ Load(w)
  BY <1>1, <1>3, EarlyEffect DEF Keeps, Moves, Loaded, Listed
<1>4. CASE \/ InitPlatform(w) \/ SyncCache(w) \/ GeneratePlatform(w)
  <2>1. cmd[w].pc \in Loaded
    BY <1>4 DEF InitPlatform, GeneratePlatform, WithPlatform, SyncCache, AtPC, Loaded, Listed
  <2>2. QED
    BY <1>4, <2>1, SyncEffect DEF Keeps
<1>5. CASE SkipKustomize(w) \/ MakeKustomizeDir(w) \/ CopyApp(w) \/ CopyFails(w) \/ BuildApp(w) \/ AllBuilt(w)
  <2>1. cmd[w].pc \in Loaded
    BY <1>5 DEF SkipKustomize, MakeKustomizeDir, CopyApp, CopyFails, BuildApp, AllBuilt, AtPC, Loaded, Listed
  <2>2. QED
    BY <1>1, <1>5, <2>1, GenerateEffect DEF Keeps, SkipKustomize, AllBuilt
<1>6. CASE \/ ApplyApp(w) \/ AllApplied(w) \/ SaveConfig(w)
           \/ CheckCluster(w) \/ DeleteApp(w) \/ AppsDeleted(w) \/ DeletePlatform(w) \/ Fault(w)
  <2>1. CASE Fault(w)
    BY <1>1, <2>1, ClusterEffect
  <2>2. CASE ~Fault(w)
    <3>1. cmd[w].pc \in Loaded
      BY <1>6, <2>2 DEF ApplyApp, AllApplied, SaveConfig, CheckCluster, DeleteApp, AppsDeleted, DeletePlatform,
                        AtPC, Loaded, Listed
    <3>2. QED
      BY <1>1, <1>6, <2>2, <3>1, ClusterEffect DEF Keeps
  <2>3. QED
    BY <2>1, <2>2
<1>7. QED
  BY <1>2, <1>3, <1>4, <1>5, <1>6 DEF DirStep

LEMMA CacheStep ==
  ASSUME OneWorker, DirTypeInv, CacheInv, [DirNext]_dirVars
  PROVE  CacheInv'
<1> SUFFICES ASSUME used'["removals"] = 0
             PROVE  /\ Ready' => cache'.state = "full"
                    /\ \A w \in Workers : cmd'[w].pc \in Loaded =>
                         /\ cmd'[w].conf.caches # <<>> => cache'.state = "full"
                         /\ Ready' => cmd'[w].conf.caches # <<>>
  BY DEF CacheInv
<1>1. /\ Ready => cache.state = "full"
      /\ \A w \in Workers : cmd[w].pc \in Loaded =>
           /\ cmd[w].conf.caches # <<>> => cache.state = "full"
           /\ Ready => cmd[w].conf.caches # <<>>
      /\ config \in Config
  BY RemovalsGrow DEF CacheInv, DirTypeInv, ConfigOK
<1>2. CASE DirCrash
  BY <1>2, NoneType DEF DirCrash, Ready, Loaded, Listed
<1>3. CASE SwitchContext \/ UNCHANGED dirVars
  BY <1>1, <1>3 DEF SwitchContext, dirVars, dir, Ready
<1>4. ASSUME NEW r \in Revs, Edit(r) PROVE UNCHANGED <<cmd, cache>> /\ Ready' = Ready
  <2>1. UNCHANGED config \/ config' = [config EXCEPT !.rev = r]
    BY <1>4 DEF Edit
  <2>2. config'.state = config.state /\ config'.caches = config.caches
    BY <1>1, <2>1 DEF Config
  <2>3. QED
    BY <1>4, <2>2 DEF Edit, Ready
<1>5. ASSUME NEW w \in Workers, DirStep(w), \A v \in Workers : v = w
      PROVE  /\ Ready' => cache'.state = "full"
             /\ cmd'[w].pc \in Loaded => /\ cmd'[w].conf.caches # <<>> => cache'.state = "full"
                                         /\ Ready' => cmd'[w].conf.caches # <<>>
  <2>1. Ready' => Ready \/ (cmd[w].pc \in Loaded /\ cmd[w].conf.caches # <<>> /\ config' = cmd[w].conf)
    <3>1. CASE config' = config \/ config'.caches = <<>>
      BY <3>1 DEF Ready
    <3>2. CASE \E v \in Workers : Annotate(v) /\ config' = [config EXCEPT !.force = mode = "operator" /\ cmd[v].kind = "delete"]
      BY <1>1, <3>2 DEF Config, Ready
    <3>3. ASSUME NEW v \in Workers, InitPlatform(v) \/ GeneratePlatform(v) \/ SaveConfig(v), config' = cmd[v].conf, Ready'
          PROVE  cmd[w].pc \in Loaded /\ cmd[w].conf.caches # <<>> /\ config' = cmd[w].conf
      <4>1. cmd[v].pc \in Loaded
        BY <3>3 DEF InitPlatform, GeneratePlatform, WithPlatform, SaveConfig, AtPC, Loaded, Listed
      <4>2. QED
        BY <1>5, <3>3, <4>1 DEF Ready
    <3>4. CASE \E r \in Revs : config' = [config EXCEPT !.rev = r]
      BY <1>1, <3>4 DEF Config, Ready
    <3>5. \A v \in Workers : SaveConfig(v) => config' = cmd[v].conf
      BY DEF SaveConfig
    <3>6. QED
      BY <3>1, <3>2, <3>3, <3>4, <3>5, ConfigSteps
  <2>2. CASE RemoveDir(w)
    <3>1. ~Ready' /\ cmd'[w].pc = "write"
      BY <2>2, NoneType, EarlyEffect DEF RemoveDir, Ready, Keeps, Moves
    <3>2. QED
      BY <3>1 DEF Loaded, Listed
  <2>3. CASE Fetched(w)
    BY <2>3, SyncEffect DEF Fetched
  <2>4. CASE SyncCache(w)
    <3>1. cmd[w].pc \in Loaded /\ UNCHANGED config
      BY <2>4 DEF SyncCache, AtPC, Loaded, Listed
    <3>2. CASE cmd[w].conf.caches # <<>>
      <4>1. cache.state = "full" /\ UNCHANGED cache /\ cmd'[w].conf.caches # <<>>
        BY <1>1, <2>4, <3>1, <3>2, SyncEffect DEF Keeps
      <4>2. QED
        BY <4>1
    <3>3. CASE cmd[w].conf.caches = <<>>
      <4>1. ~Ready /\ cmd'[w].conf.caches = <<>>
        BY <1>1, <2>4, <3>1, <3>3, SyncEffect DEF Keeps
      <4>2. QED
        BY <3>1, <4>1 DEF Ready
    <3>4. QED
      BY <3>2, <3>3
  <2>5. CASE UNCHANGED cache /\ ~Fetched(w)
    <3>1. Ready' => cache'.state = "full"
      BY <1>1, <2>1, <2>5
    <3>2. ASSUME cmd'[w].pc \in Loaded
          PROVE  /\ cmd'[w].conf.caches # <<>> => cache'.state = "full"
                 /\ Ready' => cmd'[w].conf.caches # <<>>
      <4>1. CASE Load(w) /\ cmd'[w].conf = config /\ config.state = "ok"
        BY <1>1, <2>5, <4>1 DEF Load, dir, Ready
      <4>2. CASE cmd[w].pc \in Loaded /\ cmd'[w].conf.caches = cmd[w].conf.caches
        BY <1>1, <2>1, <2>5, <4>2
      <4>3. QED
        BY <1>5, <2>5, <3>2, <4>1, <4>2, ListedKept
    <3>3. QED
      BY <3>1, <3>2
  <2>6. QED
    BY <1>5, <2>2, <2>3, <2>4, <2>5, CacheSteps
<1>6. CASE \E w \in Workers : DirStep(w) /\ \A v \in Workers : v = w
  BY <1>5, <1>6
<1>7. QED
  BY <1>1, <1>2, <1>3, <1>4, <1>6, OneSteps, RemovalsGrow

\* Whatever is interrupted, a fetch among it: the configuration that is left
\* lists a cache only when all of it is there (SyncCache, types.go).
THEOREM CacheIsComplete ==
  ASSUME OneWorker
  PROVE  DirSpec => []CacheComplete
<1>1. DirInit => DirTypeInv /\ CacheInv
  <2>1. DirInit => CacheInv
    BY NoneType DEF DirInit, CacheInv, Ready, Loaded, Listed
  <2>2. QED
    BY <2>1, DirInitType
<1>2. DirTypeInv /\ CacheInv /\ [DirNext]_dirVars => (DirTypeInv /\ CacheInv)'
  BY DirNextType, CacheStep
<1>3. CacheInv => CacheComplete
  BY DEF CacheInv, CacheComplete, Ready
<1>4. QED
  BY <1>1, <1>2, <1>3, PTL DEF DirSpec

-----------------------------------------------------------------------------
(* One worker: the platform goes last                                       *)

\* What a deletion has behind it is gone from the cluster.
LastInv ==
  \A w \in Workers :
    /\ cmd[w].pc = "delete" =>
         \A i \in DOMAIN AppsOf(w) : i + cmd[w].at > Len(AppsOf(w)) + 1 => applied[current][AppsOf(w)[i]] = NoApp
    /\ cmd[w].pc = "platform gone" =>
         \A i \in DOMAIN AppsOf(w) : applied[current][AppsOf(w)[i]] = NoApp

\* Where a deletion comes from.
LEMMA DeletionFlow ==
  ASSUME DirTypeInv, NEW w \in Workers, DirStep(w), cmd'[w].pc \in {"delete", "platform gone"}
  PROVE  CheckCluster(w) \/ DeleteApp(w) \/ AppsDeleted(w)
<1>1. CASE cmd' = [cmd EXCEPT ![w] = NoCmd]
  BY <1>1, NoneType DEF DirTypeInv, DirCmdOK
<1>2. cmd[w].pc \in Loaded \/ Load(w)
  BY ListedKept DEF Loaded, Listed, Fetched, AtPC
<1>3. CASE Load(w)
  BY <1>1, <1>3, EarlyEffect DEF Moves
<1>4. ~RemoveDir(w) /\ ~WriteKfDef(w) /\ ~CreateConfig(w) /\ ~Annotate(w)
  BY <1>2 DEF RemoveDir, WriteKfDef, CreateConfig, Annotate, Load, AtPC, Loaded, Listed
<1>5. ~(\E kind \in {"apply", "delete"} : OperatorStart(w, kind))
      /\ ~(\E kind \in {"build", "apply", "delete"}, remote \in BOOLEAN : KfctlStart(w, kind, remote))
  BY <1>2 DEF OperatorStart, KfctlStart, Load, AtPC, Loaded, Listed
<1>6. AfterSync(w) \notin {"delete", "platform gone"}
  BY DEF AfterSync
<1>7. ~InitPlatform(w) /\ ~SyncCache(w) /\ ~Fetched(w) /\ ~GeneratePlatform(w)
  BY <1>6, SyncEffect DEF Keeps, Moves
<1>8. CASE SkipKustomize(w) \/ MakeKustomizeDir(w) \/ CopyApp(w) \/ CopyFails(w) \/ BuildApp(w) \/ AllBuilt(w)
  BY <1>1, <1>8, GenerateEffect DEF Keeps, Moves, SkipKustomize, AllBuilt
<1>9. CASE ApplyApp(w) \/ AllApplied(w) \/ SaveConfig(w) \/ DeletePlatform(w) \/ Fault(w)
  BY <1>1, <1>9, ClusterEffect DEF Keeps, Moves
<1>10. QED
  BY <1>3, <1>4, <1>5, <1>7, <1>8, <1>9 DEF DirStep

LEMMA DeleteAppStep ==
  ASSUME DirTypeInv, LastInv, NEW w \in Workers, DeleteApp(w), UNCHANGED current,
         Keeps(w, "delete"), cmd'[w].at = cmd[w].at + 1,
         applied' = [applied EXCEPT ![current][LastFirst(w)] = NoApp],
         NEW i \in DOMAIN AppsOf(w), i + (cmd[w].at + 1) > Len(AppsOf(w)) + 1
  PROVE  applied'[current][AppsOf(w)[i]] = NoApp
<1>1. cmd[w].pc = "delete" /\ cmd[w].pc \in Loaded /\ cmd[w].at \in DOMAIN AppsOf(w)
  BY DEF DeleteApp, AtPC, Loaded, Listed
<1>2. /\ LastFirst(w) \in Apps /\ applied \in [Contexts -> [Apps -> AppState]] /\ current \in Contexts
      /\ AppsOf(w)[i] \in Apps
  BY <1>1, LastFirstType, LoadedType DEF DirTypeInv, DirWorldOK
<1>3. CASE AppsOf(w)[i] = LastFirst(w)
  BY <1>2, <1>3
<1>4. CASE AppsOf(w)[i] # LastFirst(w)
  <2> DEFINE n == Len(AppsOf(w))  k == cmd[w].at
  <2>1. n \in Nat /\ k \in 1..n /\ i \in 1..n
    BY <1>1, LoadedType
  <2>2. i # n + 1 - k
    BY <1>4 DEF LastFirst
  <2>3. i + k > n + 1
    <3> HIDE DEF n, k
    <3>1. i + (k + 1) > n + 1
      BY DEF n, k
    <3>2. QED
      BY <2>1, <2>2, <3>1
  <2>4. applied[current][AppsOf(w)[i]] = NoApp
    BY <1>1, <2>3 DEF LastInv
  <2>5. QED
    BY <1>2, <1>4, <2>4
<1>5. QED
  BY <1>3, <1>4

LEMMA LastStep ==
  ASSUME OneWorker, DirTypeInv, LastInv, [DirNext]_dirVars
  PROVE  LastInv'
<1>1. CASE DirCrash
  BY <1>1, NoneType DEF DirCrash, LastInv
<1>2. CASE RemoveByHand \/ SwitchContext
  BY <1>2 DEF RemoveByHand, SwitchContext, LastInv, AtPC
<1>3. CASE UNCHANGED dirVars \/ \E r \in Revs : Edit(r)
  <2>1. UNCHANGED <<cmd, applied, current>>
    BY <1>3 DEF dirVars, Edit, World
  <2>2. QED
    BY <2>1 DEF LastInv, AppsOf
<1>4. ASSUME NEW w \in Workers, DirStep(w), \A v \in Workers : v = w PROVE LastInv'
  <2>1. CASE cmd'[w].pc \notin {"delete", "platform gone"}
    BY <1>4, <2>1 DEF LastInv
  <2>2. CASE cmd'[w].pc \in {"delete", "platform gone"}
    <3>1. ~(cmd' = [cmd EXCEPT ![w] = NoCmd])
      BY <2>2, NoneType DEF DirTypeInv, DirCmdOK
    <3>2. cmd[w].pc \in Loaded /\ cmd'[w].conf = cmd[w].conf
      BY <1>4, <2>2, <3>1, DeletionFlow, ClusterEffect DEF CheckCluster, DeleteApp, AppsDeleted, AtPC, Loaded, Listed, Keeps
    <3>3. AppsOf(w)' = AppsOf(w) /\ current' = current
      BY <3>2, <1>4, WorldSteps, <2>2 DEF AppsOf, Loaded, Listed
    <3>4. /\ Len(AppsOf(w)) \in Nat /\ DOMAIN AppsOf(w) = 1..Len(AppsOf(w)) /\ cmd[w].at \in Nat
      BY <3>2, LoadedType
    <3>5. CASE CheckCluster(w)
      <4>1. cmd'[w].pc = "delete" /\ cmd'[w].at = 1
        BY <3>1, <3>5, ClusterEffect DEF Keeps, Moves
      <4>2. \A i \in DOMAIN AppsOf(w) : ~(i + 1 > Len(AppsOf(w)) + 1)
        BY <3>4
      <4>3. QED
        BY <1>4, <3>3, <4>1, <4>2 DEF LastInv
    <3>6. CASE DeleteApp(w)
      <4>1. /\ cmd'[w].pc = "delete" /\ Keeps(w, "delete") /\ cmd'[w].at = cmd[w].at + 1
            /\ applied' = [applied EXCEPT ![current][LastFirst(w)] = NoApp]
        BY <3>1, <3>6, ClusterEffect DEF Keeps, Moves
      <4>2. \A i \in DOMAIN AppsOf(w) : i + (cmd[w].at + 1) > Len(AppsOf(w)) + 1 =>
              applied'[current][AppsOf(w)[i]] = NoApp
        BY <3>3, <3>6, <4>1, DeleteAppStep
      <4>3. QED
        BY <1>4, <3>3, <4>1, <4>2 DEF LastInv
    <3>7. CASE AppsDeleted(w)
      <4>1. cmd'[w].pc = "platform gone" /\ UNCHANGED applied /\ cmd[w].pc = "delete" /\ cmd[w].at > Len(AppsOf(w))
        BY <3>1, <3>7, ClusterEffect DEF AppsDeleted, World, Keeps, Moves, AtPC
      <4>2. \A i \in DOMAIN AppsOf(w) : i + cmd[w].at > Len(AppsOf(w)) + 1
        <5> DEFINE n == Len(AppsOf(w))  k == cmd[w].at
        <5>1. n \in Nat /\ k \in Nat /\ k > n /\ DOMAIN AppsOf(w) = 1..n
          BY <3>4, <4>1
        <5> HIDE DEF n, k
        <5>2. \A i \in 1..n : i + k > n + 1
          BY <5>1
        <5>3. QED
          BY <5>1, <5>2 DEF n, k
      <4>3. \A i \in DOMAIN AppsOf(w) : applied[current][AppsOf(w)[i]] = NoApp
        BY <4>1, <4>2 DEF LastInv
      <4>4. QED
        BY <1>4, <3>3, <4>1, <4>3 DEF LastInv
    <3>8. QED
      BY <1>4, <2>2, <3>5, <3>6, <3>7, DeletionFlow
  <2>3. QED
    BY <2>1, <2>2
<1>5. QED
  BY <1>1, <1>2, <1>3, <1>4, OneSteps

\* The platform is deleted by a command that has deleted every application of
\* its configuration before, on the cluster it deletes them from.
THEOREM PlatformGoesLast ==
  ASSUME OneWorker
  PROVE  DirSpec => PlatformLast
<1>1. DirInit => DirTypeInv /\ LastInv
  <2>1. DirInit => LastInv
    BY NoneType DEF DirInit, LastInv
  <2>2. QED
    BY <2>1, DirInitType
<1>2. DirTypeInv /\ LastInv /\ [DirNext]_dirVars => (DirTypeInv /\ LastInv)'
  BY DirNextType, LastStep
<1>3. DirTypeInv /\ LastInv /\ [DirNext]_dirVars =>
        [platformUp /\ ~platformUp' =>
           \E w \in Workers :
             \A i \in DOMAIN AppsOf(w) : applied[current][AppsOf(w)[i]] = NoApp]_dirVars
  <2> SUFFICES ASSUME DirTypeInv, LastInv, [DirNext]_dirVars, platformUp, ~platformUp'
               PROVE  \E w \in Workers :
                        \A i \in DOMAIN AppsOf(w) : applied[current][AppsOf(w)[i]] = NoApp
    OBVIOUS
  <2>1. ASSUME NEW w \in Workers, DirStep(w), ~DeletePlatform(w) PROVE platformUp' = platformUp \/ platformUp'
    BY <2>1 DEF DirStep, OperatorStart, KfctlStart, RemoveDir, WriteKfDef, Annotate, CreateConfig, Load,
       InitPlatform, GeneratePlatform, WithPlatform, SyncCache, Fetched, SkipKustomize, MakeKustomizeDir,
       CopyApp, CopyFails, BuildApp, AllBuilt, ApplyApp, AllApplied, SaveConfig, CheckCluster, DeleteApp,
       AppsDeleted, Fault, dir, World
  <2>2. PICK w \in Workers : DeletePlatform(w)
    BY <2>1 DEF DirNext, DirCrash, RemoveByHand, SwitchContext, Edit, dirVars, World
  <2>3. QED
    BY <2>2 DEF DeletePlatform, AtPC, LastInv
<1>4. QED
  BY <1>1, <1>2, <1>3, PTL DEF DirSpec, PlatformLast

-----------------------------------------------------------------------------
(* One worker: an apply of the operator applies what its Reconcile has read *)

OwnApp(w) == [state |-> "built", rev |-> cmd[w].given]

\* What a command of the operator has found or made, by its place.
OwnCmd(w) ==
  /\ cmd[w].pc = "idle" \/ cmd[w].kind \in {"apply", "delete"}
  /\ cmd[w].pc # "create"
  /\ cmd[w].pc \in {"annotate", "load"} /\ config.state = "ok" => config.rev = cmd[w].given
  /\ cmd[w].pc \in Loaded => cmd[w].conf.rev = cmd[w].given
  /\ cmd[w].pc = "apply" => cmd[w].kind = "apply"
  /\ cmd[w].kind = "apply" =>
       /\ cmd[w].pc \in {"write", "annotate", "load", "init", "sync", "fetch", "platform", "generate"} => kust = NoKust
       /\ cmd[w].pc \in {"copy", "build"} =>
            \A i \in DOMAIN AppsOf(w) : i < cmd[w].at => kust.apps[AppsOf(w)[i]] = OwnApp(w)
       /\ cmd[w].pc \in {"resync", "refetch", "apply"} =>
            \A i \in DOMAIN AppsOf(w) : kust.apps[AppsOf(w)[i]] = OwnApp(w)

OwnInv == mode = "operator" => current = "c1" /\ \A w \in Workers : OwnCmd(w)

\* The manifests of one application are written and those behind it stay.
LEMMA OwnKept ==
  ASSUME DirTypeInv, NEW w \in Workers, cmd[w].pc \in {"copy", "build"}, cmd[w].at \in DOMAIN AppsOf(w), NEW new,
         kust'.apps = [kust.apps EXCEPT ![AppAt(w)] = new],
         NEW i \in DOMAIN AppsOf(w), i < cmd[w].at
  PROVE  kust'.apps[AppsOf(w)[i]] = kust.apps[AppsOf(w)[i]]
<1>1. cmd[w].conf.rev \in Revs /\ cmd[w].at \in Nat /\ DOMAIN AppsOf(w) = 1..Len(AppsOf(w)) /\ Len(AppsOf(w)) \in Nat
      /\ AppsOf(w)[i] \in Apps
  BY LoadedType DEF Loaded, Listed
<1>2. i # cmd[w].at
  BY <1>1
<1>3. AppsOf(w)[i] # AppAt(w)
  BY <1>1, <1>2, DirAssumption DEF AppsOf, AppAt
<1>4. kust.apps \in [Apps -> AppState]
  BY DEF DirTypeInv, KustOK
<1>5. QED
  BY <1>1, <1>3, <1>4

\* A step that leaves the manifests and the configuration of a command alone.
LEMMA OwnGoesOn ==
  ASSUME DirTypeInv, NEW w \in Workers, OwnCmd(w), NEW pc, Moves(w, pc), cmd'[w].conf.rev = cmd[w].conf.rev,
         cmd[w].pc \in Loaded, UNCHANGED kust,
         pc \in Loaded, pc = "apply" => cmd[w].kind = "apply",
         cmd[w].kind = "apply" =>
           /\ pc \in {"init", "sync", "fetch", "platform", "generate"} => cmd[w].pc \in {"init", "sync", "fetch", "platform"}
           /\ pc \notin {"copy", "build"}
           /\ pc \in {"resync", "refetch", "apply"} => cmd[w].pc \in {"resync", "refetch", "apply"}
  PROVE  OwnCmd(w)'
<1>1. /\ cmd'[w].pc = pc /\ cmd'[w].kind = cmd[w].kind /\ cmd'[w].given = cmd[w].given
      /\ AppsOf(w)' = AppsOf(w) /\ OwnApp(w)' = OwnApp(w) /\ kust' = kust
      /\ pc \notin {"write", "annotate", "load", "create"}
  BY DEF Moves, AppsOf, OwnApp, Loaded, Listed
<1>2. cmd'[w].kind \in {"apply", "delete"} /\ cmd'[w].pc # "create" /\ cmd'[w].conf.rev = cmd'[w].given
      /\ (cmd'[w].pc = "apply" => cmd'[w].kind = "apply")
  BY <1>1 DEF OwnCmd, Loaded, Listed
<1>3. cmd[w].kind = "apply" /\ pc \in {"init", "sync", "fetch", "platform", "generate"} => kust = NoKust
  BY DEF OwnCmd
<1>4. cmd[w].kind = "apply" /\ pc \in {"resync", "refetch", "apply"} =>
        \A i \in DOMAIN AppsOf(w) : kust.apps[AppsOf(w)[i]] = OwnApp(w)
  BY DEF OwnCmd
<1>5. QED
  BY <1>1, <1>2, <1>3, <1>4 DEF OwnCmd

LEMMA OwnBegin ==
  ASSUME DirTypeInv, NEW w \in Workers, OwnCmd(w), mode = "operator",
         \/ \E kind \in {"apply", "delete"} : OperatorStart(w, kind)
         \/ \E kind \in {"build", "apply", "delete"}, remote \in BOOLEAN : KfctlStart(w, kind, remote)
         \/ RemoveDir(w) \/ WriteKfDef(w) \/ Annotate(w) \/ CreateConfig(w) \/ Load(w)
  PROVE  OwnCmd(w)'
<1>1. DirCmdOK /\ spec \in Revs /\ spec \in Nat /\ config \in Config /\ (config.state = "ok" => config.rev \in Revs)
  BY RevsType DEF DirTypeInv, DirWorldOK, ConfigOK
<1>2. ASSUME cmd' = [cmd EXCEPT ![w] = NoCmd] PROVE OwnCmd(w)'
  <2>1. cmd'[w] = NoCmd /\ NoCmd.pc = "idle" /\ NoCmd.kind = "none"
    BY <1>1, <1>2 DEF DirCmdOK, NoCmd
  <2>2. QED
    BY <2>1 DEF OwnCmd, Loaded, Listed
<1>3. ~CreateConfig(w) /\ ~(\E kind \in {"build", "apply", "delete"}, remote \in BOOLEAN : KfctlStart(w, kind, remote))
  BY DEF CreateConfig, KfctlStart, AtPC, OwnCmd
<1>4. CASE \E kind \in {"apply", "delete"} : OperatorStart(w, kind)
  <2>1. PICK kind \in {"apply", "delete"} : OperatorStart(w, kind)
    BY <1>4
  <2> DEFINE pc == IF kind = "apply" THEN "remove" ELSE "write"
  <2>2. cmd' = [cmd EXCEPT ![w] = [NoCmd EXCEPT !.kind = kind, !.given = spec, !.pc = pc]]
    BY <2>1 DEF OperatorStart
  <2>3. pc \in {"remove", "write"} /\ (kind = "apply" => pc = "remove")
    OBVIOUS
  <2> HIDE DEF pc
  <2>4. cmd'[w].kind = kind /\ cmd'[w].pc = pc
    BY <1>1, <2>2, <2>3, DirStartType
  <2>5. QED
    BY <2>3, <2>4 DEF OwnCmd, Loaded, Listed
<1>5. CASE RemoveDir(w)
  BY <1>5, EarlyEffect DEF RemoveDir, AtPC, OwnCmd, Keeps, Moves, Loaded, Listed
<1>6. CASE WriteKfDef(w)
  <2>1. cmd[w].pc = "write" /\ Keeps(w, "annotate") /\ config'.rev = cmd[w].given /\ UNCHANGED kust
    BY <1>6, EarlyEffect DEF WriteKfDef, AtPC, NoConfig
  <2>2. QED
    BY <2>1 DEF OwnCmd, Keeps, Moves, Loaded, Listed
<1>7. CASE Annotate(w)
  <2>1. cmd[w].pc = "annotate" /\ Keeps(w, "load") /\ UNCHANGED kust
    BY <1>7, EarlyEffect DEF Annotate, AtPC
  <2>2. config'.state = config.state /\ config'.rev = config.rev
    BY <1>1, <1>7 DEF Annotate, Config
  <2>3. QED
    BY <2>1, <2>2 DEF OwnCmd, Keeps, Moves, Loaded, Listed
<1>8. CASE Load(w)
  <2>1. CASE config.state = "ok" /\ Moves(w, "init") /\ cmd'[w].conf = config
    <3>1. cmd[w].pc = "load" /\ UNCHANGED kust
      BY <1>8 DEF Load, AtPC, dir
    <3>2. QED
      BY <2>1, <3>1 DEF OwnCmd, Moves, Loaded, Listed
  <2>2. QED
    BY <1>2, <1>8, <2>1, EarlyEffect
<1>9. QED
  BY <1>3, <1>4, <1>5, <1>6, <1>7, <1>8

LEMMA OwnEnds ==
  ASSUME DirTypeInv, NEW w \in Workers, cmd'[w] = NoCmd
  PROVE  OwnCmd(w)'
BY DEF OwnCmd, NoCmd, Loaded, Listed

LEMMA OwnSync ==
  ASSUME DirTypeInv, NEW w \in Workers, OwnCmd(w), mode = "operator",
         InitPlatform(w) \/ SyncCache(w) \/ Fetched(w) \/ GeneratePlatform(w)
  PROVE  OwnCmd(w)'
<1>1. /\ UNCHANGED kust /\ cmd[w].pc \in Loaded
      /\ cmd[w].pc \in {"init", "sync", "fetch", "platform", "resync", "refetch"}
      /\ cmd[w].kind \in {"apply", "delete"}
  BY DEF InitPlatform, SyncCache, Fetched, GeneratePlatform, WithPlatform, AtPC, Loaded, Listed, OwnCmd
<1>2. SyncCache(w) \/ Fetched(w) =>
        \/ AfterSync(w) = "platform" /\ cmd[w].pc \in {"sync", "fetch"}
        \/ AfterSync(w) = "check" /\ cmd[w].kind = "delete"
        \/ AfterSync(w) = "apply" /\ cmd[w].kind = "apply" /\ cmd[w].pc \in {"resync", "refetch"}
  BY <1>1 DEF AfterSync, AtPC, SyncCache, Fetched
<1>3. CASE InitPlatform(w) \/ GeneratePlatform(w)
  BY <1>1, <1>3, SyncEffect, OwnGoesOn DEF Keeps, InitPlatform, GeneratePlatform, WithPlatform, AtPC, Loaded, Listed
<1>4. CASE SyncCache(w) /\ Keeps(w, AfterSync(w))
  BY <1>1, <1>2, <1>4, OwnGoesOn DEF Keeps, Loaded, Listed
<1>5. CASE SyncCache(w) /\ Keeps(w, IF AtPC(w, "sync") THEN "fetch" ELSE "refetch")
  <2>1. CASE cmd[w].pc = "sync" /\ Keeps(w, "fetch")
    BY <1>1, <2>1, OwnGoesOn DEF Keeps, Loaded, Listed
  <2>2. CASE cmd[w].pc = "resync" /\ Keeps(w, "refetch")
    BY <1>1, <2>2, OwnGoesOn DEF Keeps, Loaded, Listed
  <2>3. QED
    BY <1>5, <2>1, <2>2 DEF SyncCache, AtPC
<1>6. CASE Fetched(w)
  BY <1>1, <1>2, <1>6, SyncEffect, OwnGoesOn DEF Loaded, Listed
<1>7. QED
  BY <1>1, <1>3, <1>4, <1>5, <1>6, SyncEffect

\* A command that generates, with what it has made so far.
LEMMA OwnMade ==
  ASSUME DirTypeInv, NEW w \in Workers, OwnCmd(w), NEW pc \in {"copy", "build", "resync"}, Keeps(w, pc),
         cmd[w].pc \in Loaded,
         cmd[w].kind = "apply" =>
           \A i \in DOMAIN AppsOf(w) : pc = "resync" \/ i < cmd'[w].at => kust'.apps[AppsOf(w)[i]] = OwnApp(w)
  PROVE  OwnCmd(w)'
<1>1. /\ cmd'[w].pc = pc /\ cmd'[w].kind = cmd[w].kind /\ cmd'[w].given = cmd[w].given
      /\ AppsOf(w)' = AppsOf(w) /\ OwnApp(w)' = OwnApp(w) /\ cmd'[w].conf.rev = cmd[w].conf.rev
  BY DEF Keeps, Moves, AppsOf, OwnApp
<1>2. cmd'[w].kind \in {"apply", "delete"} /\ cmd'[w].conf.rev = cmd'[w].given
  BY <1>1 DEF OwnCmd, Loaded, Listed
<1>3. cmd'[w].kind = "apply" =>
        /\ pc \in {"copy", "build"} =>
             \A i \in DOMAIN AppsOf(w)' : i < cmd'[w].at => kust'.apps[AppsOf(w)'[i]] = OwnApp(w)'
        /\ pc = "resync" => \A i \in DOMAIN AppsOf(w)' : kust'.apps[AppsOf(w)'[i]] = OwnApp(w)'
  BY <1>1
<1>4. QED
  BY <1>1, <1>2, <1>3 DEF OwnCmd

LEMMA OwnGenerate ==
  ASSUME DirTypeInv, NEW w \in Workers, OwnCmd(w), mode = "operator",
         SkipKustomize(w) \/ MakeKustomizeDir(w) \/ CopyApp(w) \/ CopyFails(w) \/ BuildApp(w) \/ AllBuilt(w)
  PROVE  OwnCmd(w)'
<1>1. /\ cmd[w].pc \in Loaded /\ cmd[w].kind # "build" /\ cmd \in [Workers -> Cmd] /\ kust.apps \in [Apps -> AppState]
      /\ cmd[w].conf.rev = cmd[w].given
  BY DEF SkipKustomize, MakeKustomizeDir, CopyApp, CopyFails, BuildApp, AllBuilt, AtPC, Loaded, Listed, OwnCmd,
         DirTypeInv, DirCmdOK, KustOK
<1>2. /\ DOMAIN AppsOf(w) = 1..Len(AppsOf(w)) /\ Len(AppsOf(w)) \in Nat /\ cmd[w].at \in Nat
      /\ \A i \in DOMAIN AppsOf(w) : AppsOf(w)[i] \in Apps
  BY <1>1, LoadedType
<1>3. ASSUME cmd' = [cmd EXCEPT ![w] = NoCmd] PROVE OwnCmd(w)'
  BY <1>1, <1>3, OwnEnds
<1>4. CASE MakeKustomizeDir(w)
  <2>1. Keeps(w, "copy") /\ cmd'[w].at = 1
    BY <1>4, GenerateEffect
  <2>2. \A i \in DOMAIN AppsOf(w) : ~(i < 1)
    BY <1>2
  <2>3. QED
    BY <1>1, <2>1, <2>2, OwnMade
<1>5. CASE CopyApp(w)
  <2>1. Keeps(w, "build") /\ cmd'[w].at = cmd[w].at /\ cmd[w].pc = "copy" /\ cmd[w].at \in DOMAIN AppsOf(w)
    BY <1>5, GenerateEffect DEF CopyApp, AtPC
  <2>2. \A i \in DOMAIN AppsOf(w) : i < cmd[w].at => kust'.apps[AppsOf(w)[i]] = kust.apps[AppsOf(w)[i]]
    BY <1>5, <2>1, OwnKept DEF CopyApp
  <2>3. cmd[w].kind = "apply" =>
          \A i \in DOMAIN AppsOf(w) : i < cmd[w].at => kust'.apps[AppsOf(w)[i]] = OwnApp(w)
    BY <2>1, <2>2 DEF OwnCmd
  <2>4. QED
    BY <1>1, <2>1, <2>3, OwnMade
<1>6. CASE BuildApp(w) /\ ~(cmd' = [cmd EXCEPT ![w] = NoCmd])
  <2>1. /\ Keeps(w, "copy") /\ cmd'[w].at = cmd[w].at + 1 /\ kust.apps[AppAt(w)].state # "none"
        /\ kust' = [kust EXCEPT !.apps[AppAt(w)] = [state |-> "built", rev |-> cmd[w].conf.rev]]
        /\ cmd[w].pc = "build"
    BY <1>6, GenerateEffect DEF BuildApp, AtPC
  <2>2. kust'.apps = [kust.apps EXCEPT ![AppAt(w)] = OwnApp(w)]
    BY <1>1, <2>1 DEF DirTypeInv, KustOK, OwnApp
  <2>3. ASSUME NEW i \in DOMAIN AppsOf(w), i < cmd[w].at + 1, cmd[w].kind = "apply"
        PROVE  kust'.apps[AppsOf(w)[i]] = OwnApp(w)
    <3>1. CASE i = cmd[w].at
      BY <1>1, <1>2, <2>2, <3>1 DEF AppAt
    <3>2. CASE i # cmd[w].at
      <4>1. i < cmd[w].at
        BY <1>2, <2>3, <3>2
      <4>2. kust.apps[AppsOf(w)[i]] = OwnApp(w)
        BY <2>1, <2>3, <4>1 DEF OwnCmd
      <4>3. QED
        BY <1>1, <1>2, <2>2, <4>2
    <3>3. QED
      BY <3>1, <3>2
  <2>4. QED
    BY <1>1, <2>1, <2>3, OwnMade
<1>7. CASE AllBuilt(w) \/ SkipKustomize(w)
  <2>1. CASE Keeps(w, "resync")
    <3>1. UNCHANGED kust
      BY <1>7 DEF AllBuilt, SkipKustomize, dir
    <3>2. ASSUME cmd[w].kind = "apply", NEW i \in DOMAIN AppsOf(w) PROVE kust.apps[AppsOf(w)[i]] = OwnApp(w)
      <4>1. AllBuilt(w)
        BY <1>7, <3>2, NoneType DEF SkipKustomize, AtPC, OwnCmd
      <4>2. cmd[w].pc = "copy" /\ cmd[w].at > Len(AppsOf(w))
        BY <4>1 DEF AllBuilt, AtPC
      <4>3. i < cmd[w].at
        BY <1>2, <4>2
      <4>4. QED
        BY <3>2, <4>2, <4>3 DEF OwnCmd
    <3>3. QED
      BY <1>1, <2>1, <3>1, <3>2, OwnMade
  <2>2. QED
    BY <1>3, <1>7, <2>1, GenerateEffect DEF AllBuilt, SkipKustomize
<1>8. QED
  BY <1>3, <1>4, <1>5, <1>6, <1>7, GenerateEffect

LEMMA OwnCluster ==
  ASSUME DirTypeInv, NEW w \in Workers, OwnCmd(w), mode = "operator",
         \/ ApplyApp(w) \/ AllApplied(w) \/ SaveConfig(w)
         \/ CheckCluster(w) \/ DeleteApp(w) \/ AppsDeleted(w) \/ DeletePlatform(w) \/ Fault(w)
  PROVE  OwnCmd(w)'
<1>1. ASSUME cmd' = [cmd EXCEPT ![w] = NoCmd] PROVE OwnCmd(w)'
  BY <1>1, OwnEnds DEF DirTypeInv, DirCmdOK
<1>2. CASE ~(cmd' = [cmd EXCEPT ![w] = NoCmd])
  <2>1. ApplyApp(w) \/ AllApplied(w) \/ CheckCluster(w) \/ DeleteApp(w) \/ AppsDeleted(w)
    BY <1>2, ClusterEffect
  <2>2. UNCHANGED kust /\ cmd[w].pc \in Loaded
    BY <2>1 DEF ApplyApp, AllApplied, CheckCluster, DeleteApp, AppsDeleted, dir, AtPC, Loaded, Listed
  <2>3. CASE ApplyApp(w)
    <3>1. Keeps(w, "apply") /\ cmd[w].pc = "apply"
      BY <1>2, <2>3, ClusterEffect DEF ApplyApp, AtPC
    <3>2. cmd[w].kind = "apply"
      BY <3>1 DEF OwnCmd
    <3>3. QED
      BY <2>2, <3>1, <3>2, OwnGoesOn DEF Keeps, Loaded, Listed
  <2>4. CASE AllApplied(w)
    <3>1. Moves(w, "save") /\ cmd'[w].conf.rev = cmd[w].conf.rev
      BY <2>4, ClusterEffect
    <3>2. QED
      BY <2>2, <3>1, OwnGoesOn DEF Loaded, Listed
  <2>5. CASE CheckCluster(w) \/ DeleteApp(w) \/ AppsDeleted(w)
    <3>1. PICK pc \in {"delete", "platform gone"} : Keeps(w, pc)
      BY <1>2, <2>5, ClusterEffect
    <3>2. QED
      BY <2>2, <3>1, OwnGoesOn DEF Keeps, Loaded, Listed
  <2>6. QED
    BY <2>1, <2>3, <2>4, <2>5
<1>3. QED
  BY <1>1, <1>2

LEMMA OwnStep ==
  ASSUME OneWorker, DirTypeInv, OwnInv, [DirNext]_dirVars
  PROVE  OwnInv'
<1> SUFFICES ASSUME mode = "operator", current = "c1", \A w \in Workers : OwnCmd(w)
             PROVE  current' = "c1" /\ \A w \in Workers : OwnCmd(w)'
  BY WorldSteps DEF OwnInv
<1>1. CASE DirCrash
  BY <1>1, OwnEnds DEF DirCrash
<1>2. CASE UNCHANGED dirVars \/ \E r \in Revs : Edit(r)
  <2>1. UNCHANGED <<cmd, config, kust, current>>
    BY <1>2 DEF dirVars, dir, Edit
  <2>2. QED
    BY <2>1 DEF OwnCmd, AppsOf, OwnApp
<1>3. ~RemoveByHand /\ ~SwitchContext
  BY DEF RemoveByHand, SwitchContext
<1>4. ASSUME NEW w \in Workers, DirStep(w), \A v \in Workers : v = w
      PROVE  current' = "c1" /\ OwnCmd(w)'
  <2>1. OwnCmd(w)'
    BY <1>4, OwnBegin, OwnSync, OwnGenerate, OwnCluster DEF DirStep
  <2>2. current' = current \/ cmd[w].pc = "idle"
    BY WorldSteps
  <2>3. current' = current
    BY <1>4 DEF DirStep, OperatorStart, KfctlStart, RemoveDir, WriteKfDef, Annotate, CreateConfig, Load,
       InitPlatform, GeneratePlatform, WithPlatform, SyncCache, Fetched, SkipKustomize, MakeKustomizeDir,
       CopyApp, CopyFails, BuildApp, AllBuilt, ApplyApp, AllApplied, SaveConfig, CheckCluster, DeleteApp,
       AppsDeleted, DeletePlatform, Fault
  <2>4. QED
    BY <2>1, <2>3
<1>5. QED
  BY <1>1, <1>2, <1>3, <1>4, OneSteps

\* What an apply of the operator sends is made from the revision its Reconcile
\* has read, whatever an earlier one or a crash has left (Reconcile and
\* kfLoadConfig, kfdef_controller.go; Generate and Apply, kustomize.go).
THEOREM OwnRevisionIsApplied ==
  ASSUME OneWorker
  PROVE  DirSpec => AppliesOwnRevision
<1>1. DirInit => DirTypeInv /\ OwnInv
  <2>1. DirInit => OwnInv
    <3> SUFFICES ASSUME DirInit, NEW w \in Workers PROVE OwnCmd(w)
      BY DEF DirInit, OwnInv
    <3>1. cmd[w] = NoCmd /\ NoCmd.pc = "idle"
      BY DEF DirInit, NoCmd
    <3>2. QED
      BY <3>1 DEF OwnCmd, Loaded, Listed
  <2>2. QED
    BY <2>1, DirInitType
<1>2. DirTypeInv /\ OwnInv /\ [DirNext]_dirVars => (DirTypeInv /\ OwnInv)'
  BY DirNextType, OwnStep
<1>3. DirTypeInv /\ OwnInv /\ [DirNext]_dirVars =>
        [\A a \in Apps :
           mode = "operator" /\ applied'["c1"][a] \notin {NoApp, applied["c1"][a]} =>
             \E w \in Workers : cmd[w].kind = "apply" /\
               applied'["c1"][a] = [state |-> "built", rev |-> cmd[w].given]]_dirVars
  <2> SUFFICES ASSUME DirTypeInv, OwnInv, [DirNext]_dirVars, NEW a \in Apps,
                      mode = "operator", applied'["c1"][a] # NoApp, applied'["c1"][a] # applied["c1"][a]
               PROVE  \E w \in Workers : cmd[w].kind = "apply" /\
                        applied'["c1"][a] = [state |-> "built", rev |-> cmd[w].given]
    OBVIOUS
  <2>1. PICK w \in Workers : ApplyApp(w) \/ DeleteApp(w)
    BY AppliedSteps
  <2>2. current = "c1" /\ OwnCmd(w) /\ applied \in [Contexts -> [Apps -> AppState]] /\ current \in Contexts
    BY DEF OwnInv, DirTypeInv, DirWorldOK
  <2>3. CASE DeleteApp(w)
    <3>1. UNCHANGED applied \/ applied' = [applied EXCEPT ![current][LastFirst(w)] = NoApp]
      BY <2>3 DEF DeleteApp
    <3>2. QED
      BY <2>2, <3>1
  <2>4. CASE ApplyApp(w)
    <3>1. /\ cmd[w].pc = "apply" /\ cmd[w].at \in DOMAIN AppsOf(w)
          /\ UNCHANGED applied \/ applied' = [applied EXCEPT ![current][AppAt(w)] = kust.apps[AppAt(w)]]
      BY <2>4 DEF ApplyApp, AtPC
    <3>2. cmd[w].kind = "apply" /\ kust.apps[AppAt(w)] = OwnApp(w)
      BY <2>2, <3>1 DEF OwnCmd, AppAt
    <3>3. applied'["c1"][a] = OwnApp(w)
      BY <2>2, <3>1, <3>2
    <3>4. QED
      BY <3>2, <3>3 DEF OwnApp
  <2>5. QED
    BY <2>1, <2>3, <2>4
<1>4. QED
  BY <1>1, <1>2, <1>3, PTL DEF DirSpec, AppliesOwnRevision
=============================================================================
