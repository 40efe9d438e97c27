------------------------------- MODULE KfMerge -------------------------------
(***************************************************************************)
(* Generating an application without stacks (MergeKustomizations,          *)
(* MergeKustomization and GenerateKustomizationFile,                       *)
(* pkg/kfapp/kustomize/kustomize.go): the kustomizations of the base and   *)
(* of the overlays the KfDef selects become one, in which a directory      *)
(* either is a base or has its entries listed.  What kustomize then makes  *)
(* of the one is written down as Result, for comparison.                   *)
(***************************************************************************)
EXTENDS Naturals, Sequences, FiniteSets, SequencesExt

CONSTANTS
  Components,   \* applications as they are in the manifests, dir -> kustomization
  KfParameters  \* the parameters the KfDef may give to an application

NoFiles == <<>>
MergeDirs == UNION {DOMAIN c : c \in Components}

\* A kustomization: names of bases, files of resources and of strategic
\* patches, JSON patches with their target, images, generators and prefix, and
\* the names in the params.env next to it.
Kustomization ==
  [bases : Seq(MergeDirs), resources : Seq(STRING), patches : Seq(STRING),
   json : Seq([file : STRING, name : STRING, kind : STRING]),
   images : Seq([name : STRING, to : STRING]),
   maps : Seq([name : STRING, create : BOOLEAN, files : Seq(STRING)]),
   prefix : STRING, env : SUBSET STRING]

\* An application builds on its own directories.
ASSUME MergeAssumption ==
  /\ IsFiniteSet(MergeDirs)
  /\ \A c \in Components :
       "base" \in DOMAIN c /\ \A d \in DOMAIN c : c[d] \in Kustomization /\ ToSet(c[d].bases) \subseteq DOMAIN c

VARIABLES
  comp,      \* the application that is generated
  selected,  \* the overlays of the KfDef
  given,     \* its parameters
  parent,    \* the kustomization under construction
  known,     \* basesMap: directories that need not become bases any more
  env,       \* the values in the params.env of each directory
  mergeAt,   \* how many of the directories are merged
  merged     \* "working", then "written" or "failed"

mergeVars == <<comp, selected, given, parent, known, env, mergeAt, merged>>

EmptyParent == [bases |-> <<>>, resources |-> <<>>, patches |-> <<>>, json |-> <<>>,
                images |-> <<>>, maps |-> <<>>, prefix |-> "", namespace |-> ""]

\* Any selection of overlays, each once, in any order, also one that is not there.
MergeInit ==
  /\ comp \in Components
  /\ LET overlays == (DOMAIN comp \ {"base"}) \cup {"missing"}
     IN selected \in UNION {{s \in [1..n -> overlays] : \A i, j \in 1..n : s[i] = s[j] => i = j} :
                              n \in 0..Cardinality(overlays) - 1}
  /\ given \in KfParameters
  /\ parent = EmptyParent
  /\ known = {}
  /\ env = [d \in DOMAIN comp |-> [v \in comp[d].env |-> "shipped"]]
  /\ mergeAt = 0
  /\ merged = "working"

-----------------------------------------------------------------------------

\* What is at some positions of a list, in its order.
KeptAt(seq, positions) ==
  LET kept[i \in 0..Len(seq)] ==
        IF i = 0 THEN <<>> ELSE IF i \in positions THEN Append(kept[i - 1], seq[i]) ELSE kept[i - 1]
  IN kept[Len(seq)]

\* Appends what has a key that is not there yet.
AddBy(Key(_), seq, new) ==
  seq \o KeptAt(new, {i \in DOMAIN new :
                        \A x \in ToSet(seq) \cup {new[j] : j \in 1..i - 1} : Key(x) # Key(new[i])})
Itself(x) == x
Name(x)   == x.name
PathAndName(x) == <<x.path, x.name>>
InDir(d, fs)   == [i \in DOMAIN fs |-> <<d, fs[i]>>]

\* updateParamFiles: the KfDef's value if it has one, else its namespace.
UpdateParamFile(d) ==
  [v \in DOMAIN env[d] |-> IF v \in DOMAIN given /\ given[v] # "" THEN given[v]
                           ELSE IF v = "namespace" THEN "own" ELSE env[d][v]]

\* updateGeneratorArgs, updateConfigMapArgs: of its files the last one is left,
\* as an environment file.
UpdateMap(d, g) ==
  [name |-> g.name, create |-> g.create, files |-> NoFiles,
   env |-> IF g.files = <<>> THEN <<>> ELSE <<d, Last(g.files)>>]
AddMap(seq, m) ==
  IF m.create /\ \E i \in DOMAIN seq : seq[i].name = m.name THEN seq ELSE Append(seq, m)

\* Mutant: a base is added for every directory that names it.
EveryBase(d) == comp[d].bases

\* The bases of a directory; one that builds on a known directory is known, too.
KnownBefore(d, i) == known \cup {comp[d].bases[j] : j \in 1..i - 1}
OldBases(d) == {i \in DOMAIN comp[d].bases : comp[d].bases[i] \in KnownBefore(d, i)}
NewBases(d) == KeptAt(comp[d].bases, DOMAIN comp[d].bases \ OldBases(d))
KnownAfter(d) == known \cup ToSet(comp[d].bases) \cup (IF OldBases(d) = {} THEN {} ELSE {d})

\* The entries of a directory with bases, each kind with its own key.
MergeEntries(d) ==
  LET child == comp[d]
      Patch(p) == [path |-> <<d, p.file>>, name |-> p.name, kind |-> p.kind]
  IN [parent EXCEPT
        !.bases = @ \o NewBases(d),
        !.prefix = IF @ = "" THEN child.prefix ELSE @,
        !.resources = AddBy(Itself, @, InDir(d, child.resources)),
        !.images = AddBy(Name, @, child.images),
        !.maps = FoldLeft(AddMap, @, [i \in DOMAIN child.maps |-> UpdateMap(d, child.maps[i])]),
        !.patches = AddBy(Itself, @, InDir(d, child.patches)),
        !.json = AddBy(PathAndName, @, [i \in DOMAIN child.json |-> Patch(child.json[i])])]

\* MergeKustomization: a directory without bases becomes a base.
MergeKustomization(d) ==
  /\ env' = [env EXCEPT ![d] = UpdateParamFile(d)]
  /\ IF comp[d].bases = <<>>
     THEN /\ parent' = IF d \in known THEN parent ELSE [parent EXCEPT !.bases = Append(@, d)]
          /\ known' = known \cup {d}
     ELSE parent' = MergeEntries(d) /\ known' = KnownAfter(d)

\* MergeKustomizations: the base, then the overlays as they are listed.
MergeNext ==
  LET d == IF mergeAt = 0 THEN "base" ELSE selected[mergeAt]
  IN /\ merged = "working" /\ mergeAt <= Len(selected)
     /\ IF d \in DOMAIN comp
        THEN MergeKustomization(d) /\ mergeAt' = mergeAt + 1 /\ UNCHANGED merged
        ELSE merged' = "failed" /\ UNCHANGED <<parent, known, env, mergeAt>>
     /\ UNCHANGED <<comp, selected, given>>

\* The JSON patches of one target go into one file, one after the other; the
\* targets are met in the order of a Go map.
Aggregated(order) ==
  LET Of(t) == KeptAt(parent.json, {i \in DOMAIN parent.json : <<parent.json[i].name, parent.json[i].kind>> = t})
  IN [i \in DOMAIN order |-> [target |-> order[i],
                              parts |-> [j \in DOMAIN Of(order[i]) |-> Of(order[i])[j].path]]]

\* GenerateKustomizationFile: the namespace is the KfDef's if no parameter says
\* otherwise; the base has to have a file named like the first strategic patch.
WriteMerged ==
  /\ merged = "working" /\ mergeAt = Len(selected) + 1
  /\ LET targets == {<<p.name, p.kind>> : p \in ToSet(parent.json)}
     IN \E order \in {s \in [1..Cardinality(targets) -> targets] : ToSet(s) = targets} :
          parent' = [parent EXCEPT
            !.json = Aggregated(order),
            !.namespace = IF "namespace" \in DOMAIN given /\ given["namespace"] # ""
                          THEN given["namespace"] ELSE "own"]
  /\ merged' = IF parent.patches # <<>> /\ parent.patches[1][2] \notin ToSet(comp["base"].resources)
               THEN "failed" ELSE "written"
  /\ UNCHANGED <<comp, selected, given, known, env, mergeAt>>

MergeStep == MergeNext \/ WriteMerged

MergeTypeOK ==
  /\ comp \in Components /\ given \in KfParameters
  /\ known \subseteq DOMAIN comp /\ mergeAt \in 0..Len(selected) + 1
  /\ merged \in {"working", "written", "failed"}
  /\ ToSet(parent.bases) \subseteq known
  /\ DOMAIN env = DOMAIN comp

-----------------------------------------------------------------------------
(* Properties *)

\* What kustomize makes of a directory: what its bases make, and its own files.
Built[n \in 0..Cardinality(MergeDirs)] ==
  [d \in DOMAIN comp |->
     IF n = 0 THEN <<>>
     ELSE FlattenSeq([i \in DOMAIN comp[d].bases |-> Built[n - 1][comp[d].bases[i]]])
          \o InDir(d, comp[d].resources)]
Result ==
  FlattenSeq([i \in DOMAIN parent.bases |-> Built[Cardinality(MergeDirs)][parent.bases[i]]])
  \o parent.resources

\* Each overlay that builds on another comes after it.
BaseFirst ==
  \A i \in DOMAIN selected : \A b \in ToSet(comp[selected[i]].bases) :
    b = "base" \/ \E j \in 1..i - 1 : selected[j] = b

Chosen == {"base"} \cup ToSet(selected)

\* The file of a patch of the i-th overlay is in the aggregate of its target once,
\* and only files of later overlays come after it.
PatchInOrder(i, p) ==
  \E k \in DOMAIN parent.json :
    LET parts == parent.json[k].parts
    IN /\ parent.json[k].target = <<p.name, p.kind>>
       /\ \E m \in DOMAIN parts :
            /\ parts[m] = <<selected[i], p.file>>
            /\ \A l \in DOMAIN parts \ {m} :
                 /\ parts[l] # parts[m]
                 /\ l > m => \E j \in i..Len(selected) : parts[l][1] = selected[j]

\* If overlays come after those they build on, the one kustomization has every
\* resource of the directories that are chosen, and none twice, which kustomize
\* would refuse; every JSON patch of an overlay that has bases once, behind those
\* of the overlays before it; and the namespace that the parameters in the chosen
\* directories name is the one it puts the resources in (MergeKustomizations,
\* GenerateKustomizationFile, kustomize.go).
MergedOnce ==
  merged = "written" /\ BaseFirst =>
    /\ \A i, j \in DOMAIN Result : Result[i] = Result[j] => i = j
    /\ ToSet(Result) = UNION {ToSet(InDir(d, comp[d].resources)) : d \in Chosen}
    /\ \A i \in DOMAIN selected : comp[selected[i]].bases # <<>> =>
         \A p \in ToSet(comp[selected[i]].json) : PatchInOrder(i, p)
    /\ \A d \in Chosen : "namespace" \in DOMAIN env[d] => env[d]["namespace"] = parent.namespace

\* What the manifests have to be like for it: a base builds on nothing, for what
\* it builds on would be added again by each overlay on it; no directory lists a
\* file twice, nor names one JSON patch file for two kinds of one name, of which
\* the second would be dropped.
Mergeable ==
  \A c \in Components :
    /\ c["base"].bases = <<>>
    /\ \A d \in DOMAIN c :
         /\ IsInjective(c[d].resources)
         /\ \A p, q \in ToSet(c[d].json) : p.file = q.file /\ p.name = q.name => p.kind = q.kind
=============================================================================
