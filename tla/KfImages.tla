------------------------------- MODULE KfImages -------------------------------
(***************************************************************************)
(* The images of the generated manifests: kfctl alpha mirror build and     *)
(* overwrite (pkg/mirror/mirror_image.go), which copy images to another    *)
(* registry by a Tekton pipeline and then use the copies, and kfctl alpha  *)
(* set-image-name (cmd/kfctl/cmd/set-image-name.go), which prints what the *)
(* user has to copy.  A name is a host, whether a port follows it, and the *)
(* parts of the path; running the pipeline and copying are external.       *)
(***************************************************************************)
EXTENDS Naturals, Sequences, FiniteSets, SequencesExt

CONSTANTS
  Shipped,      \* directories of kustomizations -> their image entries
  Links,        \* -> the directories each refers to
  Walked,       \* those below the directory kustomize
  Retagged,     \* the tags another edition of the manifests has
  Patterns,     \* of the replication: destination, include and exclude
  Prefix,       \* of set-image-name, with its filter and flatten
  ImageLimit    \* bounds of the model: how often each event happens

ImageEventKinds == {"commands", "stops", "editions", "runs"}
ImageDirs == DOMAIN Shipped
Original(e) == [name |-> IF e.to = <<>> THEN e.name ELSE e.to[1], tag |-> e.tag, digest |-> e.digest]

ASSUME ImageAssumption ==
  /\ Walked \subseteq ImageDirs /\ DOMAIN Links = ImageDirs
  /\ \A d \in ImageDirs : Links[d] \subseteq ImageDirs
  /\ ImageLimit \in [ImageEventKinds -> Nat]

VARIABLES
  tree,     \* the kustomizations' image entries now, with the image they stood for
  gone,     \* directories whose kustomization.yaml was removed
  file,     \* the pipeline: new image -> old image
  copied,   \* the tasks of it that have run
  registry, \* image -> the original whose content it has
  mapping,  \* imageMapping of the command that runs
  printed,  \* what set-image-name has printed: <<new, old>>
  tool,     \* the command that runs, "none"
  todo,     \* the directories it has still to visit
  imageUsed

imageVars == <<tree, gone, file, copied, registry, mapping, printed, tool, todo, imageUsed>>

ImageOnce(k) == imageUsed[k] < ImageLimit[k] /\ imageUsed' = [imageUsed EXCEPT ![k] = @ + 1]

Ghosted(seq) ==
  [i \in DOMAIN seq |-> [name |-> seq[i].name, to |-> seq[i].to, tag |-> seq[i].tag,
                         digest |-> seq[i].digest, orig |-> Original(seq[i])]]
Editions == {Shipped} \cup
  {[d \in ImageDirs |-> [i \in DOMAIN Shipped[d] |->
      IF Shipped[d][i].tag = "" THEN Shipped[d][i] ELSE [Shipped[d][i] EXCEPT !.tag = t]]] : t \in Retagged}
Entries   == UNION {UNION {ToSet(s[d]) : d \in ImageDirs} : s \in Editions}
Originals == {Original(e) : e \in Entries}

ImageInit ==
  /\ tree = [d \in ImageDirs |-> Ghosted(Shipped[d])]
  /\ gone = {} /\ file = <<>> /\ copied = {} /\ mapping = <<>> /\ printed = {}
  /\ registry = [r \in Originals |-> r]
  /\ tool = "none" /\ todo = {}
  /\ imageUsed = [k \in ImageEventKinds |-> 0]

-----------------------------------------------------------------------------
(* kfctl alpha mirror build *)

\* processKustomizeDir: registry/name of an entry that has one of tag and digest.
CurName(e)   == IF e.to = <<>> THEN e.name ELSE e.to[1]
HasPrefix(n, h) == h = "" \/ n.host = h
Exact(e)     == (e.tag = "") # (e.digest = "")
Matches(p, e) ==
  /\ p.exclude = "" \/ ~HasPrefix(CurName(e), p.exclude)
  /\ HasPrefix(CurName(e), p.include)
  /\ Exact(e)
Under(dest, n) ==
  [host |-> dest.host, port |-> dest.port,
   path |-> dest.path \o (IF n.host = "" THEN <<>> ELSE <<n.host>>) \o n.path]
Image(n, e) == [name |-> n, tag |-> e.tag, digest |-> e.digest]

\* fillTasks visits the directories below its own, and from each those it refers to.
Visited(ds) == ds \cup UNION {Links[d] : d \in ds}
Tasks ==
  UNION {{<<Image(Under(p.dest, e.name), e), Image(CurName(e), e)>> :
            e \in {g \in UNION {ToSet(tree[d]) : d \in Visited(Walked) \ gone} : Matches(p, g)}} :
           p \in Patterns}
News(ts) == {t[1] : t \in ts}

\* GenerateMirroringPipeline: for one new image the last old one met is kept.
MirrorBuild ==
  /\ tool = "none" /\ ImageOnce("commands")
  /\ file' \in {f \in [News(Tasks) -> {t[2] : t \in Tasks}] : \A n \in DOMAIN f : <<n, f[n]>> \in Tasks}
  /\ copied' = {}
  /\ UNCHANGED <<tree, gone, registry, mapping, printed, tool, todo>>

\* External: a task of the pipeline copies its image, once it can pull it.
RunTask(n) ==
  /\ n \in DOMAIN file \ copied /\ file[n] \in DOMAIN registry
  /\ ImageOnce("runs")
  /\ registry' = [r \in DOMAIN registry \cup {n} |-> IF r = n THEN registry[file[n]] ELSE registry[r]]
  /\ copied' = copied \cup {n}
  /\ UNCHANGED <<tree, gone, file, mapping, printed, tool, todo>>

-----------------------------------------------------------------------------
(* kfctl alpha mirror overwrite *)

\* UpdateKustomize reads the pipeline; of the new images of an old one the last
\* in the file is kept.
ReadPipeline ==
  /\ tool = "none" /\ ImageOnce("commands")
  /\ DOMAIN file # {} /\ Walked \ gone # {}
  /\ LET olds == {file[n] : n \in DOMAIN file}
     IN mapping' \in {m \in [olds -> DOMAIN file] : \A o \in olds : file[m[o]] = o}
  /\ tool' = "overwrite" /\ todo' = Walked \ gone
  /\ UNCHANGED <<tree, gone, file, copied, registry, printed>>

\* Drops what follows the first colon: of a port, of the digest's algorithm or
\* of the tag; without any of them, what follows the @.
DropVersion(r) ==
  IF r.name.port THEN [host |-> r.name.host, port |-> FALSE, path |-> <<>>]
  ELSE IF r.tag # "" THEN r.name
  ELSE [r.name EXCEPT !.path = [@ EXCEPT ![Len(@)] = "image@sha256"]]

\* Mutant: the image is looked up by its name, whatever the version.
RewriteByName(e) ==
  LET olds == {r \in DOMAIN mapping : r.name.path = e.name.path}
  IN IF Exact(e) /\ olds # {} THEN [e EXCEPT !.to = <<DropVersion(mapping[CHOOSE r \in olds : TRUE])>>] ELSE e

Rewrite(e) ==
  LET old == Image(CurName(e), e)
  IN IF Exact(e) /\ old \in DOMAIN mapping THEN [e EXCEPT !.to = <<DropVersion(mapping[old])>>] ELSE e

\* The kustomization.yaml of one directory is rewritten.
Overwrite(d) ==
  /\ tool = "overwrite" /\ d \in todo
  /\ tree' = [tree EXCEPT ![d] = [i \in DOMAIN @ |-> Rewrite(@[i])]]
  /\ todo' = todo \ {d}
  /\ tool' = IF todo' = {} THEN "none" ELSE tool
  /\ UNCHANGED <<gone, file, copied, registry, mapping, printed, imageUsed>>

-----------------------------------------------------------------------------
(* kfctl alpha set-image-name *)

StartSetName ==
  /\ tool = "none" /\ ImageOnce("commands")
  /\ ImageDirs \ gone # {}
  /\ tool' = "names" /\ todo' = ImageDirs \ gone
  /\ UNCHANGED <<tree, gone, file, copied, registry, mapping, printed>>

\* setImageName, imageToString: the prefix instead of the host; with flatten
\* only the last part of the path is left.
SetImageName(n) ==
  [host |-> Prefix.host, port |-> Prefix.port,
   path |-> Prefix.path \o (IF Prefix.flatten THEN <<Last(n.path)>> ELSE n.path)]
Named(e) == IF HasPrefix(e.name, Prefix.filter) THEN [e EXCEPT !.to = <<SetImageName(e.name)>>] ELSE e

\* The file is removed, then written anew.
RemoveKustomization(d) ==
  /\ tool = "names" /\ d \in todo \ gone
  /\ todo \cap gone = {}
  /\ gone' = gone \cup {d}
  /\ printed' = printed \cup {<<Image(CurName(Named(e)), e), Image(CurName(e), e)>> :
                                e \in {g \in ToSet(tree[d]) : HasPrefix(g.name, Prefix.filter)}}
  /\ UNCHANGED <<tree, file, copied, registry, mapping, tool, todo, imageUsed>>
WriteKustomization(d) ==
  /\ tool = "names" /\ d \in todo \cap gone
  /\ gone' = gone \ {d}
  /\ tree' = [tree EXCEPT ![d] = [i \in DOMAIN @ |-> Named(@[i])]]
  /\ todo' = todo \ {d}
  /\ tool' = IF todo' = {} THEN "none" ELSE tool
  /\ UNCHANGED <<file, copied, registry, mapping, printed, imageUsed>>

\* External: the user copies an image as printed.
CopyPrinted(p) ==
  /\ p \in printed /\ p[2] \in DOMAIN registry /\ p[1] \notin DOMAIN registry
  /\ ImageOnce("runs")
  /\ registry' = [r \in DOMAIN registry \cup {p[1]} |-> IF r = p[1] THEN registry[p[2]] ELSE registry[r]]
  /\ UNCHANGED <<tree, gone, file, copied, mapping, printed, tool, todo>>

\* A command is interrupted.
StopTool ==
  /\ tool # "none" /\ ImageOnce("stops")
  /\ tool' = "none" /\ todo' = {}
  /\ UNCHANGED <<tree, gone, file, copied, registry, mapping, printed>>

\* External: the manifests are generated anew, in an edition of theirs.
Regenerate ==
  /\ tool = "none" /\ ImageOnce("editions")
  /\ \E s \in Editions : tree' = [d \in ImageDirs |-> Ghosted(s[d])]
  /\ gone' = {}
  /\ UNCHANGED <<file, copied, registry, mapping, printed, tool, todo>>

ImageStep ==
  \/ MirrorBuild \/ ReadPipeline \/ StartSetName \/ StopTool \/ Regenerate
  \/ \E d \in ImageDirs : Overwrite(d) \/ RemoveKustomization(d) \/ WriteKustomization(d)
  \/ \E n \in DOMAIN file : RunTask(n)
  \/ \E p \in printed : CopyPrinted(p)

ImageTypeOK ==
  /\ DOMAIN tree = ImageDirs /\ gone \subseteq ImageDirs
  /\ copied \subseteq DOMAIN file
  /\ \A r \in DOMAIN registry : registry[r] \in Originals
  /\ tool \in {"none", "overwrite", "names"} /\ todo \subseteq ImageDirs
  /\ (tool = "none") = (todo = {})

-----------------------------------------------------------------------------
(* Properties *)

\* An entry names no image with another content than the one it stood for.
ContentAgrees ==
  \A d \in ImageDirs : \A e \in ToSet(tree[d]) :
    Image(CurName(e), e) \in DOMAIN registry => registry[Image(CurName(e), e)] = e.orig

\* One with a tag names an image that is there, or that the pipeline makes or the
\* user was told to copy.
ImagesAccountedFor ==
  \A d \in ImageDirs \ gone : \A e \in ToSet(tree[d]) :
    e.tag # "" => Image(CurName(e), e) \in DOMAIN registry \cup DOMAIN file \cup News(printed)

\* Through builds, overwrites, renamings and interruptions of them, and whichever
\* copies have been made, the entries name what they stood for, and nothing that
\* nobody makes (GenerateMirroringPipeline, UpdateKustomize, mirror_image.go;
\* setImageName, set-image-name.go).
MirrorAgrees == ContentAgrees /\ ImagesAccountedFor

-----------------------------------------------------------------------------
(* What the constants have to be like for them *)

\* The images an entry of the manifests may come to name: its own, its copies, and
\* what is left of a copy's name once it is cut.
CopyOf(p, r)  == Image(Under(p.dest, r.name), r)
TargetsOf(r)  == {CopyOf(p, r) : p \in Patterns} \cup {Image(SetImageName(r.name), r)}
ImagesOf(r)   == {Original(r)} \cup TargetsOf(r) \cup {Image(DropVersion(CopyOf(p, r)), r) : p \in Patterns}

\* No two images come to be named alike, as two are when a destination with a port
\* is cut, or when only the last part of their names is kept.
Unambiguous == \A r, s \in Entries : ImagesOf(r) \cap ImagesOf(s) # {} => Original(r) = Original(s)

\* A pattern that takes an image with a tag takes its copy, too, so that a pipeline
\* that is built anew before it has run has the copy again; and no such copy is cut.
RenamesOf(r) == {CurName(r), SetImageName(r.name)} \cup {Under(p.dest, r.name) : p \in Patterns}
Rebuildable ==
  /\ \A r, s \in Entries : Original(r) = Original(s) => r.name = s.name
  /\ \A p \in Patterns, r \in Entries :
       r.tag # "" /\ (\E n \in RenamesOf(r) : HasPrefix(n, p.include)) =>
         /\ ~p.dest.port
         /\ HasPrefix(p.dest, p.include)
         /\ p.exclude = "" \/ ~HasPrefix(p.dest, p.exclude)
=============================================================================
