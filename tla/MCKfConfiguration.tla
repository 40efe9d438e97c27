-------------------------- MODULE MCKfConfiguration --------------------------
(* KfConfiguration with small files, and a few commands on each. *)
EXTENDS KfConfiguration, TLC

\* Applications: overlays a and b on the base, c on a, n by itself.
Empty == [bases |-> <<>>, resources |-> <<>>, patches |-> <<>>, json |-> <<>>, images |-> <<>>,
          maps |-> <<>>, prefix |-> "", env |-> {}]
Json(f, n, k) == [file |-> f, name |-> n, kind |-> k]
MCComponents ==
  {("base" :> [Empty EXCEPT !.resources = <<"dep", "svc">>, !.env = {"namespace", "user"},
                            !.maps = <<[name |-> "cfg", create |-> TRUE, files |-> <<"f1", "f2">>]>>])
   @@ ("a" :> [Empty EXCEPT !.bases = <<"base">>, !.resources = <<"vs">>, !.env = {"namespace"},
                            !.json = <<Json("p", "dep", "Deployment"), Json("q", "svc", "Service")>>,
                            !.images = <<[name |-> "i", to |-> "x"]>>])
   @@ ("b" :> [Empty EXCEPT !.bases = <<"base">>, !.resources = <<"app">>, !.patches = <<"dep">>,
                            !.json = <<Json("p", "dep", "Deployment")>>,
                            !.images = <<[name |-> "i", to |-> "y"]>>,
                            !.maps = <<[name |-> "cfg", create |-> FALSE, files |-> <<"f">>]>>])
   @@ ("c" :> [Empty EXCEPT !.bases = <<"a">>, !.patches = <<"other">>, !.prefix = "c-",
                            !.json = <<Json("r", "dep", "Deployment")>>])
   @@ ("n" :> [Empty EXCEPT !.resources = <<"more">>, !.env = {"user"}])}
MCKfParameters == {<<>>, [user |-> "me"], [namespace |-> "ns", user |-> ""]}

\* KfDefs of one stack, and of applications of their own.
App(n, overlays, params) == [name |-> n, path |-> n, overlays |-> overlays, params |-> params]
MCKfDefFiles ==
  {[apps |-> <<App("kubeflow-apps", <<>>, <<>>), App("dex", <<>>, <<>>)>>,
    plugins |-> <<[name |-> "AWS", spec |-> "v1"]>>, secrets |-> <<>>],
   [apps |-> <<App("dex", <<"o1">>, <<>>), App("jupyter", <<"o1">>, <<[name |-> "p", value |-> "v1"]>>)>>,
    plugins |-> <<>>, secrets |-> <<[name |-> "s", source |-> <<"literal", "v1">>]>>]}
MCStackOf == [a \in {"kubeflow-apps", "jupyter", "dex"} |-> IF a = "jupyter" THEN "kubeflow-apps" ELSE a]
MCSettingLimit == [k \in SettingEventKinds |-> CASE k = "settings" -> 3 [] k = "loads" -> 2 [] OTHER -> 1]

MCUpgradeLimit == [k \in UpgradeEventKinds |-> 2]

\* Images of the generated manifests, by tag and by digest, and of the cache.
Registry(h, p)     == [host |-> h, port |-> FALSE, path |-> p]
Entry(n, to, t, d) == [name |-> n, to |-> to, tag |-> t, digest |-> d]
Notebook == Registry("gcr.io", <<"kubeflow", "notebook">>)
MCShipped ==
  [k |-> <<Entry(Notebook, <<>>, "1", ""), Entry(Registry("quay.io", <<"dex">>), <<>>, "", "sum")>>,
   s |-> <<Entry(Registry("", <<"argo">>), <<Registry("gcr.io", <<"workflow">>)>>, "1", "")>>,
   cache |-> <<Entry(Notebook, <<>>, "2", "")>>]
MCLinks == [k |-> {}, s |-> {"cache"}, cache |-> {}]
MCPatterns ==
  {[dest |-> Registry("mine.io", <<"m">>), include |-> "", exclude |-> "quay.io"],
   [dest |-> Registry("yours.io", <<>>), include |-> "quay.io", exclude |-> ""]}
MCPrefix == [host |-> "own.io", port |-> TRUE, path |-> <<"p">>, filter |-> "", flatten |-> FALSE]
MCImageLimit == [k \in ImageEventKinds |-> CASE k = "commands" -> 3 [] k = "runs" -> 2 [] OTHER -> 1]

\* What the theorems ask of the files of the user, the images and the patterns.
ASSUME TheoremHypotheses == Mergeable /\ OverlaysOnce /\ Unambiguous /\ Rebuildable
=============================================================================
