----------------------------- MODULE MCKfAppDir ------------------------------
(* KfAppDir with two revisions that differ in an application. *)
EXTENDS KfAppDir

CONSTANTS w1, w2

MCSpecApps == << <<"a", "b">>, <<"a", "c">> >>
MCDirLimit == [e \in DirEventKinds |-> CASE e = "commands" -> 4 [] e = "faults" -> 2 [] OTHER -> 1]

\* Two Reconciles, and nothing fails.
MCSharedLimit == [e \in DirEventKinds |-> CASE e = "commands" -> 2 [] OTHER -> 0]
=============================================================================
