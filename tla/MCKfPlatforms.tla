---------------------------- MODULE MCKfPlatforms ----------------------------
(* KfPlatforms with small bounds: two or three commands, each kind of event once. *)
EXTENDS KfPlatforms

CONSTANT s1   \* somebody else with a role in the project

\* As shipped, one role for several members; and an edition that lists a role
\* for other members.
MCIamTemplates ==
  << <<[members |-> {"set-admin"}, roles |-> {"editor", "viewer"}],
       [members |-> {"set-vm", "set-iap"}, roles |-> {"viewer"}]>>,
     <<[members |-> {"set-admin"}, roles |-> {"editor"}],
       [members |-> {"set-vm", "set-user", s1}, roles |-> {"viewer"}]>> >>

MCGcpLimit == [e \in GcpEventKinds |-> IF e = "commands" THEN 3 ELSE 1]
MCAwsLimit == [e \in AwsEventKinds |-> IF e = "commands" THEN 3 ELSE 1]
MCArrLimit == [e \in ArrEventKinds |-> IF e = "commands" THEN 3 ELSE 1]
=============================================================================
