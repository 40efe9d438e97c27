--------------------------- MODULE MCKfCoordinator ---------------------------
(* Both views with the bounds of their own instances. *)
EXTENDS KfCoordinator, MCKfAppDir, MCKfPlatforms
=============================================================================
