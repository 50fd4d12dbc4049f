------------------------ MODULE MCPlaneSubscription ------------------------
(***************************************************************************)
(* PlaneSubscription for TLC.  Its constants are numbers and flags, given  *)
(* in the configurations.                                                  *)
(***************************************************************************)
EXTENDS PlaneSubscription
=============================================================================
