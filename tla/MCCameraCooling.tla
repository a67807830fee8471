--------------------------- MODULE MCCameraCooling ---------------------------
(***************************************************************************)
(* Instances of CameraCooling for TLC (a .cfg cannot write a negative      *)
(* number).                                                                *)
(***************************************************************************)
EXTENDS CameraCooling

\* the spec's scenario target, -10 degrees, and a request below the range
MCTargets == {-40000, -10000}

\* the spec's scenario target alone
MCScenarioTargets == {-10000}
=============================================================================
