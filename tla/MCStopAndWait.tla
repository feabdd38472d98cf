--------------------------- MODULE MCStopAndWait ---------------------------
(* StopAndWait with constants for TLC, see MCStopAndWait*.cfg. *)
EXTENDS StopAndWait
=============================================================================
