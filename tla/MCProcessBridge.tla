--------------------------- MODULE MCProcessBridge ---------------------------
(* An instance of ProcessBridge for TLC. *)
EXTENDS ProcessBridge

CONSTANTS r1, r2, r3
=============================================================================
