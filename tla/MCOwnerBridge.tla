--------------------------- MODULE MCOwnerBridge ---------------------------
(* Instances of OwnerBridge for TLC. *)
EXTENDS OwnerBridge
=============================================================================
