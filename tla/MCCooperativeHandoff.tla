----------------------- MODULE MCCooperativeHandoff -----------------------
(* Two messages, one handoff that commits, two requests, two faults. *)
EXTENDS CooperativeHandoff, TLC

CONSTANTS m1, m2

MCMessage == {m1, m2}
Symmetric == Permutations(MCMessage)
=============================================================================
