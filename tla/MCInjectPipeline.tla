-------------------------- MODULE MCInjectPipeline --------------------------
(* Instances of InjectPipeline for TLC.  Calls are interchangeable.         *)
EXTENDS InjectPipeline, TLC

CONSTANTS i1, i2, s1, s2, w1, w2, n1, n2

OneInject == {i1}
TwoInjects == {i1, i2}
Sessions2 == {s1, s2}
Sockets2 == {w1, w2}
OneName == {n1}
Names2 == {n1, n2}

Symmetry == Permutations(Inject)
=============================================================================
