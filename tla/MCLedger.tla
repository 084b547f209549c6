------------------------------ MODULE MCLedger ------------------------------
(* Instances of Ledger for TLC: two inject ids of one session.              *)
EXTENDS Ledger, TLC

CONSTANTS t1, t2, a, b

OneSession == [i \in Id |-> "s"]

Begin(i) == [kind |-> "begin", id |-> i, what |-> "tracked"]
Observe(i) == [kind |-> "obs", id |-> i, what |-> "output_received"]
Abort(i) == [kind |-> "state", id |-> i, what |-> "aborted"]
Reheat(i) == [kind |-> "reheat", id |-> i, what |-> "hot"]

SomeOps == {Begin(a), Begin(b), Observe(a), Abort(a), Reheat(a)}

Symmetry == Permutations(Txn)
=============================================================================
