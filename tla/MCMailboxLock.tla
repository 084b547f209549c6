--------------------------- MODULE MCMailboxLock ---------------------------
(* Instances of MailboxLock for TLC: ticket names are small numbers, in the *)
(* order in which the directory names would sort.                              *)
EXTENDS MailboxLock, TLC

CONSTANTS p1, p2, p3

Processes2 == {p1, p2}
Processes3 == {p1, p2, p3}
Tickets3 == 1 .. 3
AnyName == [p \in Processes2 |-> Tickets3]
\* The third process makes no ticket: it only sweeps those of the other two.
TwoContenders ==
  [p \in Processes3 |-> CASE p = p1 -> {1, 3} [] p = p2 -> {2} [] p = p3 -> {}]
OneSweeper == {p1}
ThirdSweeps == {p3}
=============================================================================
