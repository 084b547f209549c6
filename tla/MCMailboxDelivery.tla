------------------------- MODULE MCMailboxDelivery -------------------------
(* Instances of MailboxDelivery for TLC.                                    *)
EXTENDS MailboxDelivery, TLC

CONSTANTS m1, m2

TwoMessages == {m1, m2}
=============================================================================
