----------------------------- MODULE MCBrokerHub -----------------------------
(* Two operations to one node: both of a broadcast, or one of a broadcast and  *)
(* one by itself; b goes to a remote shell.                                    *)
EXTENDS BrokerHub

MCOps == {"a", "b"}
MCNodes == {"m"}
MCTarget == [o \in MCOps |-> "m"]
MCBroadcasts == {<<"b">>, <<"a", "b">>}
MCSshSubmits == {"b"}
=============================================================================
