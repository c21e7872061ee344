--------------------------- MODULE MCBrokerGuards ---------------------------
(* One operation from dispatch to retirement, with the 21 observations it    *)
(* takes and one of the server before it.                                    *)
EXTENDS BrokerGuards
=============================================================================
