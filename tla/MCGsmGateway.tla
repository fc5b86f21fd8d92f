---------------------------- MODULE MCGsmGateway ----------------------------
(***************************************************************************)
(* Small instances of GsmGateway for TLC.                                  *)
(***************************************************************************)
EXTENDS GsmGateway

\* Every SMS in a second of its own, and all of them in the same second.
MCDistinctStamps == [m \in Sms |-> m]
MCOneStamp == [m \in Sms |-> "t"]

=============================================================================
