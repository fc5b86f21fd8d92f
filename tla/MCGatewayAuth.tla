---------------------------- MODULE MCGatewayAuth ----------------------------
(***************************************************************************)
(* A small instance of GatewayAuth for TLC.                                *)
(***************************************************************************)
EXTENDS GatewayAuth, TLC

Symmetry == Permutations(Messages) \cup Permutations(Handlers)

=============================================================================
