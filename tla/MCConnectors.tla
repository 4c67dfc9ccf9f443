---------------------------- MODULE MCConnectors ----------------------------
(* Connectors for TLC.                                                        *)
EXTENDS Connectors, TLC

=============================================================================
