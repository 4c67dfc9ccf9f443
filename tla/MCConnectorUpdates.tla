------------------------- MODULE MCConnectorUpdates -------------------------
(* ConnectorUpdates for TLC.                                                  *)
EXTENDS ConnectorUpdates, TLC

=============================================================================
