------------------------------ MODULE MCFleet ------------------------------
(* Fleet for TLC.                                                             *)
EXTENDS Fleet, TLC

=============================================================================
