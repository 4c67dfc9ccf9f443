---------------------------- MODULE MCPromotion ----------------------------
\* Promotion on a small instance.
EXTENDS Promotion, TLC

=============================================================================
