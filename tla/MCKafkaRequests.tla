-------------------------- MODULE MCKafkaRequests --------------------------
\* KafkaRequests on small instances.
EXTENDS KafkaRequests, TLC

=============================================================================
