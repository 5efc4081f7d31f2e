------------------------------ MODULE OutboxMC ------------------------------
(* Instances of Outbox for TLC. *)
EXTENDS OutboxRefinement

CONSTANTS i1, i2   \* the intents of an instance

=============================================================================
