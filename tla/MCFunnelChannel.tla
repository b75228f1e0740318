--------------------------- MODULE MCFunnelChannel ---------------------------
(* Small instances of ChannelPolling, and so of FunnelChannel, for TLC.      *)
EXTENDS ChannelPolling

CONSTANTS x, y, z, qa, qb

InOrder == <<qa, qb>>
\* The streams have no transaction in common: z belongs to qb alone.
Disjoint == [q \in QueueName |-> IF q = qa THEN {x, y} ELSE {z}]
ASSUME StreamsAssumption == StreamsDisjoint
=============================================================================
