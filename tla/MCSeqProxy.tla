------------------------------ MODULE MCSeqProxy ------------------------------
(* A small instance of SeqProxy for TLC.                                     *)
EXTENDS SeqProxy

CONSTANTS c1, c2, drv, cfg

\* Only c1 declares the other lock.
OnlyDriver == [c \in Ctx |-> IF c = c1 THEN LockId ELSE {drv}]
\* Requests; one names the driver twice, as a sequence makes whose two
\* requirements are bound to the same component.
ProxyRequests == {<<drv>>, <<cfg, drv>>, <<drv, drv>>}
=============================================================================
