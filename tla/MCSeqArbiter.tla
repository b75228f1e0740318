----------------------------- MODULE MCSeqArbiter ----------------------------
(* Small instances of SeqArbiter for TLC.                                   *)
EXTENDS SeqArbiter

CONSTANTS c1, c2, c3, a, b

\* c3 declares lock b only.
Mixed == [c \in Ctx |-> IF c = c3 THEN {b} ELSE LockId]
\* Request lists over the locks, none empty.  One names a lock twice, as a
\* sequence makes whose two requirements are bound to the same component.
SomeLocks == {<<a>>, <<b>>, <<a, b>>, <<b, a>>, <<a, b, a>>}
\* c1 and c2 declare lock a only, c3 lock b only.
OwnLock == [c \in Ctx |-> IF c = c3 THEN {b} ELSE {a}]
OneEach == {<<a>>, <<b>>}
=============================================================================
