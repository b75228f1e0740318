------------------------------ MODULE MCChannel ------------------------------
(* Small instances of Channel for TLC.                                      *)
EXTENDS Channel

CONSTANTS x, y, z

Identity == [d \in Data |-> d]
\* A filter that drops one kind of transaction.
DropZ == [d \in Data |-> IF d = z THEN NoData ELSE d]

Setup(window, policy, failFast) ==
    [window |-> window, policy |-> policy, failFast |-> failFast]
Sound == {Setup(1, "MON_AND_REF", FALSE), Setup(2, "MON_AND_REF", FALSE),
          Setup(3, "MON_ONLY", FALSE), Setup(1, "MON_ONLY", TRUE)}
WindowOfTwo == {Setup(2, "MON_AND_REF", FALSE)}
=============================================================================
