---------------------------- MODULE MCCloseDown ------------------------------
(* Small instances of CloseDown for TLC.                                    *)
EXTENDS CloseDown

CONSTANTS a, b, c, s1, bg, p1

Order3 == <<b, a, c>>
Chain == [s \in Stream |-> IF s = a THEN b ELSE NoStream]
\* The process enqueues in a, with reactions in b, the sequence in c.
Split == [t \in Task |-> IF t = s1 THEN c ELSE IF t = p1 THEN a ELSE NoStream]
LateInC == [s \in Stream |-> IF s = c THEN "POST_DRIVE" ELSE "PRE_DRIVE"]

\* The instance is one that the theorems of CloseDownProofs speak of.
ASSUME EnoughAssumption == EnoughLoops
=============================================================================
