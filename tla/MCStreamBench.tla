---------------------------- MODULE MCStreamBench -----------------------------
(* Both example benches with a few packets, for TLC.                         *)
EXTENDS StreamBench

CONSTANTS ta, tb, ba, bb, b2

OnStream == [c \in Ctx |-> IF c \in {ta, ba} THEN "a" ELSE "b"]
=============================================================================
