------------------------------- MODULE MCDriver -------------------------------
(* Small instances of Driver for TLC.                                        *)
EXTENDS Driver

CONSTANTS t1, t2, t3

Pairs == {<<t1, t2>>, <<t3>>}
=============================================================================
