----------------------------- MODULE MCTestSeries -----------------------------
(* Two testcases, one after the other, for TLC.                              *)
EXTENDS TestSeries

CONSTANTS p1, p2, q1, q2, x, y, cfg

First == [c \in Ctx |-> IF c \in {p1, p2} THEN 1 ELSE 2]
\* x and y stand for the same component of the bench of the first and of the
\* second testcase; cfg is a named lock.  p2 and q1 declare that lock only, so
\* that q1 may ask for it when the second testcase has no other lock yet.
OwnComponent == [c \in Ctx |-> CASE c = p1 -> {x, cfg}
                                 [] c = q2 -> {y, cfg}
                                 [] OTHER  -> {cfg}]
SeriesRequests == {<<x, cfg>>, <<cfg>>, <<y>>, <<cfg, y>>}
=============================================================================
