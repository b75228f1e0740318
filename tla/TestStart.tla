------------------------------ MODULE TestStart -------------------------------
(***************************************************************************)
(* A testcase from the parameter file to its first statement: the module   *)
(* with the testcases is imported, which generates them (TestPlan), and    *)
(* one of them is started on a bench (BenchStart).                         *)
(***************************************************************************)
EXTENDS BenchStart, TestPlan

tsVars == <<bsVars, planVars>>

TestInit == StartInit /\ PlanInit

Import == chosen = Null /\ PlanNext /\ UNCHANGED bsVars

StartBench == chosen # Null /\ StartNext /\ UNCHANGED planVars

TestNext == Import \/ StartBench

TestSpec == TestInit /\ [][TestNext]_tsVars

Quietly(A) == chosen # Null /\ A /\ UNCHANGED <<ioVars, init, written, planVars>>

\* Python imports the module, and the tasks of the bench run.
TestFairSpec ==
    /\ TestSpec
    /\ WF_tsVars(Import)
    /\ WF_tsVars(chosen # Null /\ BenchReset /\ UNCHANGED planVars)
    /\ WF_tsVars(Quietly(Refuse \/ SkipReset \/ DropReset \/ CompleteReset
                         \/ ComponentReady \/ StartBody))
    /\ \A c \in Component : WF_tsVars(Quietly(TaskStep(c)))
    /\ \A t \in Other : WF_tsVars(Quietly(ReturnReady(t)))

\* In every testcase that cocotb finds the body starts, unless it is refused:
\* no component is left behind, in whatever order the components were
\* registered, and the resets and initialisations come to an end.
TestStarts ==
    (todo = {} /\ made # <<>>) ~> (main = "body" \/ (main = "refused" /\ ~Checked))
=============================================================================
