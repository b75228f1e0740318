------------------------------ MODULE TestSeries ------------------------------
(***************************************************************************)
(* Several testcases in one simulation.  Each testcase makes a bench with  *)
(* an arbiter of its own and components of its own, but the registries of  *)
(* locks are attributes of a class (SeqLock._COMPONENT_LOCKS and           *)
(* _NAMED_LOCKS) that nothing ever empties.  When a testcase is over       *)
(* cocotb ends every task that is left, wherever it is: background         *)
(* sequences, sequences of a test that failed or timed out, the arbiter.   *)
(* A lock that such a sequence held, or that the arbiter was claiming for  *)
(* it, is not released.                                                    *)
(*                                                                         *)
(* A context belongs to one testcase.  After the end of its testcase it    *)
(* stays where it was and takes no further step.                           *)
(***************************************************************************)
EXTENDS SeqArbiter

CONSTANTS
    TestOf,     \* TestOf[c]: the testcase in which c is scheduled
    Tests       \* number of testcases

ASSUME TestsAssumption == Tests \in Nat /\ TestOf \in [Ctx -> 1 .. Tests]

VARIABLE test   \* the testcase that is running

svars == <<vars, test>>

SeriesInit == Init /\ test = 1

\* The testcase is over, and the next one makes a new bench: its arbiter
\* starts with an empty queue and no event set.
NextTest ==
    /\ Suspended /\ test < Tests
    /\ test' = test + 1
    /\ queue' = {} /\ evtQueue' = FALSE /\ unlocked' = FALSE
    /\ arb' = "idle"
    /\ available' = {} /\ order' = {} /\ scheduled' = {}
    /\ entry' = NoEntry /\ pos' = 1
    /\ UNCHANGED <<lockVars, seqVars>>

\* Only what belongs to the running testcase takes steps.
Alive(c) == TestOf[c] = test

InTest ==
    /\ ArbStep \/ (\E c \in Ctx : Alive(c) /\ SeqStep(c))
    /\ UNCHANGED test

SeriesNext == NextTest \/ InTest

SeriesSpec == SeriesInit /\ [][SeriesNext]_svars

\* Within a testcase tasks run as in SeqArbiter; a testcase may last for ever.
SeriesFairSpec ==
    /\ SeriesSpec
    /\ WF_svars(ArbStep /\ UNCHANGED test)
    /\ \A c \in Ctx : WF_svars(Alive(c) /\ Resume(c) /\ UNCHANGED test)
    /\ \A c \in Ctx \ Forever : WF_svars(Alive(c) /\ ExitLock(c) /\ UNCHANGED test)

-----------------------------------------------------------------------------
(* Properties *)

\* The lock was taken in an earlier testcase, by a context of that testcase or
\* by its arbiter, which had not recorded the context yet.
LeftBehind(l) ==
    /\ locked[l]
    /\ IF lockedBy[l] = NoCtx
       THEN ~(arb = "acquiring" /\ entry.locks[pos] = l)
       ELSE TestOf[lockedBy[l]] < test

\* A lock that was left behind stays out of use, for its holder is gone: no
\* step of a later testcase frees it or records another holder, not even
\* SeqContext.release in a sequence that names the same lock.
LeftForGood ==
    [][\A l \in LockId : LeftBehind(l) => locked'[l] /\ lockedBy'[l] = lockedBy[l]]_svars

\* The arbiter has found every lock taken and waits for one to be released.  It
\* does not notice a lock that is registered meanwhile (see NoWaitWhileFree).
AwaitsRelease == arb = "wait_unlocked" /\ ~unlocked

\* What an earlier testcase left locked costs a later one no more than those
\* locks, as long as the later one has a lock besides: a request is answered
\* unless a lock of its own was left behind or is kept by a body that does not
\* leave it, or the arbiter found every lock it knew of taken and no release
\* came after that.  Nothing releases what was left behind, so that in a later
\* testcase this exception can be met where all of its own locks are free.
AnsweredInLaterTests ==
    \A c \in Ctx : [](Alive(c) /\ Waiting(c) =>
        <>(~Waiting(c) \/ ~Alive(c) \/ []AwaitsRelease
            \/ [](Blocked(c) \/ \E l \in Range(need[c]) : LeftBehind(l))))
=============================================================================
