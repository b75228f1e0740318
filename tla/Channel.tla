------------------------------- MODULE Channel -------------------------------
(***************************************************************************)
(* One channel of the scoreboard (forastero/scoreboard.py, class Channel): *)
(* transactions captured by a monitor are paired with the transactions a   *)
(* reference model predicts.  With a match window of 1 the two queues are  *)
(* paired head to head; with a larger window a captured transaction takes  *)
(* the first equal one among the next Window references.                   *)
(*                                                                         *)
(* Three tasks meet here: the testbench (captures and predictions), the    *)
(* channel's loop and the drain at the end of a test.  The loop runs       *)
(* without interruption from one real await to the next: popping from a    *)
(* queue that is not empty and taking an uncontended asyncio.Lock do not   *)
(* suspend a task.  Taking a contended one raises, because there is no     *)
(* asyncio event loop to make a future.                                    *)
(***************************************************************************)
EXTENDS Naturals, Sequences, SequencesExt

CONSTANTS
    Data,       \* what two transactions are compared by
    NoData,     \* what a filter function returns to drop a transaction
    Filter,     \* the channel's filter function
    Setups,     \* settings with which the channel may be attached
    MaxMon,     \* number of captures (bound)
    MaxRef      \* number of predictions (bound)

ASSUME NoDataAssumption == NoData \notin Data
ASSUME FilterAssumption == Filter \in [Data -> Data \cup {NoData}]
ASSUME SetupsAssumption ==
    Setups \subseteq
      [window   : Nat \ {0},
       policy   : {"MON_AND_REF", "MON_ONLY", "REF_ONLY", "NON_BLOCKING"},
       failFast : BOOLEAN]
ASSUME BoundAssumption == MaxMon \in Nat /\ MaxRef \in Nat

VARIABLES
    setup,      \* match_window, drain_policy and Scoreboard.fail_fast: never changed
    captured,   \* what passed the filter so far, in order
    pushed,     \* what was predicted so far, in order
    mon,        \* _q_mon
    ref,        \* _q_ref: a reference object is named by its push number
    residence,  \* _residence, by push number
    loop,       \* where the loop is: "match" is the only place it runs in
    refPushed,  \* the on-push event the loop waits for: set or not
    held,       \* the loop holds the channel's lock
    pairs,      \* the pairs compared: <<captured value, push number>>
    drain       \* the drain at the end of a test

tbVars == <<setup, captured, pushed>>
Window == setup.window
Policy == setup.policy
FailFast == setup.failFast
vars == <<tbVars, mon, ref, residence, loop, refPushed, held, pairs, drain>>

RefId == 1 .. MaxRef
Suspended == loop # "match"

Init ==
    /\ setup \in Setups
    /\ captured = <<>> /\ pushed = <<>>
    /\ mon = <<>> /\ ref = <<>>
    /\ residence = [n \in RefId |-> 0]
    /\ loop = "await_mon" /\ refPushed = FALSE /\ held = FALSE
    /\ pairs = <<>>
    /\ drain = "off"

-----------------------------------------------------------------------------
(* The testbench *)

\* The monitor captures d: _sample filters it and push_monitor queues it.
Capture(d) ==
    /\ Suspended /\ Len(captured) < MaxMon
    /\ Filter[d] # NoData
    /\ captured' = Append(captured, Filter[d])
    /\ mon' = Append(mon, Filter[d])
    /\ UNCHANGED <<setup, pushed, ref, residence, loop, refPushed, held, pairs, drain>>

\* Queue.push sets the on-push event that somebody has asked for.
NotifyMutant == refPushed
Notify == refPushed \/ loop = "await_ref"

\* A model predicts d: push_reference.
PushReference(d) ==
    /\ Suspended /\ Len(pushed) < MaxRef
    /\ pushed' = Append(pushed, d)
    /\ ref' = Append(ref, Len(pushed) + 1)
    /\ refPushed' = Notify
    /\ UNCHANGED <<setup, captured, mon, residence, loop, held, pairs, drain>>

-----------------------------------------------------------------------------
(* The loop: loop(), with _dequeue() and Scoreboard._mismatch in line *)

Value(n) == pushed[n]

\* The references within the window that equal the captured transaction.
InWindow == 1 .. (IF Len(ref) < Window THEN Len(ref) ELSE Window)
Matches == {i \in InWindow : Value(ref[i]) = Head(mon)}

\* The search stops at the first match, or looks at the whole window.
Taken == Min(Matches)
Examined == {i \in InWindow : Matches = {} \/ i <= Taken}

\* Each reference looked at is counted; a window of 1 never counts.
Overstayed == Window > 1 /\ \E i \in Examined : residence[ref[i]] >= Window
Counted ==
    [n \in RefId |-> IF Window > 1 /\ \E i \in Examined : ref[i] = n
                     THEN residence[n] + 1 ELSE residence[n]]

\* A monitor transaction is there: lock out the drain.
StartMatch ==
    /\ loop = "await_mon" /\ mon # <<>>
    /\ loop' = "match" /\ held' = TRUE
    /\ UNCHANGED <<tbVars, mon, ref, residence, refPushed, pairs, drain>>

\* Compare the captured transaction with the i-th reference and go on: the
\* lock is released, and taken again at once if another capture is queued.
\* A mismatch under fail_fast raises, which ends the task with the lock held.
Stops(i) == FailFast /\ Value(ref[i]) # Head(mon)
Compare(i) ==
    /\ pairs' = Append(pairs, <<Head(mon), ref[i]>>)
    /\ mon' = Tail(mon)
    /\ ref' = RemoveAt(ref, i)
    /\ loop' = IF Stops(i) THEN "dead"
               ELSE IF Tail(mon) = <<>> THEN "await_mon" ELSE "match"
    /\ held' = (loop' # "await_mon")

\* A reference within the window matches.
TakeMatch ==
    /\ loop = "match" /\ Matches # {} /\ ~Overstayed
    /\ Compare(Taken)
    /\ residence' = [Counted EXCEPT ![ref[Taken]] = 0]
    /\ UNCHANGED <<tbVars, refPushed, drain>>

\* The window is full and nothing in it matches: report the head.
WindowFullMutant == Len(ref) > 0
WindowFull == Len(ref) >= Window
TakeHead ==
    /\ loop = "match" /\ Matches = {} /\ WindowFull /\ ~Overstayed
    /\ Compare(1)
    /\ residence' = Counted
    /\ UNCHANGED <<tbVars, refPushed, drain>>

\* Nothing matches yet: wait for the next prediction, lock held.
AwaitReference ==
    /\ loop = "match" /\ Matches = {} /\ ~WindowFull /\ ~Overstayed
    /\ loop' = "await_ref" /\ refPushed' = FALSE
    /\ residence' = Counted
    /\ UNCHANGED <<tbVars, mon, ref, held, pairs, drain>>

ReferenceArrived ==
    /\ loop = "await_ref" /\ refPushed
    /\ loop' = "match"
    /\ UNCHANGED <<tbVars, mon, ref, residence, refPushed, held, pairs, drain>>

\* A reference was looked at more often than the window is long:
\* WindowResidenceError ends the task with the lock held.
Overstay ==
    /\ loop = "match" /\ Overstayed
    /\ loop' = "dead"
    /\ residence' = Counted
    /\ UNCHANGED <<tbVars, mon, ref, refPushed, held, pairs, drain>>

-----------------------------------------------------------------------------
(* Draining *)

\* The testcase's shutdown drains the scoreboard, as often as it likes.
StartDrain ==
    /\ Suspended /\ drain \in {"off", "done"}
    /\ drain' = "polling"
    /\ UNCHANGED <<tbVars, mon, ref, residence, loop, refPushed, held, pairs>>

\* The queues that the policy names are empty.
DrainedMutant ==
    CASE Policy = "MON_AND_REF"  -> mon = <<>> \/ ref = <<>>
      [] Policy = "MON_ONLY"     -> ref = <<>>
      [] Policy = "REF_ONLY"     -> ref = <<>>
      [] Policy = "NON_BLOCKING" -> TRUE
Drained ==
    CASE Policy = "MON_AND_REF"  -> mon = <<>> /\ ref = <<>>
      [] Policy = "MON_ONLY"     -> mon = <<>>
      [] Policy = "REF_ONLY"     -> ref = <<>>
      [] Policy = "NON_BLOCKING" -> TRUE

\* At a clock edge the queues are found empty; the lock is taken and released
\* in the same breath, and taking it raises if the loop holds it.
FinishDrain ==
    /\ Suspended /\ drain = "polling" /\ Drained
    /\ drain' = IF held THEN "failed" ELSE "done"
    /\ UNCHANGED <<tbVars, mon, ref, residence, loop, refPushed, held, pairs>>

-----------------------------------------------------------------------------
LoopStep ==
    \/ StartMatch \/ TakeMatch \/ TakeHead \/ AwaitReference
    \/ ReferenceArrived \/ Overstay

Next ==
    \/ LoopStep
    \/ \E d \in Data : Capture(d) \/ PushReference(d)
    \/ StartDrain \/ FinishDrain

Spec == Init /\ [][Next]_vars

\* Both tasks run whenever they can; nothing makes the testbench send more.
FairSpec == Spec /\ WF_vars(LoopStep) /\ WF_vars(FinishDrain)

-----------------------------------------------------------------------------
(* Properties *)

TypeOK ==
    /\ setup \in Setups
    /\ captured \in Seq(Data) /\ Len(captured) <= MaxMon
    /\ pushed \in Seq(Data) /\ Len(pushed) <= MaxRef
    /\ mon \in Seq(Data) /\ ref \in Seq(1 .. Len(pushed))
    /\ residence \in [RefId -> 0 .. Window + 1]
    /\ loop \in {"await_mon", "match", "await_ref", "dead"}
    /\ refPushed \in BOOLEAN /\ held \in BOOLEAN
    /\ pairs \in Seq(Data \X (1 .. Len(pushed)))
    /\ drain \in {"off", "polling", "done", "failed"}

\* What the channel should make of the whole history: the k-th captured
\* transaction takes the first equal one of the next Window references left,
\* or else the first one left.
AllLeft == [left |-> [n \in 1 .. Len(pushed) |-> n], out |-> <<>>]
Equals(left, d) == {i \in DOMAIN left : i <= Window /\ Value(left[i]) = d}
Partner(left, d) == IF Equals(left, d) = {} THEN 1 ELSE Min(Equals(left, d))
PairUp(before, d) ==
    LET i == Partner(before.left, d)
    IN  [left |-> RemoveAt(before.left, i),
         out  |-> Append(before.out, <<d, before.left[i]>>)]
Verdict ==
    LET step[k \in 0 .. Len(pairs)] ==
          IF k = 0 THEN AllLeft ELSE PairUp(step[k - 1], captured[k])
    IN  step[Len(pairs)]

\* Which transactions are paired does not depend on when captures and
\* predictions arrive relative to each other and to the loop's wake-ups, and
\* what is left to pair is in the queues: nothing is lost or paired twice.
TimingIndependent ==
    /\ pairs = Verdict.out
    /\ ref = Verdict.left
    /\ mon = SubSeq(captured, Len(pairs) + 1, Len(captured))

\* A drain never meets the lock in the hands of a loop that is waiting, so it
\* neither raises nor blocks the end of the test (a loop that died has failed
\* the test already).
DrainNeverFails == drain = "failed" => loop = "dead"

\* When a drain completes, every transaction that its policy covers has been
\* compared: the test cannot pass with a comparison outstanding.
DrainLeavesNothing ==
    [][drain = "polling" /\ drain' = "done" =>
          /\ Policy \in {"MON_AND_REF", "MON_ONLY"} => Len(pairs) = Len(captured)
          /\ Policy \in {"MON_AND_REF", "REF_ONLY"} => Len(pairs) = Len(pushed)]_vars

\* "Stop the test as soon as a mismatch is reported" (Scoreboard, fail_fast):
\* nothing is paired after the first mismatch.
StopsAtFirstMismatch ==
    FailFast => \A k \in 1 .. Len(pairs) - 1 : pairs[k][1] = Value(pairs[k][2])

\* "Allowing a captured transaction to match against any of the first N
\* entries of the reference queue" (docs/scoreboard.md): the channel does not
\* give up on a captured transaction that equals one of them.
MatchableIsMatched ==
    [][loop = "match" /\ loop' = "dead" => Matches = {}]_vars

\* With a window of 1, a drain that is waiting completes once as many
\* transactions have been predicted as captured, whatever their values (a
\* larger window waits for more predictions, a failure ends the loop).
EqualTrafficDrains ==
    (Window = 1 /\ ~FailFast /\ drain = "polling" /\ Len(captured) = Len(pushed))
        ~> (drain = "done" \/ Len(captured) # Len(pushed))
=============================================================================
