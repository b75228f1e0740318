---------------------------- MODULE FunnelChannel ----------------------------
(***************************************************************************)
(* A scoreboard channel with several named reference queues (class         *)
(* FunnelChannel in forastero/scoreboard.py), for hardware that interleaves*)
(* streams: each queue keeps its order, and a captured transaction may     *)
(* match the head of any queue.  The loop, its lock and the drain are      *)
(* those of Channel; what differs is _dequeue, push_reference and          *)
(* reference_depth.                                                        *)
(***************************************************************************)
EXTENDS Naturals, Sequences, FiniteSetsExt

CONSTANTS
    Data,       \* what two transactions are compared by
    QueueName,  \* names of the reference queues
    Names,      \* ref_queues: the names in the order they were given
    Stream,     \* Stream[q]: what the model of q's stream can predict
    MaxMon,     \* number of captures (bound)
    MaxRef      \* number of predictions per queue (bound)

ASSUME NamesAssumption ==
    /\ Names \in Seq(QueueName) /\ Names # <<>>
    /\ \A q \in QueueName : \E i \in DOMAIN Names : Names[i] = q
ASSUME StreamAssumption == Stream \in [QueueName -> SUBSET Data]
ASSUME FunnelBoundAssumption == MaxMon \in Nat /\ MaxRef \in Nat

VARIABLES
    captured,   \* the transactions captured so far, in order
    pushed,     \* pushed[q]: the predictions for q so far, in order
    mon,        \* _q_mon
    refs,       \* _q_ref: a queue per name
    loop,       \* where the loop is: "match" is the only place it runs in
    refPushed,  \* one of the on-push events the loop waits for is set
    held,       \* the loop holds the channel's lock
    pairs,      \* the pairs compared: captured value, reference value and its queue
    drain       \* the drain at the end of a test

tbVars == <<captured, pushed>>
vars == <<tbVars, mon, refs, loop, refPushed, held, pairs, drain>>

Suspended == loop # "match"

Init ==
    /\ captured = <<>> /\ pushed = [q \in QueueName |-> <<>>]
    /\ mon = <<>> /\ refs = [q \in QueueName |-> <<>>]
    /\ loop = "await_mon" /\ refPushed = FALSE /\ held = FALSE
    /\ pairs = <<>>
    /\ drain = "off"

-----------------------------------------------------------------------------
Capture(d) ==
    /\ Suspended /\ Len(captured) < MaxMon
    /\ captured' = Append(captured, d)
    /\ mon' = Append(mon, d)
    /\ UNCHANGED <<pushed, refs, loop, refPushed, held, pairs, drain>>

\* A loop that waits, waits for a push to ANY of the queues.
NotifyMutant(q) == refPushed \/ (loop = "await_ref" /\ q = Names[1])
Notify(q) == refPushed \/ loop = "await_ref"

\* push_reference(q, d): a model predicts d for the stream q.
PushReference(q, d) ==
    /\ Suspended /\ Len(pushed[q]) < MaxRef
    /\ d \in Stream[q]
    /\ pushed' = [pushed EXCEPT ![q] = Append(@, d)]
    /\ refs' = [refs EXCEPT ![q] = Append(@, d)]
    /\ refPushed' = Notify(q)
    /\ UNCHANGED <<captured, mon, loop, held, pairs, drain>>

-----------------------------------------------------------------------------
\* The positions in Names of the queues whose head equals the capture.
Candidates ==
    {i \in DOMAIN Names : refs[Names[i]] # <<>> /\ Head(refs[Names[i]]) = Head(mon)}

AnyEmptyMutant == \A q \in QueueName : refs[q] = <<>>
AnyEmpty == \E q \in QueueName : refs[q] = <<>>

StartMatch ==
    /\ loop = "await_mon" /\ mon # <<>>
    /\ loop' = "match" /\ held' = TRUE
    /\ UNCHANGED <<tbVars, mon, refs, refPushed, pairs, drain>>

\* The lock is released after a comparison, and taken again at once if
\* another capture is queued.
Relocked == Tail(mon) # <<>>

\* Pop the capture and the head of q and compare them.
Compare(q) ==
    /\ pairs' = Append(pairs, <<Head(mon), Head(refs[q]), q>>)
    /\ mon' = Tail(mon)
    /\ refs' = [refs EXCEPT ![q] = Tail(@)]
    /\ loop' = IF Tail(mon) = <<>> THEN "await_mon" ELSE "match"
    /\ held' = Relocked
    /\ UNCHANGED <<tbVars, refPushed, drain>>

\* The first queue with an equal head is popped.
TakeCandidate ==
    /\ loop = "match" /\ Candidates # {}
    /\ Compare(Names[Min(Candidates)])

\* Every queue has a head and none is equal: the final queue is popped to
\* report the mismatch.
ReportMismatch ==
    /\ loop = "match" /\ Candidates = {} /\ ~AnyEmpty
    /\ refs[Names[Len(Names)]] # <<>>
    /\ Compare(Names[Len(Names)])

AwaitReference ==
    /\ loop = "match" /\ Candidates = {} /\ AnyEmpty
    /\ loop' = "await_ref" /\ refPushed' = FALSE
    /\ UNCHANGED <<tbVars, mon, refs, held, pairs, drain>>

ReferenceArrived ==
    /\ loop = "await_ref" /\ refPushed
    /\ loop' = "match"
    /\ UNCHANGED <<tbVars, mon, refs, refPushed, held, pairs, drain>>

-----------------------------------------------------------------------------
StartDrain ==
    /\ Suspended /\ drain \in {"off", "done"}
    /\ drain' = "polling"
    /\ UNCHANGED <<tbVars, mon, refs, loop, refPushed, held, pairs>>

\* reference_depth adds up all the queues (drain policy MON_AND_REF).
ReferencesGoneMutant == refs[Names[1]] = <<>>
ReferencesGone == \A q \in QueueName : refs[q] = <<>>

FinishDrain ==
    /\ Suspended /\ drain = "polling" /\ mon = <<>> /\ ReferencesGone
    /\ drain' = IF held THEN "failed" ELSE "done"
    /\ UNCHANGED <<tbVars, mon, refs, loop, refPushed, held, pairs>>

-----------------------------------------------------------------------------
LoopStep ==
    \/ StartMatch \/ TakeCandidate \/ ReportMismatch
    \/ AwaitReference \/ ReferenceArrived

Next ==
    \/ LoopStep
    \/ \E d \in Data : Capture(d) \/ \E q \in QueueName : PushReference(q, d)
    \/ StartDrain \/ FinishDrain

Spec == Init /\ [][Next]_vars

-----------------------------------------------------------------------------
(* Properties *)

\* How many of the first k pairs took their reference from q.
Taken(q, k) == Quantify(1 .. k, LAMBDA j : pairs[j][3] = q)

\* A transaction tells which stream it belongs to.
StreamsDisjoint ==
    \A p, q \in QueueName : p # q => Stream[p] \cap Stream[q] = {}

\* Whether the first n captures can be an interleaving of the streams: an
\* assignment of captures to queues that keeps the order of every queue.
Interleaving(n) ==
    \E from \in [1 .. n -> QueueName] :
        \A k \in 1 .. n :
            LET nth == Quantify(1 .. k, LAMBDA j : from[j] = from[k])
            IN  nth <= Len(pushed[from[k]]) /\ captured[k] = pushed[from[k]][nth]

\* A channel reports no mismatch as long as what was captured is some
\* interleaving of what was predicted for the streams: "each named queue of
\* the channel must maintain order, but the scoreboard can pop entries from
\* different queus in any order" (docs/scoreboard.md, its spelling).
NoFalseAlarm ==
    Interleaving(Len(pairs)) => \A k \in DOMAIN pairs : pairs[k][1] = pairs[k][2]

\* A drain finds nothing left to compare, in the monitor's queue or in any of
\* the reference queues, whatever order the streams were captured in.
DrainLeavesNothing ==
    [][drain = "polling" /\ drain' = "done" =>
          /\ Len(pairs) = Len(captured)
          /\ \A q \in QueueName : Taken(q, Len(pairs)) = Len(pushed[q])]_vars
=============================================================================
