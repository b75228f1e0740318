------------------------------- MODULE Driver --------------------------------
(***************************************************************************)
(* A driver of the testbench (forastero/driver.py, BaseDriver, with the    *)
(* Queue of forastero/queue.py and the lock of forastero/component.py):    *)
(* transactions, or iterables that yield transactions, are queued and      *)
(* driven into the design one by one, not while reset is asserted.         *)
(*                                                                         *)
(* The driver's loop runs without interruption from one real await to the  *)
(* next, so the testbench takes its steps while the loop is Suspended.     *)
(* Subscribers of PRE_DRIVE and POST_DRIVE run inside the loop's step; an  *)
(* enqueue made by one is the same as one made just after, or just before, *)
(* that step.                                                              *)
(*                                                                         *)
(* The TypeErrors are left out: enqueue raises before it changes anything, *)
(* and an iterable that yields something else than a transaction ends the  *)
(* loop, and with it the test.                                             *)
(***************************************************************************)
EXTENDS Naturals, Sequences, Functions

CONSTANTS
    Txn,        \* transaction objects, each enqueued at most once
    NoTxn,      \* "nothing in hand"
    Batches,    \* what an iterable may yield: lists of transactions
    Awaitable,  \* the values of wait_for used with an iterable
    MaxResets   \* how often reset is asserted again (bound)

ASSUME NoTxnAssumption == NoTxn \notin Txn
ASSUME BatchesAssumption == Batches \subseteq Seq(Txn)
ASSUME AwaitableAssumption ==
    Awaitable \subseteq {"NONE", "ENQUEUE", "PRE_DRIVE", "POST_DRIVE"}
ASSUME ResetsAssumption == MaxResets \in Nat

VARIABLES
    queue,      \* _queue: entries as in Entry
    on_push,    \* the queue's on-push event: there is none, the loop waits
                \* for it, or it was set and the queue has dropped it
    loop,       \* where _driver_loop is
    hand,       \* the local "obj" of the loop
    trigger,    \* trigger[t]: t._f_event
    event,      \* the events that enqueue returned, by EventKey
    held,       \* the component's lock is taken
    rst,        \* reset is asserted
    resets,     \* how often it was
    accepted,   \* the transactions enqueued, in order
    driven      \* the transactions whose drive has completed, in order

tbVars == <<rst, resets>>
vars == <<queue, on_push, loop, hand, trigger, event, held, accepted, driven, tbVars>>

WaitFor == {"NONE", "ENQUEUE", "PRE_DRIVE", "POST_DRIVE"}
\* The event of a transaction, and that of an iterable by its first item.
EventKey == {"single", "batch"} \X Txn
Entry == [iter : BOOLEAN, items : Seq(Txn), wait : WaitFor]

\* The places where the loop awaits something.
Suspended == loop \in {"boot", "await", "hold", "driving"}

Init ==
    /\ queue = <<>> /\ on_push = "none" /\ loop = "boot" /\ hand = NoTxn
    /\ trigger = [t \in Txn |-> "NONE"]
    /\ event = [k \in EventKey |-> "none"]
    /\ held = FALSE
    /\ rst = TRUE /\ resets = 0
    /\ accepted = <<>> /\ driven = <<>>

-----------------------------------------------------------------------------
(* The testbench *)

Fresh(list) == Range(list) \cap Range(accepted) = {}

\* enqueue: the entry is pushed, which sets the on-push event if there is one
\* and drops it, ENQUEUE is published, and the event of the caller, if one was
\* asked for, is set at once when it stands for ENQUEUE.
Push(entry) ==
    /\ queue' = Append(queue, entry)
    /\ on_push' = IF on_push = "waited" THEN "set" ELSE on_push
    /\ accepted' = accepted \o entry.items
    /\ event' = [event EXCEPT ![<<IF entry.iter THEN "batch" ELSE "single",
                                  Head(entry.items)>>] =
                    CASE entry.wait = "NONE"    -> "none"
                      [] entry.wait = "ENQUEUE" -> "set"
                      [] OTHER                  -> "pending"]

\* A single transaction carries its trigger and its event itself.
Enqueue(t, wait) ==
    /\ Suspended /\ Fresh(<<t>>)
    /\ Push([iter |-> FALSE, items |-> <<t>>, wait |-> wait])
    /\ trigger' = IF wait = "NONE" THEN trigger ELSE [trigger EXCEPT ![t] = wait]
    /\ UNCHANGED <<loop, hand, held, driven, tbVars>>

\* An iterable is queued as one entry; the event returned belongs to no
\* transaction of it.
EnqueueIterable(list, wait) ==
    /\ Suspended /\ Fresh(list)
    /\ Push([iter |-> TRUE, items |-> list, wait |-> wait])
    /\ UNCHANGED <<loop, hand, trigger, held, driven, tbVars>>

AssertReset ==
    /\ Suspended /\ ~rst /\ resets < MaxResets
    /\ rst' = TRUE /\ resets' = resets + 1
    /\ UNCHANGED <<queue, on_push, loop, hand, trigger, event, held, accepted, driven>>

DeassertReset ==
    /\ Suspended /\ rst
    /\ rst' = FALSE
    /\ UNCHANGED <<queue, on_push, loop, hand, trigger, event, held, accepted, driven,
                   resets>>

-----------------------------------------------------------------------------
(* The driver's loop *)

\* The testbench is ready: fetch the first entry. A testbench that was told
\* to skip its reset is ready at once, whatever the reset signal says.
Boot ==
    /\ loop = "boot"
    /\ loop' = "fetch"
    /\ UNCHANGED <<queue, on_push, hand, trigger, event, held, accepted, driven, tbVars>>

\* Nothing is queued: make the event of the next push and wait for it.
AwaitPushMutant ==
    /\ loop = "fetch"
    /\ loop' = "await" /\ on_push' = "waited"
    /\ UNCHANGED <<queue, hand, trigger, event, held, accepted, driven, tbVars>>
AwaitPush ==
    /\ loop = "fetch" /\ queue = <<>>
    /\ loop' = "await" /\ on_push' = "waited"
    /\ UNCHANGED <<queue, hand, trigger, event, held, accepted, driven, tbVars>>

Pushed ==
    /\ loop = "await" /\ on_push = "set"
    /\ loop' = "fetch" /\ on_push' = "none"
    /\ UNCHANGED <<queue, hand, trigger, event, held, accepted, driven, tbVars>>

\* _get_from_queue with a transaction at the front: pop it.
FetchTransaction ==
    /\ loop = "fetch" /\ queue # <<>> /\ ~Head(queue).iter
    /\ hand' = Head(queue).items[1]
    /\ queue' = Tail(queue)
    /\ loop' = "obtained"
    /\ UNCHANGED <<on_push, trigger, event, held, accepted, driven, tbVars>>

\* What is left at the front after the iterable there has yielded an item.
AfterYieldMutant == Tail(queue)
AfterYield == [queue EXCEPT ![1].items = Tail(@)]

\* _get_from_queue with an iterable at the front: it stays there and yields
\* its next item, which gets the trigger and an event of its own.
FetchNext ==
    /\ loop = "fetch" /\ queue # <<>> /\ Head(queue).iter
    /\ Head(queue).items # <<>>
    /\ hand' = Head(Head(queue).items)
    /\ trigger' = IF Head(queue).wait = "NONE" THEN trigger
                  ELSE [trigger EXCEPT ![hand'] = Head(queue).wait]
    /\ queue' = AfterYield
    /\ loop' = "obtained"
    /\ UNCHANGED <<on_push, event, held, accepted, driven, tbVars>>

\* StopIteration: the iterable is popped, and the loop looks again.
Exhausted ==
    /\ loop = "fetch" /\ queue # <<>> /\ Head(queue).iter
    /\ Head(queue).items = <<>>
    /\ queue' = Tail(queue)
    /\ UNCHANGED <<on_push, loop, hand, trigger, event, held, accepted, driven, tbVars>>

HoldForReset ==
    /\ loop = "obtained" /\ rst
    /\ loop' = "hold"
    /\ UNCHANGED <<queue, on_push, hand, trigger, event, held, accepted, driven, tbVars>>

\* The event of the transaction in hand is set if it stands for this trigger.
\* An item of an iterable has an event too, which nobody was given.
SignalMutant(when) ==
    IF event[<<"single", hand>>] = "pending"
    THEN [event EXCEPT ![<<"single", hand>>] = "set"] ELSE event
Signal(when) ==
    IF event[<<"single", hand>>] = "pending" /\ trigger[hand] = when
    THEN [event EXCEPT ![<<"single", hand>>] = "set"] ELSE event

\* Reset is not asserted: lock the driver, publish PRE_DRIVE and drive.
BeginDrive ==
    /\ loop \in {"obtained", "hold"} /\ ~rst
    /\ held' = TRUE
    /\ event' = Signal("PRE_DRIVE")
    /\ loop' = "driving"
    /\ UNCHANGED <<queue, on_push, hand, trigger, accepted, driven, tbVars>>

\* The drive is over: publish POST_DRIVE, release the lock and fetch.
EndDrive ==
    /\ loop = "driving"
    /\ driven' = Append(driven, hand)
    /\ event' = Signal("POST_DRIVE")
    /\ held' = FALSE
    /\ hand' = NoTxn
    /\ loop' = "fetch"
    /\ UNCHANGED <<queue, on_push, trigger, accepted, tbVars>>

-----------------------------------------------------------------------------
LoopStep ==
    \/ Boot \/ AwaitPush \/ Pushed \/ FetchTransaction \/ FetchNext \/ Exhausted
    \/ HoldForReset \/ BeginDrive \/ EndDrive

Next ==
    \/ LoopStep
    \/ (\E t \in Txn, wait \in WaitFor : Enqueue(t, wait))
    \/ (\E list \in Batches, wait \in Awaitable : EnqueueIterable(list, wait))
    \/ AssertReset \/ DeassertReset

Spec == Init /\ [][Next]_vars

\* The loop runs whenever it can, which takes in that a drive ends, and reset
\* does not stay asserted.
FairSpec == Spec /\ WF_vars(LoopStep) /\ WF_vars(DeassertReset)

-----------------------------------------------------------------------------
(* Properties *)

TypeOK ==
    /\ queue \in Seq(Entry)
    /\ on_push \in {"none", "waited", "set"}
    /\ loop \in {"boot", "await", "fetch", "obtained", "hold", "driving"}
    /\ hand \in Txn \cup {NoTxn}
    /\ hand # NoTxn <=> loop \in {"obtained", "hold", "driving"}
    /\ trigger \in [Txn -> WaitFor]
    /\ event \in [EventKey -> {"none", "pending", "set"}]
    /\ held = (loop = "driving")
    /\ rst \in BOOLEAN /\ resets \in 0 .. MaxResets
    /\ accepted \in Seq(Txn) /\ driven \in Seq(Txn)

InHand == IF hand = NoTxn THEN <<>> ELSE <<hand>>
Served == driven \o InHand

\* Entry i of the queue holds what was enqueued next after the first ahead[i]
\* transactions, and the first ahead[1] have been served.
InOrder(ahead) ==
    /\ ahead[1] = Len(Served) /\ \A j \in 1 .. Len(Served) : Served[j] = accepted[j]
    /\ \A i \in DOMAIN queue :
        /\ ahead[i + 1] = ahead[i] + Len(queue[i].items)
        /\ \A j \in DOMAIN queue[i].items : queue[i].items[j] = accepted[ahead[i] + j]
    /\ ahead[Len(queue) + 1] = Len(accepted)

\* What was driven, what is in hand and what is queued is, in this order,
\* what was enqueued: no transaction is lost, driven twice or overtaken, not
\* by one enqueued while an iterable ahead of it is half used, and not when
\* reset is asserted between the fetch and the drive.
DrivenInOrder ==
    \E ahead \in [1 .. Len(queue) + 1 -> 0 .. Len(accepted)] : InOrder(ahead)

\* The event of a transaction says what it stands for: it is set if and only
\* if the drive of THAT transaction has begun (PRE_DRIVE) or has ended
\* (POST_DRIVE), whatever has been enqueued since.
EventTruthful ==
    \A t \in Txn : event[<<"single", t>>] # "none" =>
        (event[<<"single", t>>] = "set") =
            CASE trigger[t] = "ENQUEUE"    -> TRUE
              [] trigger[t] = "PRE_DRIVE"  ->
                    t \in Range(driven) \/ (loop = "driving" /\ hand = t)
              [] trigger[t] = "POST_DRIVE" -> t \in Range(driven)

\* Every transaction enqueued is driven in the end, the one pushed at the
\* moment at which the loop turns from its queue to the on-push event, which is
\* set once and for one waiter, as well as one pushed in the middle of a drive.
AllDriven == \A t \in Txn : t \in Range(accepted) ~> t \in Range(driven)
=============================================================================
