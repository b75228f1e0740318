------------------------------ MODULE BenchReady ------------------------------
(***************************************************************************)
(* The start of a testcase (forastero/bench.py, with the loops of          *)
(* forastero/driver.py and forastero/monitor.py): the loops of the         *)
(* components wait for the end of reset with BaseBench.ready, and the body *)
(* of the testcase waits for every component with Component.ready.         *)
(*                                                                         *)
(* BaseBench.ready clears the event it has waited for, so that it serves   *)
(* those tasks only that wait when the event is set, or that call it       *)
(* before the first of them runs again.                                    *)
(***************************************************************************)
EXTENDS Naturals, Sequences

CONSTANTS
    Component,  \* the drivers and monitors that the bench constructs
    Orders,     \* which of them it may register, and in which order
    Other,      \* other tasks that call BaseBench.ready, at any time
    Resets,     \* what the testcase may say of "reset": TRUE, FALSE or both
    NoTask      \* "nobody"

ASSUME NoTaskAssumption == NoTask \notin Component \cup Other
ASSUME DisjointAssumption == Component \cap Other = {}
ASSUME OrdersAssumption == Orders \subseteq Seq(Component)
ASSUME ResetsAssumption == Resets \subseteq BOOLEAN

Task == Component \cup Other

VARIABLES
    main,       \* where the testcase is
    order,      \* the keys of BaseBench._components, in order
    at,         \* the component that the testcase waits for
    inReset,    \* the design is being reset, or has not been reset yet
    evtReady,   \* BaseBench.evt_ready: set or not
    task,       \* where each task is in its call of BaseBench.ready
    ready       \* Component._ready: set or not

vars == <<main, order, at, inReset, evtReady, task, ready>>

Init ==
    /\ main = "constructed" /\ at = 1
    /\ order \in Orders
    /\ inReset = TRUE
    /\ evtReady = FALSE
    /\ task = [t \in Task |-> "start"]
    /\ ready = [c \in Component |-> FALSE]

-----------------------------------------------------------------------------
(* The tasks *)

\* A task that has been started runs before a task that waits is resumed.
Started == \A c \in Component : task[c] # "start"

\* A task calls ready: Event.wait does not wait for an event that is set.
CallReady(t) ==
    /\ main # "constructed" /\ task[t] = "start"
    /\ task' = [task EXCEPT ![t] = IF evtReady THEN "woken" ELSE "waiting"]
    /\ UNCHANGED <<main, order, at, inReset, evtReady, ready>>

\* ready returns: the first thing that the resumed task does is to clear the
\* event for everybody.
ReturnReady(t) ==
    /\ task[t] = "woken" /\ Started
    /\ task' = [task EXCEPT ![t] = "returned"]
    /\ evtReady' = FALSE
    /\ UNCHANGED <<main, order, at, inReset, ready>>

\* After one more clock edge the loop of a component announces itself.
Announce(c) ==
    /\ task[c] = "returned" /\ ~ready[c]
    /\ ready' = [ready EXCEPT ![c] = TRUE]
    /\ UNCHANGED <<main, order, at, inReset, evtReady, task>>

-----------------------------------------------------------------------------
(* The testcase *)

\* A task that waits when the event is set is resumed, all of them.
Waken(t) == task[t] = "waiting"

\* evt_ready.set() leaves the event set for those who have not called yet.
MarkedMutant == FALSE
Marked == TRUE

\* The event is set, and the testcase goes on to wait for the components.
MarkReady ==
    /\ evtReady' = Marked
    /\ task' = [t \in Task |-> IF Waken(t) THEN "woken" ELSE task[t]]
    /\ main' = "waiting"

\* "Some bench components have not been registered".
CheckedMutant == order # <<>>
Checked == \A c \in Component : \E i \in DOMAIN order : order[i] = c

Refuse ==
    /\ main = "constructed" /\ ~Checked
    /\ main' = "refused"
    /\ UNCHANGED <<order, at, inReset, evtReady, task, ready>>

\* Without a reset the event is set in the breath in which the bench is made,
\* before any component's loop has run for the first time.
SkipReset ==
    /\ main = "constructed" /\ Checked /\ FALSE \in Resets
    /\ MarkReady
    /\ inReset' = FALSE
    /\ UNCHANGED <<order, at, ready>>

\* The testcase resets the design, twice.
StartReset ==
    /\ main = "constructed" /\ Checked /\ TRUE \in Resets
    /\ main' = "first_reset"
    /\ UNCHANGED <<order, at, inReset, evtReady, task, ready>>

DropReset ==
    /\ main \in {"first_reset", "second_reset"} /\ inReset /\ Started
    /\ inReset' = FALSE
    /\ UNCHANGED <<main, order, at, evtReady, task, ready>>

ResetAgain ==
    /\ main = "first_reset" /\ ~inReset
    /\ main' = "second_reset" /\ inReset' = TRUE
    /\ UNCHANGED <<order, at, evtReady, task, ready>>

\* When ready is announced: at the end of the second reset.
ResetDoneMutant == main \in {"first_reset", "second_reset"}
ResetDone == main = "second_reset" /\ ~inReset

CompleteReset ==
    /\ ResetDone
    /\ MarkReady
    /\ UNCHANGED <<order, at, inReset, ready>>

\* Component.ready returns for the component that the testcase waits for.
ComponentReady ==
    /\ main = "waiting" /\ at \in DOMAIN order /\ ready[order[at]]
    /\ at' = at + 1
    /\ UNCHANGED <<main, order, inReset, evtReady, task, ready>>

StartBody ==
    /\ main = "waiting" /\ at \notin DOMAIN order
    /\ main' = "body"
    /\ UNCHANGED <<order, at, inReset, evtReady, task, ready>>

-----------------------------------------------------------------------------
TaskStep(t) == CallReady(t) \/ ReturnReady(t) \/ (t \in Component /\ Announce(t))

MainStep ==
    \/ Refuse \/ SkipReset \/ StartReset \/ DropReset \/ ResetAgain
    \/ CompleteReset \/ ComponentReady \/ StartBody

Next == MainStep \/ (\E t \in Task : TaskStep(t))

Spec == Init /\ [][Next]_vars

-----------------------------------------------------------------------------
(* Properties *)

TypeOK ==
    /\ main \in {"constructed", "refused", "first_reset", "second_reset", "waiting", "body"}
    /\ order \in Orders
    /\ at \in 1 .. Len(order) + 1
    /\ inReset \in BOOLEAN /\ evtReady \in BOOLEAN
    /\ task \in [Task -> {"start", "waiting", "woken", "returned"}]
    /\ evtReady => \A t \in Task : task[t] # "waiting"
    /\ ready \in [Component -> BOOLEAN]

\* No component starts, and the body of the testcase does not start, while the
\* design is being reset for the first or for the second time.
NothingStartsInReset ==
    (\E c \in Component : ready[c]) \/ main = "body" => ~inReset

\* The body never meets a component that is not ready, registered or not: what
\* the constructor of the bench forgot to register stops the testcase.
BodyFindsAllReady == main = "body" => \A c \in Component : ready[c]
=============================================================================
