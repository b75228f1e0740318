------------------------------ MODULE CloseDown -------------------------------
(***************************************************************************)
(* The body and the end of a testcase (forastero/bench.py, close_down and  *)
(* testcase), composed with what it waits for: the sequences, the          *)
(* registered processes, the drivers and the channels of the scoreboard.   *)
(*                                                                         *)
(* A stream is a driver, the path of its transactions through the design,  *)
(* the monitor at its end and the channel that compares them.  The design  *)
(* keeps the order of a stream, takes as long as it likes, and may have a  *)
(* fault.  What Driver, Channel and BenchReady model in detail is one step *)
(* here: a fetch, the end of a drive, a comparison.  Transactions of a     *)
(* stream are numbered in the order in which they are enqueued.            *)
(*                                                                         *)
(* Every driver and monitor is blocking, the default: close_down skips the *)
(* others, and nothing is said of their streams.  Sequences are scheduled  *)
(* by the body only.  schedule may be called by a handler or by a running  *)
(* sequence too; what it schedules after close_down's last look at the     *)
(* list of sequences is not waited for, as a background sequence is not.   *)
(***************************************************************************)
EXTENDS Naturals, Sequences, Functions

CONSTANTS
    Stream,     \* the streams, each with its driver, monitor and channel
    NoStream,   \* "no stream"
    Order,      \* the streams in the order in which close_down visits them
    Reaction,   \* Reaction[s]: the stream in which a capture on s makes a
                \* handler of the testbench enqueue a transaction
    Blocking,   \* sequences that the body schedules with blocking=True
    Background, \* sequences that it schedules with blocking=False
    Process,    \* coroutines registered with the bench
    Target,     \* Target[t]: the stream in which task t enqueues
    MaxItems,   \* number of transactions of a task (bound)
    Loops,      \* shutdown_loops
    Delay,      \* shutdown_delay, in clock cycles
    MaxDrive,   \* the longest drive, in clock cycles
    ModelOn,    \* ModelOn[s]: the driver's event on which the model predicts
    HasTimeout, \* the testcase has a timeout
    MaxFaults   \* number of transactions the design corrupts or loses

Task == Blocking \cup Background \cup Process

ASSUME StreamAssumption == NoStream \notin Stream
ASSUME OrderAssumption == Order \in Seq(Stream) /\ Range(Order) = Stream
ASSUME ReactionAssumption == Reaction \in [Stream -> Stream \cup {NoStream}]
ASSUME TargetAssumption == Target \in [Task -> Stream \cup {NoStream}]
ASSUME CountAssumption ==
    MaxItems \in Nat /\ MaxFaults \in Nat /\ Delay \in Nat
    /\ Loops \in Nat \ {0} /\ MaxDrive \in Nat \ {0}
ASSUME ModelAssumption == ModelOn \in [Stream -> {"PRE_DRIVE", "POST_DRIVE"}]
ASSUME TimeoutAssumption == HasTimeout \in BOOLEAN

VARIABLES
    main,       \* where the testcase is
    loop,       \* number of the shutdown loop
    at,         \* position in Order of what is waited for
    timer,      \* clock cycles left of the minimum delay
    edge,       \* the clock edge that idle waits for has come
    task,       \* state of each task
    sent,       \* number of transactions each task has enqueued
    accepted,   \* number of transactions enqueued in each stream
    queue,      \* the driver's queue
    hand,       \* the transaction being driven, or 0
    left,       \* clock cycles left of its drive
    dut,        \* transactions in the design
    mon, ref,   \* the channel's queues
    compared,   \* number of comparisons of the channel
    mismatch,   \* Scoreboard._mismatches is not empty
    faults      \* number of faults so far

mainVars == <<main, loop, at, timer, edge>>
taskVars == <<task, sent>>
pathVars == <<queue, hand, left, dut, mon, ref, compared, accepted>>
vars == <<mainVars, taskVars, pathVars, mismatch, faults>>

Over == main \in {"passed", "failed"}

Init ==
    /\ main = "body" /\ loop = 1 /\ at = 1 /\ timer = 0 /\ edge = FALSE
    /\ task = [t \in Task |-> IF t \in Process THEN "running" ELSE "unscheduled"]
    /\ sent = [t \in Task |-> 0]
    /\ accepted = [s \in Stream |-> 0]
    /\ queue = [s \in Stream |-> <<>>]
    /\ hand = [s \in Stream |-> 0] /\ left = [s \in Stream |-> 0]
    /\ dut = [s \in Stream |-> <<>>]
    /\ mon = [s \in Stream |-> <<>>] /\ ref = [s \in Stream |-> <<>>]
    /\ compared = [s \in Stream |-> 0]
    /\ mismatch = FALSE /\ faults = 0

-----------------------------------------------------------------------------
(* Tasks *)

\* The body schedules a sequence.
Schedule(t) ==
    /\ main = "body" /\ task[t] = "unscheduled"
    /\ task' = [task EXCEPT ![t] = "running"]
    /\ UNCHANGED <<mainVars, sent, pathVars, mismatch, faults>>

\* enqueue on the driver of stream s, or on none.
Enqueue(s) ==
    /\ queue' = [q \in Stream |-> IF q = s THEN Append(queue[q], accepted[q] + 1) ELSE queue[q]]
    /\ accepted' = [q \in Stream |-> IF q = s THEN accepted[q] + 1 ELSE accepted[q]]

Send(t) ==
    /\ ~Over /\ task[t] = "running"
    /\ sent[t] < MaxItems /\ Target[t] # NoStream
    /\ sent' = [sent EXCEPT ![t] = @ + 1]
    /\ Enqueue(Target[t])
    /\ UNCHANGED <<mainVars, task, hand, left, dut, mon, ref, compared, mismatch, faults>>

Finish(t) ==
    /\ ~Over /\ task[t] = "running"
    /\ task' = [task EXCEPT ![t] = "done"]
    /\ UNCHANGED <<mainVars, sent, pathVars, mismatch, faults>>

-----------------------------------------------------------------------------
(* Drivers, the design, monitors, channels *)

\* What the reference model, which subscribes to one of the driver's events,
\* adds to the reference queue when transaction id (0: none) has event now.
Predicted(s, id, now) == IF now = ModelOn[s] /\ id # 0 THEN <<id>> ELSE <<>>

\* The driver takes the next transaction, if there is one, and begins to drive
\* it, for some cycles.
TakeNext(s) ==
    \/ /\ queue[s] = <<>>
       /\ hand' = [hand EXCEPT ![s] = 0]
       /\ UNCHANGED <<queue, left, dut>>
    \/ /\ queue[s] # <<>>
       /\ hand' = [hand EXCEPT ![s] = Head(queue[s])]
       /\ queue' = [queue EXCEPT ![s] = Tail(@)]
       /\ \E cycles \in 1 .. MaxDrive : left' = [left EXCEPT ![s] = cycles]
       /\ dut' = [dut EXCEPT ![s] = Append(@, Head(queue[s]))]

\* A push wakes the driver.
BeginDrive(s) ==
    /\ ~Over /\ hand[s] = 0 /\ queue[s] # <<>>
    /\ TakeNext(s)
    /\ ref' = [ref EXCEPT ![s] = @ \o Predicted(s, hand'[s], "PRE_DRIVE")]
    /\ UNCHANGED <<mainVars, taskVars, mon, compared, accepted, mismatch, faults>>

\* The drive is over.  The loop goes on to the next transaction without
\* interruption.
EndDrive(s) ==
    /\ ~Over /\ hand[s] # 0 /\ left[s] = 0
    /\ TakeNext(s)
    /\ ref' = [ref EXCEPT ![s] = @ \o Predicted(s, hand[s], "POST_DRIVE")
                                   \o Predicted(s, hand'[s], "PRE_DRIVE")]
    /\ UNCHANGED <<mainVars, taskVars, mon, compared, accepted, mismatch, faults>>

\* The design has had all of its oldest transaction.
MayLeave(s) == ~Over /\ dut[s] # <<>> /\ (Head(dut[s]) # hand[s] \/ left[s] = 0)

\* The monitor captures what the design puts out, which is the transaction
\* itself or, by a fault, another one (0).  A handler may react to it.
Capture(s) ==
    /\ MayLeave(s)
    /\ dut' = [dut EXCEPT ![s] = Tail(@)]
    /\ \/ mon' = [mon EXCEPT ![s] = Append(@, Head(dut[s]))] /\ UNCHANGED faults
       \/ /\ faults < MaxFaults /\ faults' = faults + 1
          /\ mon' = [mon EXCEPT ![s] = Append(@, 0)]
    /\ Enqueue(Reaction[s])
    /\ UNCHANGED <<mainVars, taskVars, hand, left, ref, compared, mismatch>>

\* By a fault the design loses a transaction.
Lose(s) ==
    /\ MayLeave(s) /\ faults < MaxFaults
    /\ faults' = faults + 1
    /\ dut' = [dut EXCEPT ![s] = Tail(@)]
    /\ UNCHANGED <<mainVars, taskVars, queue, hand, left, mon, ref, compared,
                   accepted, mismatch>>

\* The channel pairs the two oldest transactions.
Compare(s) ==
    /\ ~Over /\ mon[s] # <<>> /\ ref[s] # <<>>
    /\ mon' = [mon EXCEPT ![s] = Tail(@)]
    /\ ref' = [ref EXCEPT ![s] = Tail(@)]
    /\ compared' = [compared EXCEPT ![s] = @ + 1]
    /\ mismatch' = (mismatch \/ Head(mon[s]) # Head(ref[s]))
    /\ UNCHANGED <<mainVars, taskVars, queue, hand, left, dut, accepted, faults>>

-----------------------------------------------------------------------------
(* The clock *)

\* Whatever can run at this edge has run.
Settled ==
    /\ ~edge
    /\ main = "delay" => timer > 0
    /\ \A s \in Stream :
         /\ IF hand[s] = 0 THEN queue[s] = <<>> ELSE left[s] > 0
         /\ mon[s] = <<>> \/ ref[s] = <<>>

Tick ==
    /\ ~Over /\ Settled
    /\ left' = [s \in Stream |-> IF left[s] > 0 THEN left[s] - 1 ELSE 0]
    /\ timer' = IF timer > 0 THEN timer - 1 ELSE 0
    /\ edge' = (main \in {"drivers", "monitors"})
    /\ UNCHANGED <<main, loop, at, taskVars, queue, hand, dut, mon, ref, compared,
                   accepted, mismatch, faults>>

-----------------------------------------------------------------------------
(* The testcase and BaseBench.close_down *)

Goto(stage) == main' = stage /\ at' = 1 /\ edge' = FALSE
UnchangedElse == UNCHANGED <<taskVars, pathVars, mismatch, faults>>

EndBody ==
    /\ main = "body"
    /\ Goto("sequences")
    /\ UNCHANGED <<loop, timer>> /\ UnchangedElse

\* The tasks that schedule put on the bench's list of sequences.
ListedMutant == {t \in Blocking \cup Background : task[t] # "unscheduled"}
Listed == {t \in Blocking : task[t] # "unscheduled"}

SequencesDone ==
    /\ main = "sequences" /\ \A t \in Listed : task[t] = "done"
    /\ Goto("delay") /\ timer' = Delay
    /\ UNCHANGED loop /\ UnchangedElse

DelayOver ==
    /\ main = "delay" /\ timer = 0
    /\ Goto("drivers")
    /\ UNCHANGED <<loop, timer>> /\ UnchangedElse

\* BaseDriver.busy.
Busy(s) == queue[s] # <<>> /\ hand[s] # 0

\* Component.idle looks at the driver at a clock edge.  (Order has the
\* blocking components, here all.)
LookAtDriver ==
    /\ main = "drivers" /\ edge
    /\ IF Busy(Order[at]) THEN edge' = FALSE /\ UNCHANGED <<main, at>>
       ELSE IF at < Len(Order) THEN edge' = FALSE /\ at' = at + 1 /\ UNCHANGED main
       ELSE Goto("monitors")
    /\ UNCHANGED <<loop, timer>> /\ UnchangedElse

\* A monitor is never locked by the framework: idle only takes an edge.
LookAtMonitor ==
    /\ main = "monitors" /\ edge
    /\ IF at < Len(Order) THEN edge' = FALSE /\ at' = at + 1 /\ UNCHANGED main
       ELSE Goto("processes")
    /\ UNCHANGED <<loop, timer>> /\ UnchangedElse

\* The processes are awaited in the first loop, then forgotten.
ProcessesDone ==
    /\ main = "processes"
    /\ loop = 1 => \A t \in Process : task[t] = "done"
    /\ Goto("drain")
    /\ UNCHANGED <<loop, timer>> /\ UnchangedElse

\* The channel's drain returns (policy MON_AND_REF).
DrainedMutant(s) == mon[s] = <<>>
Drained(s) == mon[s] = <<>> /\ ref[s] = <<>>

DrainChannel ==
    /\ main = "drain" /\ at \in DOMAIN Order /\ Drained(Order[at])
    /\ at' = at + 1
    /\ UNCHANGED <<main, loop, timer, edge>> /\ UnchangedElse

\* for loop_idx in range(loops)
LastLoopEarlyMutant == loop + 1 >= Loops
LastLoop == loop >= Loops

EndLoop ==
    /\ main = "drain" /\ at \notin DOMAIN Order
    /\ IF LastLoop THEN Goto("teardown") /\ UNCHANGED loop
       ELSE Goto("sequences") /\ loop' = loop + 1
    /\ UNCHANGED timer /\ UnchangedElse

\* The teardown steps are done: the scoreboard decides.
Conclude ==
    /\ main = "teardown"
    /\ Goto(IF mismatch THEN "failed" ELSE "passed")
    /\ UNCHANGED <<loop, timer>> /\ UnchangedElse

\* with_timeout gives up on the body and on close_down.
TimeOut ==
    /\ HasTimeout /\ ~Over
    /\ Goto("failed")
    /\ UNCHANGED <<loop, timer>> /\ UnchangedElse

-----------------------------------------------------------------------------
StreamStep(s) == BeginDrive(s) \/ EndDrive(s) \/ Capture(s) \/ Compare(s)

MainStep ==
    \/ EndBody \/ SequencesDone \/ DelayOver \/ LookAtDriver \/ LookAtMonitor
    \/ ProcessesDone \/ DrainChannel \/ EndLoop \/ Conclude

Next ==
    \/ MainStep \/ TimeOut \/ Tick
    \/ (\E t \in Task : Schedule(t) \/ Send(t) \/ Finish(t))
    \/ (\E s \in Stream : StreamStep(s) \/ Lose(s))

Spec == Init /\ [][Next]_vars

\* The clock runs, every task runs when it can, the design puts out what it
\* holds, and blocking sequences, processes and the body end.
Fairness ==
    /\ WF_vars(Tick) /\ WF_vars(MainStep)
    /\ \A s \in Stream : WF_vars(BeginDrive(s) \/ EndDrive(s)) /\ WF_vars(Capture(s))
                         /\ WF_vars(Compare(s))
    /\ \A t \in Blocking \cup Process : WF_vars(Finish(t))

FairSpec == Spec /\ Fairness

-----------------------------------------------------------------------------
(* How many shutdown loops a testbench needs *)

\* Stream s is calm after loop calm[s]: no task and no handler enqueues in it
\* any more.  Close_down awaits blocking sequences in every loop, and processes
\* at the end of the first.  In the loop after that it finds the driver's queue
\* empty, and so, if the model predicts before the drive, the channel's drain
\* is for all of the stream's transactions; if after the drive, the last one
\* may still be driven, and it takes a further loop.
LoopsFor(s, calm) == calm[s] + (IF ModelOn[s] = "PRE_DRIVE" THEN 1 ELSE 2)

Calms(calm) ==
    /\ \A t \in Background : Target[t] = NoStream
    /\ \A t \in Process, s \in Stream : Target[t] = s => calm[s] >= 1
    /\ \A s \in Stream, r \in Stream : Reaction[s] = r => calm[r] >= LoopsFor(s, calm)

\* Shutdown_loops is enough for the longest chain of reactions, and
\* shutdown_delay for the longest drive if a model predicts after it.
EnoughLoops ==
    /\ \E calm \in [Stream -> 0 .. Loops] :
         Calms(calm) /\ \A s \in Stream : LoopsFor(s, calm) <= Loops
    /\ \A s \in Stream : ModelOn[s] = "POST_DRIVE" => MaxDrive <= Delay

-----------------------------------------------------------------------------
(* Properties *)

\* A test passes only after every transaction of a blocking sequence, of a
\* process and of a handler has been driven, captured and compared, although
\* close_down looks at sequences, drivers and channels one after the other
\* and BaseDriver.busy is false while the last transaction is being driven.
PassedIsComplete ==
    main = "passed" => \A s \in Stream : compared[s] = accepted[s]

\* A test does not pass when the design has corrupted or lost a transaction.
PassedIsFaultless == main = "passed" => faults = 0

\* A test of a design without faults ends, be it that its timeout never comes,
\* and does not wait for sequences that were scheduled as non-blocking.
Concludes == <>(Over \/ faults > 0)
=============================================================================
