----------------------------- MODULE StreamBench ------------------------------
(***************************************************************************)
(* The example benches of forastero, examples/arbiter_strict and           *)
(* examples/arbiter_window, end to end: sequences or the body of a         *)
(* testcase enqueue on two stream drivers, a 2-to-1 arbiter forwards what  *)
(* they drive, a monitor captures its output under backpressure, and a     *)
(* model predicts it.                                                      *)
(*                                                                         *)
(* All tasks that wait for a clock edge see the signals as they were       *)
(* before it, so an edge is one step.  What happens between two edges      *)
(* takes no simulated time: the next edge waits until the bench has        *)
(* Settled.  The order in which the tasks of one edge run shows in idle    *)
(* only.  Sequences get their locks as AtomicLocks promises.               *)
(*                                                                         *)
(* The data of a transaction is its stream and its number there; model and *)
(* filter both set bit 32, so what is compared is the item itself.         *)
(***************************************************************************)
EXTENDS AtomicLocks, Naturals, Sequences, SequencesExt

CONSTANTS
    Tests,      \* the testcases: "random" and "random_seq"
    Traffic,    \* contexts of stream_traffic_seq
    Burst,      \* contexts of burst_on_a_only
    On,         \* On[c]: the stream that c's sequence enqueues on
    Length,     \* packets of each traffic sequence and of each burst (bound)
    Packets,    \* packets of the testcase random (bound)
    NoItem      \* "nothing": no valid data

Stream == {"a", "b"}
Other(s) == IF s = "a" THEN "b" ELSE "a"

ASSUME LockAssumption == LockId = Stream
ASSUME NoItemAssumption == NoItem \notin Stream \X (Nat \ {0})
ASSUME CtxAssumption == Traffic \cup Burst = Ctx /\ Traffic \cap Burst = {}
ASSUME HolderAssumption == NoCtx \notin Ctx
ASSUME OnAssumption == On \in [Ctx -> Stream]
ASSUME LengthAssumption == Length \in Nat /\ Packets \in Nat
ASSUME TestsAssumption == Tests \subseteq {"random", "random_seq"}

VARIABLES
    test,       \* the testcase that runs
    left,       \* how often each sequence still enters its lock context
    phase,      \* where a burst is inside its lock context
    count,      \* number of transactions enqueued on each driver
    queue,      \* the _queue of each driver
    hand,       \* what each driver is driving: valid and data of its interface
    choice,     \* arb_choice_q: the stream that was served last
    reg,        \* arb_valid_q and arb_data_q
    ready,      \* i_x_ready, driven by the responder
    refs,       \* the two reference queues of the strict bench
    expected,   \* the references of the window bench (testcase random)
    residence,  \* residence[i]: how often a capture was compared with expected[i]
    captured,   \* what the monitor captured, in order
    passed,     \* items of the other stream accepted while s offers this one
    intruders   \* items of the other stream accepted during the burst

dut == <<choice, reg, ready>>
lists == <<refs, expected, residence, captured>>
counts == <<passed, intruders>>
bvars == <<avars, test, left, phase, count, queue, hand, dut, lists, counts>>

Item == Stream \X (Nat \ {0})
Phases == {"off", "idle1", "idle2", "go", "burst", "leave"}
Needs(c) == IF c \in Burst THEN Stream ELSE {On[c]}

BenchInit ==
    /\ AtomicInit
    /\ test \in Tests
    /\ left = [c \in Ctx |-> IF test = "random" THEN 0
                             ELSE IF c \in Traffic THEN Length ELSE 1]
    /\ phase = [c \in Ctx |-> "off"]
    /\ count = [s \in Stream |-> 0]
    /\ queue = [s \in Stream |-> <<>>]
    /\ hand = [s \in Stream |-> NoItem]
    /\ choice = "b" /\ reg = NoItem /\ ready = FALSE
    /\ refs = [s \in Stream |-> <<>>] /\ expected = <<>> /\ residence = <<>>
    /\ captured = <<>>
    /\ passed = [s \in Stream |-> 0] /\ intruders = 0

-----------------------------------------------------------------------------
(* The testcase random: its body enqueues everything without an await *)

\* Neither stream gets far ahead of the other.
TakeAMutant(na, nb) == {x \in BOOLEAN : (nb > na + 3 => x) /\ (na >= nb + 2 => ~x)}
TakeA(na, nb) == {x \in BOOLEAN : (nb > na + 2 => x) /\ (na >= nb + 2 => ~x)}

Loaded == test = "random" => count["a"] + count["b"] = Packets

\* n new items of stream s.
Fresh(s, n) == [i \in 1 .. n |-> <<s, count[s] + i>>]

Enqueue(s, n) ==
    /\ queue' = [queue EXCEPT ![s] = @ \o Fresh(s, n)]
    /\ count' = [count EXCEPT ![s] = @ + n]

\* One turn of the loop; the window bench's model follows the ENQUEUE event.
Load ==
    /\ ~Loaded
    /\ \E x \in TakeA(count["a"], count["b"]) :
         LET s == IF x THEN "a" ELSE "b"
         IN  Enqueue(s, 1) /\ expected' = expected \o Fresh(s, 1)
    /\ residence' = Append(residence, 0)
    /\ UNCHANGED <<avars, test, left, phase, hand, dut, refs, captured, counts>>

-----------------------------------------------------------------------------
(* The sequences of random_seq *)

\* ctx.lock, around each packet of the traffic, and around a whole burst.
Request(c) ==
    /\ left[c] > 0 /\ Ask(c)
    /\ wants' = [wants EXCEPT ![c] = Needs(c)]
    /\ left' = [left EXCEPT ![c] = @ - 1]
    /\ UNCHANGED <<test, phase, count, queue, hand, dut, lists, counts>>

\* The locks are granted; a burst begins to wait for its drivers to be idle.
Granted(c) ==
    /\ Answer(c)
    /\ phase' = IF c \in Burst THEN [phase EXCEPT ![c] = "idle1"] ELSE phase
    /\ UNCHANGED <<test, left, count, queue, hand, dut, lists, counts>>

\* The body of the traffic's lock context has no await: one packet, and out.
OnePacket(c) ==
    /\ c \in Traffic /\ Leave(c)
    /\ Enqueue(On[c], 1)
    /\ UNCHANGED <<test, left, phase, hand, dut, lists, counts>>

\* Both drivers have been idle: the burst is enqueued as a whole.
WholeBurst(c) ==
    /\ phase[c] = "go"
    /\ Enqueue(On[c], Length)
    /\ phase' = [phase EXCEPT ![c] = "burst"]
    /\ intruders' = 0
    /\ UNCHANGED <<avars, test, left, hand, dut, lists, passed>>

\* The driver has been idle again: the end of the burst's lock context.
BurstOver(c) ==
    /\ phase[c] = "leave" /\ Leave(c)
    /\ phase' = [phase EXCEPT ![c] = "off"]
    /\ UNCHANGED <<test, left, count, queue, hand, dut, lists, counts>>

-----------------------------------------------------------------------------
(* The drivers, the design and the monitor *)

\* StreamInitiator.drive up to its first await.
Offer(s) ==
    /\ Loaded /\ hand[s] = NoItem /\ queue[s] # <<>>
    /\ hand' = [hand EXCEPT ![s] = Head(queue[s])]
    /\ queue' = [queue EXCEPT ![s] = Tail(@)]
    /\ UNCHANGED <<avars, test, left, phase, count, dut, lists, counts>>

Settled ==
    /\ Loaded
    /\ \A s \in Stream : hand[s] = NoItem => queue[s] = <<>>
    /\ \A c \in Ctx :
         \/ stage[c] = "outside" /\ left[c] = 0
         \/ stage[c] = "waiting" /\ (\E l \in wants[c] : holder[l] # NoCtx)
         \/ phase[c] \in {"idle1", "idle2", "burst"}

Valid(s) == hand[s] # NoItem

\* arb_choice_d: the stream that was not served last, if it has something.
ChoiceMutant == IF reg # NoItem /\ ~ready THEN choice ELSE Other(choice)
Choice == CASE reg # NoItem /\ ~ready -> choice
            [] OTHER -> IF choice = "b" THEN (IF Valid("a") THEN "a" ELSE "b")
                                        ELSE (IF Valid("b") THEN "b" ELSE "a")

\* The register can take a new item: it is empty or is being emptied.
LoadableMutant == TRUE
Loadable == reg = NoItem \/ ready

\* o_a_ready and o_b_ready, and the streams whose item goes over at this edge.
Ready(s) == Loadable /\ Choice = s
Accepted == {s \in Stream : Valid(s) /\ Ready(s)}

\* The registers of the design.  (The data of an interface that is not valid
\* is no item.)
Clock ==
    /\ reg' = IF Loadable THEN hand[Choice] ELSE reg
    /\ choice' = IF reg' # NoItem THEN Choice ELSE choice

\* After POST_DRIVE the driver goes on with the next transaction, if any.
DriveNext ==
    /\ hand' = [s \in Stream |-> IF s \notin Accepted THEN hand[s]
                                 ELSE IF queue[s] = <<>> THEN NoItem ELSE Head(queue[s])]
    /\ queue' = [s \in Stream |-> IF s \in Accepted /\ queue[s] # <<>>
                                  THEN Tail(queue[s]) ELSE queue[s]]

\* The monitor captures, and the channel compares with the heads of both
\* reference queues (strict) or within the window (window).
Capture == reg # NoItem /\ ready

\* POST_DRIVE makes the model of the strict bench push its prediction.
PredictedMutant(s) == <<>>
Predicted(s) == IF s \in Accepted THEN <<hand[s]>> ELSE <<>>

\* The window bench compares with the first equal one of the next 4 references,
\* and with the first of all if none is.  Every reference that it looks at on
\* its way counts the visit and would raise at the fifth; the test would fail
\* either way (WindowSuffices says that neither happens).
Matches == {i \in 1 .. 4 : i <= Len(expected) /\ expected[i] = reg}
Matched == IF Matches = {} THEN 1 ELSE Min(Matches)

Visits == [i \in DOMAIN residence |-> residence[i] + (IF i <= Matched THEN 1 ELSE 0)]

Compare ==
    /\ captured' = IF Capture THEN Append(captured, reg) ELSE captured
    /\ expected' = IF Capture /\ expected # <<>> THEN RemoveAt(expected, Matched) ELSE expected
    /\ residence' = IF Capture /\ expected # <<>> THEN RemoveAt(Visits, Matched) ELSE residence
    /\ refs' = [s \in Stream |->
                  (IF Capture /\ refs[s] # <<>> /\ Head(refs[s]) = reg
                   THEN Tail(refs[s]) ELSE refs[s]) \o Predicted(s)]

\* BaseDriver.busy: something queued, and something in hand.
Busy(q, h) == q # <<>> /\ h # NoItem

\* The driver a burst waits for, and where it is when that driver is idle.
AwaitedMutant(c) == On[c]
Awaited(c) == IF phase[c] = "idle2" THEN Other(On[c]) ELSE On[c]
AfterIdle == [idle1 |-> "idle2", idle2 |-> "go", burst |-> "leave"]

\* Component.idle looks at the driver before or after the driver's own step.
Idle ==
    \E first \in BOOLEAN :
        phase' = [c \in Ctx |->
            IF phase[c] \in DOMAIN AfterIdle
               /\ LET s == Awaited(c)
                  IN  ~(IF first THEN Busy(queue[s], hand[s]) ELSE Busy(queue'[s], hand'[s]))
            THEN AfterIdle[phase[c]] ELSE phase[c]]

\* A rising edge of the clock.  The responder drives any ready it likes.
Edge ==
    /\ Settled
    /\ Clock /\ DriveNext /\ Compare /\ Idle
    /\ ready' \in BOOLEAN
    /\ passed' = [s \in Stream |-> IF s \in Accepted \/ ~Valid(s) THEN 0
                                   ELSE IF Other(s) \in Accepted THEN passed[s] + 1
                                   ELSE passed[s]]
    /\ intruders' = IF \E c \in Burst : phase[c] = "burst" /\ Other(On[c]) \in Accepted
                    THEN intruders + 1 ELSE intruders
    /\ UNCHANGED <<avars, test, left, count>>

SeqStep(c) == Request(c) \/ Granted(c) \/ OnePacket(c) \/ WholeBurst(c) \/ BurstOver(c)

BenchNext == Load \/ Edge \/ (\E s \in Stream : Offer(s)) \/ (\E c \in Ctx : SeqStep(c))

BenchSpec == BenchInit /\ [][BenchNext]_bvars

\* Time goes on, every task runs, and the backpressure is not for ever (the
\* responder picks ready anew, at random, every few cycles).
BenchFairSpec ==
    /\ BenchSpec
    /\ WF_bvars(Load) /\ WF_bvars(Edge /\ ready')
    /\ \A s \in Stream : WF_bvars(Offer(s))
    /\ \A c \in Ctx : WF_bvars(SeqStep(c))

-----------------------------------------------------------------------------
(* Properties *)

\* Everything enqueued on the two drivers comes out of the bench as a merge of
\* the two streams, through drivers, design and monitor, and as long as the
\* references that are not used up are exactly those of what is inside the
\* design: no false mismatch, whatever the backpressure.
Pending == [s \in Stream |->
    refs[s] \o ((IF hand[s] = NoItem THEN <<>> ELSE <<hand[s]>>) \o queue[s])]
Merge == INSTANCE StreamMerge WITH pending <- Pending, out <- captured

MergesStreams == Merge!MergeSpec

\* A capture is predicted: the strict bench compares it when the prediction,
\* made by the POST_DRIVE of another task, is at the head of its queue.
CaptureIsPredicted ==
    reg # NoItem => \E s \in Stream : refs[s] # <<>> /\ Head(refs[s]) = reg

\* The window of 4 of the window bench is wide enough for the drift that its
\* testcase random allows between the streams: no capture is further back in
\* the order of enqueueing (and 3 would be too small).  Nor does a prediction
\* that captures of the other stream pass by stay in the window for so many of
\* them that the channel would raise, although it is within the window.
WindowSuffices ==
    test = "random" /\ reg # NoItem =>
        Matches # {} /\ \A i \in 1 .. Matched : residence[i] < 4

\* Round robin: while a driver offers an item, the other stream gets ahead of
\* it once at most.
NoStarvation == \A s \in Stream : passed[s] <= 1

\* burst_on_a_only locks the other driver and waits for it "to ensure it is
\* idle".  idle returns while the last transaction is being driven, so one
\* item of the other stream may get in between, but never a second one.
BurstNearlyAlone == intruders <= 1

\* Everything that the testcase enqueues comes out in the end, and sequences
\* that contend for the two drivers all finish.
Completes ==
    <>(/\ Loaded /\ \A c \in Ctx : stage[c] = "outside" /\ left[c] = 0
       /\ Len(captured) = count["a"] + count["b"])
=============================================================================
