# Forastero in TLA+

[Forastero](https://github.com/Intuity/forastero) is a verification framework on
top of cocotb: a testbench registers *drivers* and *monitors*, *sequences* take
locks on them and enqueue stimulus, a *scoreboard* compares what monitors capture
with what a reference model predicts, and a *bench* runs testcases and decides
when one is over. Its hard parts are those of every co-operative scheduler:
state read before an `await` and used after it, wake-ups that may be missed,
waits for something that does not come, and verdicts that must not depend on
timing. This directory models those parts and the example benches built with
them, checks the models with TLC and proves every safety property that the runs check with TLAPS.

Files: a module for each component, `MC<Module>.tla` with the definitions of its
small instances, one `.cfg` for each run, `<Module>Proofs.tla` with theorems (those of the three
modules about locks together in `LockProofs.tla`),
and `PROJECT.json`, which ties definitions to source lines, properties to the
hazards they are for and to the mutation of the model that breaks them.

    tlc -config arbiter.cfg MCSeqArbiter
    tlapm LockProofs.tla

## 1. Inventory

| component | state | operations | interacts with |
|---|---|---|---|
| `SeqLock` (sequence.py) | class-wide registries of locks; cocotb lock, holder | get, acquire, release | arbiter, contexts, shared event `UNLOCKED` |
| `SeqArbiter` | queue of (context, locks, event), trigger event | `queue_for`, task `_manage` | locks, contexts |
| `SeqContext` | "locks active" flag, its list of locks | `lock` (async context), `release` | arbiter |
| `SeqProxy` | component, lock, own waiters | forward events, `enqueue`, `wait_for` | driver, locks |
| `BaseSequence`, `SeqRandomVariable` | declared needs, random arguments, keywords of a call | decorate, call, launch, randomise | bench, proxies, contexts |
| `EventEmitter` (event.py) | handlers, one-shot waiters | subscribe, publish, wait_for | everything |
| `Queue` (queue.py) | entries, one-shot on-push event | push, pop(i), wait | driver, channels |
| `Component` (component.py) | ready event, lock | ready, lock, release, busy, idle | bench, driver, monitor |
| `BaseDriver` (driver.py) | queue, loop, events of transactions | enqueue, loop, busy | bench, sequences, model |
| `BaseMonitor` (monitor.py) | loop | capture | channel |
| `Channel` (scoreboard.py) | two queues, residence counts, lock, loop, polling task | capture, push_reference, compare, drain, poll | monitor, model, scoreboard |
| `FunnelChannel` | one reference queue for each name | the same, with a choice of queue | monitor, model |
| `Scoreboard` | channels, mismatches | attach, drain, result | bench |
| `BaseBench` (bench.py) | components, sequences, processes, ready event | initialise, reset, ready, schedule, close_down, testcase | all of them |
| `BaseBench.testcase` and `parameter` | parameter file, generated tests | look up, cast, permute, name | cocotb's test discovery |
| `BaseIO`, `SignalWrapper` (io.py) | signal handles, packing of fields | get, set, initialise | bench, drivers, design |
| examples (arbiter_strict, arbiter_window) | RTL and testbenches | sequences, model, filter | all of the above |

What makes each correct, and what is hard about it:

* **Locks and arbiter** - a sequence gets all its locks or none, never holds some
  while it waits for others, and is not forgotten; a testcase is not harmed by what
  an earlier one left locked, beyond those locks. The arbiter works on snapshots
  (free locks, queue indices) that it takes before a chain of awaits, and sleeps
  on events that are cleared and set by different tasks.
* **Proxies** - stimulus of one lock context stays together, and a wait ends with the
  event it was made for, although locks change hands and events come long after the
  call that caused them.
* **Launch of sequences** - a legal call starts with what its caller asked for, although
  keywords are taken out of a shared dictionary one by one.
* **Channels** - the verdict depends on the order of captures and of predictions
  and not on how the two interleave; nothing is lost between two queues; a drain
  neither returns early nor fails; what is stuck is reported in time and nothing else is.
* **Driver** - transactions are driven once and in order, whatever mixture of
  transactions and iterables is queued and whenever reset comes; the event that a
  caller awaits is set at the right moment, and set at all.
* **Start of a testcase** - every combination of parameters becomes a test, no component
  starts before the last reset is over, every component does start, and every input of
  the design is initialised and driven from one side.
* **End of a testcase** - a test does not pass before all of its work has been compared,
  although the shutdown looks at its parts one after another.
* **Example benches** - nothing is lost, repeated or reported wrongly between two streams
  of stimulus and the scoreboard, whatever the back-pressure; locks make bursts exclusive.

The hazards in full, each with its line and the properties aimed at it, are the
`hazards` of `PROJECT.json`.

## 2. How the code becomes actions

cocotb schedules co-operatively: a task runs until it awaits something that is
not ready. Two consequences are used throughout.

* A run of code between two *real* awaits is atomic, and a model may split it as
  long as no other task takes a step in between. Modules with a task of the
  framework have a predicate `Suspended` or `Settled` ("everything awaits something")
  which guards every step of everybody else, or the passing of time.
* Which awaits are real is read off the code. Popping a queue that is not empty
  and taking an uncontended `asyncio.Lock` do not suspend; taking a cocotb lock
  (`SeqLock.acquire`) does. Taking a *contended* `asyncio.Lock` needs an asyncio
  event loop, which does not run under cocotb, and raises; the models say so.

Data are abstract: a transaction is a model value (what it compares by), a
reference object is its push number, an enqueued transaction of `CloseDown` or
`StreamBench` is its number in its stream. A packed value is the set of its bits, the name of a
random argument a tuple of words. History variables (`captured`, `pushed`, `accepted`,
`driven`, `compared`, `passed`, `intruders`) record what happened in order to state properties; no
guard of the framework's code reads them, except as bounds on the input.

### Modules

Sequences:

* **AtomicLocks** - the promise of `SeqContext.lock`: one table of holders, and a
  request is answered in one step when all of its locks are free.
* **SeqArbiter** - `SeqLock`, `SeqContext.lock`/`release` and `SeqArbiter`. The
  stages of a sequence (`seq`) are the positions in `SeqContext.lock`; the
  positions of `arb` are those of `_manage`. A scan is a run of steps: take the
  snapshot (`BeginScan`), look at an entry (`SkipEntry`, `PickEntry`), claim its
  locks one after another with an await in each (`Acquire`, `Acquired`), answer
  (`Grant`), prune (`EndScan`). The queue is shuffled before each scan, so it is a
  set, and the code's list index is the pair of context and request number. The
  two kinds of sleep are different states: with no free lock the arbiter waits for
  a release (`wait_unlocked`), after a fruitless scan for a release or a request
  (`wait_either`). Locks are registered by `Launch`, bodies may raise.
* **TestSeries** extends SeqArbiter: the testcase ends at any moment, its tasks stop
  where they are, and the next one starts an arbiter of its own on the same registries.
* **SeqProxy** extends SeqArbiter: bodies that enqueue through a proxy while they hold the
  lock, the driver that publishes PRE_DRIVE later, the filter of the proxy, `wait_for`.
* **SeqLaunch** - declaration by decorators, calls, scheduling (the same call more than
  once, too), and the preamble of `BaseSequence.__call__`, which deletes from the
  keywords what it uses: components first, then one random argument after the other.

Scoreboard and driver:

* **Channel** - captures and predictions, the loop of `Channel` with `_dequeue` and
  the scoreboard's mismatch handler in line, and `drain` with the four policies.
* **FunnelChannel** - the same for several reference queues. The dictionary order
  of the queues is a constant, because the code takes the first equal head in it.
* **ChannelPolling** extends FunnelChannel (which inherits the task from `Channel`):
  time, the ages of queued captures, and the polling task. Its exception fails and ends the test.
* **Driver** - `enqueue`, `_get_from_queue` and `_driver_loop` over `Queue`, and reset
  that may come back, or be low from the start as with a bench that is told to skip it. The
  loop that finds the queue empty makes the one-shot event (`on_push`), and a push sets it if it is
  there. An iterable stays at the front of the queue while it yields. The
  event returned by `enqueue` for an iterable belongs to no transaction. `busy` and `idle`
  are in StreamBench and CloseDown, where somebody depends on them.

Bench:

* **TestPlan** - from a parameter file to tests: look-up under two keys, casts, the
  product of list values, names, and the module into which the tests are put by name.
* **BenchReady** - the start of a testcase: one task for each component calls
  `BaseBench.ready`, the testcase checks the registration, resets the design twice (the code
  does), sets `evt_ready` and awaits each `Component.ready`. A task that was started runs before
  a task that was waiting is resumed.
* **SignalIO** - `SignalWrapper` and `BaseIO`: where the fields of a signal are packed, get
  and set, and which signals `initialise` writes.
* **BenchStart** composes BenchReady and SignalIO (each reset initialises the buses of registered
  components, drivers write once they are ready), **TestStart** composes that with TestPlan.
* **CloseDown** - the body and the shutdown, composed with the parts it waits for.
  What the other modules model in detail is one step here: a fetch, the end of a
  drive, a comparison. At the end of a drive the loop takes the next transaction at once, as
  there is no real await in between. The reference model of a stream predicts on PRE_DRIVE or
  on POST_DRIVE (`ModelOn`). The design is external: a FIFO for each stream, as slow as
  it likes, which may corrupt or lose a transaction. `Tick` is a clock edge and
  occurs when everything that can run at this edge has run.

Examples:

* **StreamMerge** - what a bench around a stream arbiter should look like from outside:
  items are put into two streams and taken out of either.
* **StreamBench** - both example benches, one step for each clock edge, with the
  equations of `arbiter.sv`. Sequences get their locks as AtomicLocks promises, which
  SeqArbiter is shown to implement. The testcase `random` enqueues at
  once and is compared with a window (the residence counts included), `random_seq` runs traffic sequences and bursts and is
  compared with a funnel.

Proofs: **LockProofs** (SeqArbiter, SeqProxy, TestSeries), **SeqLaunchProofs**, **ChannelProofs**,
**ChannelPollingProofs** (with FunnelChannel), **DriverProofs**, **TestStartProofs** (BenchReady, SignalIO, TestPlan and their
composition), **CloseDownProofs** and **StreamBenchProofs**.

## 3. Runs

`pass` runs explore their instance completely; counts are distinct states.

| run | question | instance | states |
|---|---|---|---|
| arbiter | claims, pruning, wake-ups, refinement of AtomicLocks, answers | 3 sequences (one declares one lock only, one may raise, one may never let go), 2 locks, 2 requests each, some of which name a lock twice | 385848 |
| proxy | stimulus and events through proxies, one sequence with a request that names the driver twice | 2 sequences (one hasty, which may also raise), a driver and another lock, 3 transactions | 221581 |
| series | a testcase after one that was cut off | 2 testcases of 2 sequences, a named lock shared by both; no lock is registered at first | 47175 |
| launch | declarations, keywords, overrides, a call scheduled again | 2 functions, 11 sets of keywords (some wrong), 2 calls, 3 tasks | 94573 |
| channel | pairing, window, residence, fail_fast, drain | 4 settings, a filter, 3 captures and 4 predictions of 3 values | 324118 |
| funnel | no false mismatch, complete drains, and deserved timeouts of the polling task; safety only | 2 disjoint streams, up to 2 predictions each, 3 captures, no timeout or one of 1 with a period of 2 | 352527 |
| driver | order, events, progress | 3 transactions, single or in iterables of 2 and 1, a second reset | 38540 |
| start | from a parameter file to the body of a test | 4 files, 3 components registered in 3 ways (one forgets one), 5 signals (a struct, a missing one, one that is on no component's bus), with and without reset and initialisation | 187296 |
| close | does a test end, and does a pass mean complete and faultless? | 3 streams: a process on one, a reaction to it on another, a sequence on the third, whose model predicts on POST_DRIVE; a background sequence, 3 loops, 1 fault, a timeout at any time | 74250 |
| stream | the example benches from sequence to comparison, window and residence | 2 traffic sequences and 3 bursts of 2 packets, or 10 packets of `random` | 69419 |

Why these bounds are enough to be interesting. Two locks and three sequences
give partial overlap, contention and overtaking; two requests for each sequence
let a stale queue entry be confused with a new one. Three transactions in `proxy` are a block
that could be split, and an event for a wait with another event behind it. In `series` no lock is registered at first, so that the arbiter of the
second testcase can meet a state in which every lock that it knows of was left behind. The settings of `channel` are chosen
in its initial state (a scoreboard attaches each monitor with settings of its own):
windows of 1, 2 and 3, the last with MON_ONLY, and a window of 1 with fail_fast. A window of 2 with
three transactions makes a reference be stepped over, counted and matched late; a window of
3 adds a search that ends in the middle. In `funnel` a period that is longer than the timeout lets a
capture just miss a poll, and three captures let younger ones stand behind a stuck one. Two items in an iterable with a
third transaction behind it, and a reset between fetch and drive, reach every
branch of the driver's loop, and a push can come before, between and after the steps in which the loop waits. The files of `start` have a list in an own and in a shared entry, a list of values
that look alike, a null and an empty list. Two streams are what it takes to be looked at too early,
and `close` visits a reaction's stream before the one it reacts to; its three loops are what `EnoughLoops` (section 4) asks for and no more. Ten packets are
enough for `random` to reach its widest drift: with a window of 3 in place of 4 `WindowSuffices` fails.

### Fairness

cocotb runs every task that is ready, so a task's own steps are weakly fair
(`ArbStep`, `LoopStep`, `Resume`, `MainStep`, `Return`), and so is simulated time (`Tick`, `Edge`).
Nothing is assumed of the testbench
except what a property names: bodies of lock contexts end (all but `Forever`), drives
end, reset is released, blocking sequences and processes end, the design puts out what it
has been given. In `stream` the responder picks ready anew at random, so back-pressure is not for
ever. No fairness is given to requests, captures, predictions, early
releases, the end of a testcase or calls of `ready`: nobody has to make them.

### Runs that must fail

Each of these states what a docstring or page says and finds that the code does
something else; `findings` quotes both.

* **arbiter_new_lock** - with no lock free the arbiter waits for a release only. A
  lock registered meanwhile by the launch of a sequence is not noticed, and its
  request waits although the lock is free.
* **channel_residence** - residence is counted for each scan. With window 2, swapping
  two transactions, which is what the window is for, raises when the first scan had to wait.

### Limits of what passes

Facts of the code that a reader should know, because a passing property steps around them.

Sequences:

* A request that names a lock twice (two requirements bound to one component are enough)
  makes `available.remove` raise, and the arbiter task is gone ("dead"): nothing is answered
  afterwards. `arbiter` and `proxy` have such requests: `ClaimNeverFails` says that nothing else ends the arbiter,
  `EveryRequestAnswered` makes an exception for it, and what was answered before stays right. With cocotb an exception in a task
  also ends the test; here the sequences go on, which is more than can happen.
* `SeqContext.lock` has no `finally`, so a body that raises keeps its locks, although
  docs/sequences.md:130-131 says that they are released. `EveryRequestAnswered` makes an exception for
  requests blocked for good by such a lock or by a body that does not end.
* With cocotb 1.8 and later `locked` is a method and always true where sequence.py:257 tests it, so a proxy passes
  events on to the holder only. docs/sequences.md:97-99 lets everybody see the events of a component that nobody has
  locked. `Delivers` does what the code does, and there is no property that two sequences never see one event, as it would only repeat that test.
* What a test's end cuts off keeps its locks for the rest of the simulation (`LeftForGood`). Component locks belong to
  components of that test; named locks are shared with later tests, which wait for them for ever. If they are all that the registry has, the
  arbiter of a later test waits for a release that never comes, and a lock that is registered after that does not wake it, as in
  `arbiter_new_lock`: requests for free locks wait for ever. `AnsweredInLaterTests` makes an exception for this (`AwaitsRelease`).
* `EveryRequestAnswered` is about sequences that ask twice each. While others never stop asking, a request for several locks may be overtaken
  without bound, and nothing is claimed about that.
* A default of `choices` is drawn with `random.choices`, a list of one value (sequence.py:216). Ranges exclude their
  upper end (sequence.py:202 and 212; docs/sequences.md:344 and 357 say inclusive), so an override with equal ends raises. `OverridesHonoured` is therefore
  what docs/sequences.md:382-388 says of overrides, which holds; the list of one value contradicts docs/sequences.md:348 and 359.
  The check of an argument's name is for `_bitwidth`, the suffix is `_bit_width` (sequence.py:148 and 164), so an argument may have the
  name of another one's override; the other suffixes are not refused for requirements and other parameters either (`NamesApart` in section 4). An object that is scheduled twice
  has lost its components and overrides; `RelaunchIsPlain` says that it then fails or runs with defaults.

Scoreboard:

* With REF_ONLY or NON_BLOCKING a drain can get past its wait while the loop waits for a prediction with the
  lock held, and acquiring the contended lock raises (scoreboard.py:289; docs/scoreboard.md:134-135). `channel`
  has the other two policies and `DrainsSucceed` assumes them.
* If two streams of a funnel can carry equal transactions, the greedy choice of the first equal head (scoreboard.py:399)
  can report a mismatch for a legal interleaving: with x, y predicted in one queue and x, z in another, the captures x, z, x, y are in order, but the first
  x is taken from the first queue. `funnel` has disjoint streams, and `FunnelRaisesNoFalseAlarm` assumes them.
* With a window above 1 a mismatch in the last transactions is not reported: the loop waits for
  more predictions. `EqualTrafficDrains` is therefore about windows of 1; a channel timeout catches it.
* An age counts from the capture, so a transaction that has been queued behind a slow one may time out as soon as it is at
  the front. `TimeoutIsDeserved` says only that its prediction is still missing.

Driver and bench:

* The event that `enqueue` returns for an iterable with `PRE_DRIVE` or `POST_DRIVE` is set by
  nobody: every item gets a new one. No property of the run `driver` is about these events.
* `BaseDriver.busy` joins by `and` what its docstring joins by "or", so `idle` returns during the last drive and
  while queued stimulus waits for reset. `BurstNearlyAlone` says what is left of the exclusiveness of a burst:
  one foreign item.
* Items that are no transactions make `enqueue` raise before it has changed anything, and end the driver's loop if an iterable yields one
  (driver.py:118-122 and 152-156). `driver` has none.
* For the same reason only the minimum delays of the shutdown cover the last drive: with drives longer than all the
  delays together a test whose model predicts on POST_DRIVE can pass with transactions uncompared. `EnoughLoops` asks for one delay
  of the longest drive. Each link in a chain of reactions takes a shutdown loop, and so does a process,
  which is awaited after the drivers have been looked at. `close` has three loops; with the default of
  two TLC finds a passing test whose reaction was not compared (set `Loops = 2` in `close.cfg` and drop the assumption of `MCCloseDown`).
* A sequence scheduled with `blocking=False` is not waited for, and what it enqueues after its channel has been drained for the last
  time is not compared by the time of the verdict. The background sequence of `close` enqueues nothing: it only must not keep the test from ending. In `close` the body schedules; a sequence that is scheduled by a handler or another sequence after the last look at the
  list is not waited for either.
* The shutdown skips drivers and monitors with `blocking=False` (bench.py:399-401). All those of `close` are blocking, the default, and nothing is said of others.
* `BaseBench.ready` clears the event it waited for, so a caller that comes later waits for ever.
  `TestStarts` is about the components, all of which call in time.
* Only strings are cast, not the members of a list; a null in a testcase's own entry hides the shared
  entry; an empty list makes no test at all; combinations whose values look alike as text share a name and
  only the last is kept. `EveryCombinationRuns` names these exceptions. The name is joined with underscores (bench.py:623-627), so that values which have underscores
  themselves can collide though they look different, and a value that cannot be cast ends the import, with no test at all (bench.py:606-610): the files of `start` have
  neither.
* `SignalWrapper` takes the least significant index of a field from its range. Ranges that do not end at 0, or `_range` of cocotb 1 in
  ascending order, leave gaps or overlap; the fields of `start` do neither. The conversion of one-bit signals to bool and `set_default` are left out.

## 4. Proofs

| module | theorem | states | hypothesis |
|---|---|---|---|
| LockProofs | TypeCorrect | `[]TypeOK` | - |
| | GrantsAreComplete, NoHoldAndWaitHolds, ClaimsSucceed, RequestsAreKept | `GrantedHoldsAll`, `NoHoldAndWait`, `ClaimNeverFails`, `NoLostRequest` | NoDuplicates |
| | HandoverHolds | `LockHandover` | NoDuplicates |
| | ArbiterImplementsAtomicLocks | `Spec => Atomic!AtomicSpec` | NoDuplicates |
| | WakeupsAreKept | `[]NoLostWakeup` | AllKnown, NoEmptyRequest |
| | StimulusUndisturbed, WaitsWokenByNext | `Undisturbed`, `WokenByNext` | NoDuplicates |
| | LeftLocksStay | `LeftForGood` | - |
| SeqLaunchProofs | LegalCallsStart, RelaunchesArePlain | `LegalCallStarts`, `RelaunchIsPlain` | - |
| | OverridesAreHonoured | `OverridesHonoured` | NamesApart |
| ChannelProofs | PairingIgnoresTiming | `TimingIndependent` | - |
| | ChannelTypeCorrect, MismatchStops, DrainIsComplete | `TypeOK`, `StopsAtFirstMismatch`, `DrainLeavesNothing` | - |
| | DrainsSucceed | `DrainNeverFails` | WaitsForCaptures |
| ChannelPollingProofs | FunnelRaisesNoFalseAlarm | `NoFalseAlarm` | StreamsDisjoint |
| | FunnelDrainsCompletely | `DrainLeavesNothing` | - |
| | FrontStaysFresh, TimeoutsAreDeserved | `FrontIsFresh`, `TimeoutIsDeserved` | - |
| DriverProofs | DrivesKeepOrder | `DrivenInOrder` | - |
| | DriverTypeCorrect, EventsTellTheTruth | `TypeOK`, `EventTruthful` | - |
| TestStartProofs | ReadyTypeCorrect, StartsAfterReset, BodyIsSafe, InputsAreDefined | `TypeOK`, `NothingStartsInReset`, `BodyFindsAllReady`, `InputsDefined` | - |
| | StructsReadBack | `ReadsBack` | ZeroBased |
| | NoContention | `OneDriver` | OwnSide |
| | NoCombinationIsLost | `EveryCombinationRuns` | FiniteFiles |
| CloseDownProofs | PassedTestIsComplete, PassedTestIsFaultless | `PassedIsComplete`, `PassedIsFaultless` | EnoughLoops |
| StreamBenchProofs | ArbiterIsFair, CapturesArePredicted, BurstsNearlyAlone, WindowIsWideEnough | `NoStarvation`, `CaptureIsPredicted`, `BurstNearlyAlone`, `WindowSuffices` | - |
| | BenchMerges | `BenchSpec => Merge!MergeSpec` | - |

All hold for every value of the constants that satisfies the named assumptions of the
modules. The hypotheses:

* `NoDuplicates` - no request names a lock twice. Without it the arbiter dies in a claim; that
  `NoHoldAndWait`, `NoLostRequest`, the refinement, `ClaimNeverFails` as stated and `Undisturbed` survive even then is only
  model-checked (`arbiter`, `proxy`).
* `AllKnown` - all locks are registered from the start; without it a request can be missed, as in
  arbiter_new_lock. `NoEmptyRequest` - no request is for no lock at all; such a request is grantable
  while the arbiter waits for a release.
* `WaitsForCaptures` - the drain policy is MON_AND_REF or MON_ONLY (see the limits).
* `OwnSide` - drivers write signals of the side of the bus that the bench plays.
* `FiniteFiles` - values and parameters of a file are finite in number.
* `StreamsDisjoint` - a transaction tells which stream it belongs to. Without it the greedy choice can raise false alarms (see the limits).
* `NamesApart` - no parameter, requirement, lock or random argument has the name of a random argument and a suffix. The code
  refuses some of these names and not others (see the limits); with one of them an override is taken for two arguments.
* `ZeroBased` - the range of every field, as it is told to `SignalWrapper`, ends at index 0 (see the limits).
* `EnoughLoops` - there is a number `calm[s]` for each stream, the shutdown loop after which nothing enqueues in it any
  more: 0 if only blocking sequences do, at least 1 if a process does, at least `LoopsFor(r)` if a handler reacts to stream r; `LoopsFor(s)`, the loop
  that drains s for good, is `calm[s] + 1`, or `calm[s] + 2` if the model predicts on POST_DRIVE, and no more than `shutdown_loops`.
  If a model predicts on POST_DRIVE, the delay is as long as any drive. Background sequences enqueue nothing. The instance of `close` satisfies it (TLC evaluates it).

The arguments.

**SeqArbiter** (LockProofs). The four invariants are not inductive; `SafeInv` is the
conjunction of the types with three parts that need each other:
`QueueInv` - the entries not scheduled yet are exactly the current requests of the
waiting contexts, so an entry in a scan is never stale;
`HoldInv` - whoever holds a lock is inside and asked for it, or is being served and the
lock is among those claimed so far;
`SnapshotInv` - a lock in the arbiter's snapshot is free, unless it is the
one being acquired, and the locks still to be claimed are in it.
A claim cannot fail because of the snapshot; the snapshot stays good since only the
arbiter takes locks; the lock taken is the right one since the entry is current.
There is one lemma for each action and, under it, one step for each part. The
refinement shows ownership when the event of an entry is set: `Grant` is `Answer`,
`LockAll` is `Ask`, and every claim is a stutter. The wake-up theorem has an invariant
of its own, `WakeInv`, about what an arbiter that waits has looked at.

**SeqProxy.** `ProxyInv` adds to `SafeInv` what the order of enqueueing says about locks
(`SentInv`: the block of the holder, once begun, is the last one) and about waiters (`WaitInv`:
whoever waits with the lock has missed no event). That a lock changes hands
only through a new grant, which is a new lock context, comes from the arbiter's invariant.

**Channel.** `ChannelInv`: the lock is held exactly when the loop is past its wait for a capture, and then there
is one (`LockInv`); each comparison takes one capture and one prediction
(`CountInv`); a running loop has not counted past the window (`CountsInv`) and, under fail_fast, has
found no mismatch (`MatchInv`). A drain that finds the queues empty therefore
finds the lock free, and nothing in between them.

`TimingIndependent` compares the pairs with a verdict computed from the two whole streams by a recursive function.
`ReplayInv` says that there is a table of this computation up to the captures compared so far whose last row is the
present: the references left and the pairs made. It also says that a capture which took the head without being equal had
a whole window of predictions before it, so that no later prediction changes a row. Each comparison adds a row; that there is
only one table is shown for the least row in which two of them would differ.

**FunnelChannel** (ChannelPollingProofs). `PairsInv`: captures are the pairs and then the queue, each stream's predictions are those
paired from its queue and then what is left of it, and a mismatch was reported only when the next prediction of every stream was
known and none was the capture. If the captures are an interleaving of disjoint streams, then by a least
counterexample each pair takes its reference from the only stream its capture can be of, so the next prediction of that stream is the capture.

**TestSeries.** `SeriesInv` is the types and what is recorded of a lock: a free lock has no holder, and the one being
acquired has none yet. The invariant of SeqArbiter cannot be used across testcases: the sequences that were cut off
stay queued although the new arbiter's queue does not have them.

**ChannelPolling.** `PollInv`: a loop that waits for a prediction and has not been woken still has nothing to match
(`WaitInv`), the front of the queue is the oldest, and no age exceeds the timeout by more than the time since the
last look (`AgeInv`). The order of the ages is needed because each comparison brings another transaction to the front.

**Driver.** `DriverInv`: entries, the loop's hand and the design have only transactions that were accepted; a transaction
with an event of its own is in no iterable (their triggers are overwritten); and one equivalence for each
trigger between its event and where the transaction is. For `DrivesKeepOrder` the state is related to the order of
acceptance by a witness: for each entry of the queue the number `ahead` of items accepted before it (`Lined`), such that what has been served,
then the entries in turn, fill that order without a gap.

**SeqLaunch.** `LaunchInv`: what is declared comes from the decorators, no random argument is declared twice, nothing is declared once there is a call, and
tasks start one at a time in order. `FreshInv` and `KeepsInv` say exactly which keywords a call has left while its first task picks; a legal call
has then one override at most for each argument still to come, and in the end only what the function knows. `HonourInv` adds
that what was picked is as the caller asked (for this, a range that a caller gives is a pair of integers, `GivenInv`, since one drawn below its upper end also lies within its ends); `PlainInv` that a task which has begun leaves its first requirement out of the keywords, and that
one without requirements leaves no override, or none before an argument that cannot be drawn, where the next task fails as well (`Settled`).

**TestStart.** `ReadyInv` (nobody is woken before the end of the resets, and the testcase has
passed only components that are ready) for the first two; for inputs and contention, what has been
initialised by the time of each position of the testcase; for the tests, what is in the module
plus what is still to do is everything. `ReadsBack` is about positions defined by a recursive function, the sum of the
widths of the fields below. `SumsExist` shows that the sums exist (a least number of fields without them would have a predecessor
with them), so that fields that start at 0 fill a signal without gap or overlap; `BackInv` says that a signal that only
the bench has driven holds the value set last, unpacked.

**CloseDown.** `CloseInv` follows each stream through the shutdown. From the end of loop `calm[s]` nothing enqueues in s.
After the next look at its driver the queue is empty: `busy` may be false with a transaction in hand, but not with one queued, because
everything that can run at a clock edge has run before idle looks. With PRE_DRIVE the model has then predicted everything; with POST_DRIVE the drive ends in the
delay of the next loop. `Counted`: compared, predicted, still to predict and queued make up what was accepted. So a drain that finds both queues of the
channel empty has seen everything, and a lost or corrupted transaction (`FaultsTraced`) would have left the counts unequal or a mismatch.

**StreamBench.** `DataInv` says which items each queue, hand and reference queue may have, with the reference queues
exactly what is inside the design; `PassInv` ties `passed` to the design's choice. `Merge` shows the items not yet
captured: enqueueing is `Put`, a capture is `Take`, all else stutters. For bursts, `LockInv` and `BurstInv`: while
a burst is under way nobody else can enqueue and the other driver's queue is empty.
For the window, `WindowInv`: the random testcase keeps the two streams within an offset (`LoadInv`), so of two items in the reference queue
in the wrong order of the design's turns the numbers differ by two at most (`InOrder`); the design takes turns while
neither stream has ended (`TurnInv`); and the queue holds exactly the items of each stream from the first not captured (`Listed`). What can be
ahead of a capture is then three items at most. That they have not been passed over more than three times is `StayInv`: an item is passed over only by captures
of the other stream, by items enqueued after it, so that the count plus its number is at most a small slack above the other stream's first item not captured (`VisitInv`); and
while a stream has not ended, the other one is never far ahead of it, in what the design accepted and in what was captured (`LagInv`).

Only model-checked: the liveness properties, which need fairness and ENABLED, and these the prover does not have: `EveryRequestAnswered`,
`AnsweredInLaterTests`, `WaitReturns`, `EqualTrafficDrains`, `AllDriven`, `TestStarts`, `Concludes`, `Completes`; what holds beyond the hypotheses above; and
the two runs that must fail.

On recursion: the theorems of the library that prove by induction take an operator as a parameter, which no installed backend can
instantiate. Where a property speaks of a recursive function (`Verdict`, `Before`), its proof shows instead that the function is a certain
table, by the least element at which it would not be (`WFMin` and `NatLessThanWellFounded`).

Proved and not listed by any run: the type invariants, and `GrantedHoldsAll`, `LockHandover`,
`StopsAtFirstMismatch`, `OneDriver` and `NoStarvation`. A run would add nothing to their theorems.

## 5. What is not modelled

* `EventEmitter.unsubscribe_all`, which nothing calls, and coroutine handlers, which are started and not awaited.
* The reuse of an `id()` by the allocator in the residence counts, and a transaction object that is enqueued twice.
* The two clock generators of a bench with `clk_drive` and a reset (bench.py:523), which need a model of the simulator.
* Durations: the test timeout (given in nanoseconds, documented in clock ticks) may fire at any moment in `close`. Only
  ChannelPolling has time.
* What a user writes (`drive`, `monitor`, models, sequences) apart from the examples; the smoke tests and random_iterable of the examples, whose
  parts are in Driver and in the two modelled ones.
* Reading the JSON file, seeding, naming styles of signals, formatting, statistics, the post-mortem breakpoint and
  logging hold no behaviour worth a model.

## 6. Plan

Built, in the order of importance: AtomicLocks and SeqArbiter, Channel, FunnelChannel, Driver, BenchReady,
CloseDown; then SeqProxy, TestSeries, StreamBench, SignalIO, TestPlan and their
composition, SeqLaunch, ChannelPolling; and proofs of all safety properties.

What is left, by use:

1. **SeqArbiter** - the theorems under `NoDuplicates` for requests that do name a lock twice: an invariant that speaks of an arbiter that died in a claim, with the locks it had claimed.
2. **CloseDown** - that a design without faults is never failed by a mismatch: each stream's queues, read from the channel back to the driver, are consecutive numbers.
3. **Channel** - that with a window of 1, and whenever each capture is within the window of its prediction, no pair is a mismatch; and a refinement of the one channel step of CloseDown.
