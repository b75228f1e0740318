----------------------------- MODULE SeqArbiter ------------------------------
(***************************************************************************)
(* The lock manager of forastero's sequences: SeqLock, SeqArbiter and the  *)
(* context manager SeqContext.lock (forastero/sequence.py).                *)
(*                                                                         *)
(* cocotb schedules co-operatively: a task runs until it awaits something  *)
(* that is not ready.  A step of a sequence is therefore enabled only      *)
(* while the arbiter task is Suspended, and the arbiter's own scan over    *)
(* its queue is a run of uninterrupted steps between two awaits.           *)
(*                                                                         *)
(* The arbiter keeps its queue as a list but shuffles the list before each *)
(* scan, so the order carries no information: the queue is a set here, and *)
(* an entry, which the code identifies by its list index, is identified by *)
(* the context and the number of that context's request.                   *)
(***************************************************************************)
EXTENDS Naturals, Sequences, Functions

CONSTANTS
    Ctx,        \* sequence contexts
    LockId,     \* the locks of all components and all names
    NoCtx,      \* "nobody"
    Scope,      \* Scope[c]: the locks that c's sequence declares
    Requests,   \* lists of locks that a body passes to ctx.lock
    Known0,     \* locks that are registered before the first launch
    MaxRounds,  \* how often a sequence enters ctx.lock (bound)
    Raising,    \* contexts whose body may raise inside ctx.lock
    Forever     \* contexts whose body may stay inside ctx.lock for ever

ASSUME NoCtxAssumption == NoCtx \notin Ctx
ASSUME RequestsAssumption == Requests \subseteq Seq(LockId)
ASSUME ScopeAssumption == Scope \in [Ctx -> SUBSET LockId]
ASSUME KnownAssumption == Known0 \subseteq LockId
ASSUME RoundsAssumption == MaxRounds \in Nat

VARIABLES
    known,      \* keys of SeqLock._COMPONENT_LOCKS and _NAMED_LOCKS
    locked,     \* the state of each lock's cocotb primitive
    lockedBy,   \* SeqLock._locked_by
    seq,        \* where each sequence is: see Stages
    round,      \* number of times each sequence has entered ctx.lock
    need,       \* the local list "need" of SeqContext.lock
    evt,        \* the local event "evt" of queue_for: set or not
    queue,      \* SeqArbiter._queue
    evtQueue,   \* SeqArbiter._evt_queue: set or not
    unlocked,   \* the event the arbiter registered for UNLOCKED: set or not
    arb,        \* where _manage is: see ArbStages
    available,  \* the local set "available" of _manage
    order,      \* entries of this scan not looked at yet
    scheduled,  \* the local list "scheduled"
    entry,      \* the entry being scheduled
    pos         \* position in the entry's list of locks

lockVars == <<known, locked, lockedBy>>
seqVars  == <<seq, round, need, evt>>
scanVars == <<available, order, scheduled, entry, pos>>
arbVars  == <<queue, evtQueue, unlocked, arb, scanVars>>
vars     == <<lockVars, seqVars, arbVars>>

Stages == {"new", "outside", "queued", "inside", "raised"}
ArbStages == {"idle", "pass", "scan", "claim", "acquiring",
              "wait_unlocked", "wait_either", "dead"}
Entries == [ctx : Ctx, num : 1 .. MaxRounds, locks : Requests]
NoEntry == [ctx |-> NoCtx, num |-> 0, locks |-> <<>>]

\* The arbiter task awaits something: only then does another task run.
Suspended == arb \in {"idle", "acquiring", "wait_unlocked", "wait_either", "dead"}
Free == {l \in known : ~locked[l]}

Init ==
    /\ known = Known0
    /\ locked = [l \in LockId |-> FALSE]
    /\ lockedBy = [l \in LockId |-> NoCtx]
    /\ seq = [c \in Ctx |-> "new"]
    /\ round = [c \in Ctx |-> 0]
    /\ need = [c \in Ctx |-> <<>>]
    /\ evt = [c \in Ctx |-> FALSE]
    /\ queue = {} /\ evtQueue = FALSE /\ unlocked = FALSE
    /\ arb = "idle"
    /\ available = {} /\ order = {} /\ scheduled = {}
    /\ entry = NoEntry /\ pos = 1

-----------------------------------------------------------------------------
(* The sequences *)

\* BaseSequence.__call__: launching a sequence registers the locks of its
\* components and its named locks, creating those not known yet.
Launch(c) ==
    /\ Suspended /\ seq[c] = "new"
    /\ seq' = [seq EXCEPT ![c] = "outside"]
    /\ known' = known \cup Scope[c]
    /\ UNCHANGED <<locked, lockedBy, round, need, evt, arbVars>>

\* queue_for marks that a new entry was pushed.
TriggeredMutant == evtQueue
Triggered == TRUE

\* SeqContext.lock up to its await: set the re-entrancy flag (the stages
\* "queued", "inside" and "raised" are those with the flag set) and queue.
LockAll(c, list) ==
    /\ Suspended /\ seq[c] = "outside" /\ round[c] < MaxRounds
    /\ list \in Requests /\ Range(list) \subseteq Scope[c]
    /\ seq' = [seq EXCEPT ![c] = "queued"]
    /\ round' = [round EXCEPT ![c] = @ + 1]
    /\ need' = [need EXCEPT ![c] = list]
    /\ evt' = [evt EXCEPT ![c] = FALSE]
    /\ queue' = queue \cup {[ctx |-> c, num |-> round[c] + 1, locks |-> list]}
    /\ evtQueue' = Triggered
    /\ UNCHANGED <<lockVars, unlocked, arb, scanVars>>

\* The await on the entry's event is over: the body of the context starts.
Resume(c) ==
    /\ Suspended /\ seq[c] = "queued" /\ evt[c]
    /\ seq' = [seq EXCEPT ![c] = "inside"]
    /\ UNCHANGED <<lockVars, round, need, evt, arbVars>>

\* SeqLock.release for a set of locks that c holds: each release publishes
\* UNLOCKED, which sets the event of whoever waits for it at that moment.
Unlock(ls) ==
    /\ locked' = [l \in LockId |-> locked[l] /\ l \notin ls]
    /\ lockedBy' = [l \in LockId |-> IF l \in ls THEN NoCtx ELSE lockedBy[l]]
    /\ unlocked' = (unlocked \/ (ls # {} /\ arb \in {"wait_unlocked", "wait_either"}))

\* SeqLock.release asserts that the caller is the holder.
MayReleaseMutant(c, l) == locked[l]
MayRelease(c, l) == locked[l] /\ lockedBy[l] = c

\* SeqContext.release(lock) from inside the context.
ReleaseOne(c, l) ==
    /\ Suspended /\ seq[c] \in {"inside", "raised"} /\ MayRelease(c, l)
    /\ Unlock({l})
    /\ UNCHANGED <<known, seqVars, queue, evtQueue, arb, scanVars>>

\* The locks that are released at the end of the context.
RemainingMutant(c) == {l \in {need[c][1]} : lockedBy[l] = c}
Remaining(c) == {l \in Range(need[c]) : lockedBy[l] = c}

\* SeqContext.lock after its yield: release what is left and clear the flag.
ExitLock(c) ==
    /\ Suspended /\ seq[c] = "inside"
    /\ Unlock(Remaining(c))
    /\ seq' = [seq EXCEPT ![c] = "outside"]
    /\ UNCHANGED <<known, round, need, evt, queue, evtQueue, arb, scanVars>>

\* The body raises (a release of a lock that is not held does, too).  The
\* context manager has no "finally": nothing after its yield is executed.
Raise(c) ==
    /\ Suspended /\ seq[c] = "inside" /\ c \in Raising
    /\ seq' = [seq EXCEPT ![c] = "raised"]
    /\ UNCHANGED <<lockVars, round, need, evt, arbVars>>

-----------------------------------------------------------------------------
(* The arbiter task, SeqArbiter._manage *)

\* The wait at the top of the outer loop is over.
WakeIdle ==
    /\ arb = "idle" /\ evtQueue
    /\ arb' = "pass"
    /\ UNCHANGED <<lockVars, seqVars, queue, evtQueue, unlocked, scanVars>>

\* "while self._queue" ends: clear the trigger and go back to the top.
QueueDrained ==
    /\ arb = "pass" /\ queue = {}
    /\ evtQueue' = FALSE
    /\ arb' = "idle"
    /\ UNCHANGED <<lockVars, seqVars, queue, unlocked, scanVars>>

\* Every known lock is taken: wait for the next release, and only for that.
AwaitRelease ==
    /\ arb = "pass" /\ queue # {} /\ Free = {}
    /\ unlocked' = FALSE
    /\ arb' = "wait_unlocked"
    /\ UNCHANGED <<lockVars, seqVars, queue, evtQueue, scanVars>>

\* Take a snapshot of the free locks and of the queue, and scan it.
BeginScan ==
    /\ arb = "pass" /\ queue # {} /\ Free # {}
    /\ available' = Free
    /\ order' = queue
    /\ scheduled' = {}
    /\ arb' = "scan"
    /\ UNCHANGED <<lockVars, seqVars, queue, evtQueue, unlocked, entry, pos>>

\* "If any locks are unavailable, keep searching."
GrantableMutant(e) == Range(e.locks) \cap available # {}
Grantable(e) == Range(e.locks) \subseteq available

\* An entry with an unavailable lock stays queued.
SkipEntry(e) ==
    /\ arb = "scan" /\ e \in order
    /\ ~Grantable(e)
    /\ order' = order \ {e}
    /\ UNCHANGED <<lockVars, seqVars, queue, evtQueue, unlocked, arb,
                   available, scheduled, entry, pos>>

\* All the locks of the entry are available: start to claim them.
PickEntry(e) ==
    /\ arb = "scan" /\ e \in order
    /\ Grantable(e)
    /\ order' = order \ {e}
    /\ entry' = e /\ pos' = 1
    /\ arb' = "claim"
    /\ UNCHANGED <<lockVars, seqVars, queue, evtQueue, unlocked, available, scheduled>>

\* Take the lock just acquired off the snapshot.  set.remove raises for a lock
\* that is not in it, which ends the arbiter task.  cocotb fails a test one of
\* whose tasks raises; what its sequences do in the meantime is left open.
TakeOff(l) ==
    /\ available' = available \ {l}
    /\ IF l \in available
       THEN pos' = pos + 1 /\ arb' = "claim"
       ELSE arb' = "dead" /\ UNCHANGED pos

\* SeqLock.acquire takes the primitive, an await at which others may run.
Acquire ==
    /\ arb = "claim" /\ pos \in DOMAIN entry.locks
    /\ ~locked[entry.locks[pos]]
    /\ locked' = [locked EXCEPT ![entry.locks[pos]] = TRUE]
    /\ arb' = "acquiring"
    /\ UNCHANGED <<known, lockedBy, seqVars, queue, evtQueue, unlocked, scanVars>>

\* SeqLock.acquire resumes and records the holder.
Acquired ==
    /\ arb = "acquiring"
    /\ lockedBy' = [lockedBy EXCEPT ![entry.locks[pos]] = entry.ctx]
    /\ TakeOff(entry.locks[pos])
    /\ UNCHANGED <<known, locked, seqVars, queue, evtQueue, unlocked,
                   order, scheduled, entry>>

\* SeqLock.acquire returns at once when the context holds the lock already.
AlreadyHeld ==
    /\ arb = "claim" /\ pos \in DOMAIN entry.locks
    /\ locked[entry.locks[pos]] /\ lockedBy[entry.locks[pos]] = entry.ctx
    /\ TakeOff(entry.locks[pos])
    /\ UNCHANGED <<lockVars, seqVars, queue, evtQueue, unlocked,
                   order, scheduled, entry>>

\* The loop over the entry's locks is over.
AllClaimedMutant == pos \notin 1 .. Len(entry.locks) - 1
AllClaimed == pos \notin DOMAIN entry.locks

\* All locks are claimed: let the sequence go, and stop scanning when no
\* lock is left.
Grant ==
    /\ arb = "claim" /\ AllClaimed
    /\ evt' = [evt EXCEPT ![entry.ctx] = TRUE]
    /\ scheduled' = scheduled \cup {entry}
    /\ order' = IF available = {} THEN {} ELSE order
    /\ arb' = "scan"
    /\ UNCHANGED <<lockVars, seq, round, need, queue, evtQueue, unlocked,
                   available, entry, pos>>

\* What stays queued after a scan: pruning goes by entry, not by context.
PrunedMutant == {e \in queue : \A s \in scheduled : s.ctx # e.ctx}
Pruned == queue \ scheduled

\* "Only waits if no sequences were successfully scheduled."
ScanAgainMutant == FALSE
ScanAgain == scheduled # {}

\* The locals of a scan are set anew when the next one begins, and nothing reads
\* them before that: the model resets them here, where the code leaves them as
\* they are, so that states that differ in nothing else are one.
Forget == available' = {} /\ entry' = NoEntry /\ pos' = 1 /\ scheduled' = {}

\* The scan is over: prune what was scheduled.  After a scan without success
\* wait for a release or for a new request, otherwise scan again.
EndScan ==
    /\ arb = "scan" /\ order = {}
    /\ queue' = Pruned
    /\ Forget
    /\ IF ScanAgain
       THEN arb' = "pass" /\ UNCHANGED <<evtQueue, unlocked>>
       ELSE arb' = "wait_either" /\ evtQueue' = FALSE /\ unlocked' = FALSE
    /\ UNCHANGED <<lockVars, seqVars, order>>

\* One of the two waits inside the loop is over.
WakeWaiting ==
    /\ \/ arb = "wait_unlocked" /\ unlocked
       \/ arb = "wait_either" /\ (unlocked \/ evtQueue)
    /\ arb' = "pass"
    /\ UNCHANGED <<lockVars, seqVars, queue, evtQueue, unlocked, scanVars>>

ArbStep ==
    \/ WakeIdle \/ QueueDrained \/ AwaitRelease \/ BeginScan
    \/ (\E e \in order : SkipEntry(e) \/ PickEntry(e))
    \/ Acquire \/ Acquired \/ AlreadyHeld \/ Grant \/ EndScan \/ WakeWaiting

SeqStep(c) ==
    \/ Launch(c) \/ Resume(c) \/ ExitLock(c) \/ Raise(c)
    \/ (\E list \in Requests : LockAll(c, list))
    \/ (\E l \in LockId : ReleaseOne(c, l))

Next == ArbStep \/ (\E c \in Ctx : SeqStep(c))

Spec == Init /\ [][Next]_vars

\* The simulator's scheduler runs every task that can run, and a body that is
\* not one of Forever finishes.  Nothing makes a sequence ask for locks.
Fairness ==
    /\ WF_vars(ArbStep)
    /\ \A c \in Ctx : WF_vars(Resume(c))
    /\ \A c \in Ctx \ Forever : WF_vars(ExitLock(c))

FairSpec == Spec /\ Fairness

-----------------------------------------------------------------------------
(* Properties *)

TypeOK ==
    /\ known \subseteq LockId
    /\ locked \in [LockId -> BOOLEAN]
    /\ lockedBy \in [LockId -> Ctx \cup {NoCtx}]
    /\ seq \in [Ctx -> Stages]
    /\ round \in [Ctx -> 0 .. MaxRounds]
    /\ need \in [Ctx -> Requests \cup {<<>>}]
    /\ evt \in [Ctx -> BOOLEAN]
    /\ queue \subseteq Entries /\ evtQueue \in BOOLEAN /\ unlocked \in BOOLEAN
    /\ arb \in ArbStages
    /\ available \subseteq LockId
    /\ order \subseteq queue /\ scheduled \subseteq queue
    /\ entry \in queue \cup {NoEntry}
    /\ pos \in 1 .. Len(entry.locks) + 1
    /\ arb \in {"claim", "acquiring", "dead"} => entry \in queue
    /\ arb = "acquiring" => pos \in DOMAIN entry.locks

\* The context's request has been answered and it has not left again.
Entered(c) == seq[c] \in {"inside", "raised"} \/ (seq[c] = "queued" /\ evt[c])
Waiting(c) == seq[c] = "queued" /\ ~evt[c]
\* The arbiter is claiming locks for c, one by one.
Serving(c) == arb \in {"claim", "acquiring", "dead"} /\ entry.ctx = c

\* A context whose event is set holds every lock it asked for when its body
\* starts, however the one-by-one claims were interleaved with other
\* sequences (SeqArbiter._manage sets the event after the last claim).
GrantedHoldsAll ==
    \A c \in Ctx : seq[c] = "queued" /\ evt[c] =>
        \A l \in Range(need[c]) : lockedBy[l] = c

\* No hold-and-wait: a context owns a lock only while it is inside its lock
\* context, or for the moment in which the arbiter is completing its request.
\* Without this two sequences could wait for each other for ever.
NoHoldAndWait ==
    \A l \in LockId : lockedBy[l] # NoCtx =>
        Entered(lockedBy[l]) \/ (Waiting(lockedBy[l]) /\ Serving(lockedBy[l]))

NamesTwice(list) == ~IsInjective(list)

\* The snapshot of free locks is never stale when it is used: each lock that
\* the arbiter goes on to claim is free, so that the arbiter, on which every
\* sequence depends, never blocks inside SeqLock.acquire, and dies there only
\* of a request that names a lock twice.
ClaimNeverFails ==
    /\ arb = "dead" => NamesTwice(entry.locks)
    /\ arb = "claim" /\ pos \in DOMAIN entry.locks /\ locked[entry.locks[pos]] =>
        NamesTwice(entry.locks) /\ lockedBy[entry.locks[pos]] = entry.ctx

\* A waiting request is in the queue: neither the pruning by index at the end
\* of a scan nor a request that arrives during the scan loses it.
NoLostRequest ==
    \A c \in Ctx : Waiting(c) =>
        [ctx |-> c, num |-> round[c], locks |-> need[c]] \in queue

\* The arbiter sleeps: it waits for events none of which is set.
Asleep ==
    \/ arb = "idle" /\ ~evtQueue
    \/ arb = "wait_unlocked" /\ ~unlocked
    \/ arb = "wait_either" /\ ~unlocked /\ ~evtQueue

\* No lost wake-up: while the arbiter sleeps, no queued request could be
\* answered (clearing _evt_queue and registering for UNLOCKED race with
\* queue_for and release, which run while the arbiter awaits a claim).
NoLostWakeup ==
    Asleep => \A e \in queue : ~(Range(e.locks) \subseteq Free)

\* A lock never passes from one context to another: in one step it can only
\* become free, and only by a step of the context that holds it.
LockHandover ==
    [][\A l \in LockId :
          lockedBy[l] # NoCtx /\ lockedBy'[l] # lockedBy[l] =>
            /\ lockedBy'[l] = NoCtx
            /\ ~locked'[l]
            /\ seq[lockedBy[l]] \in {"inside", "raised"}]_vars

\* The one-by-one claiming of locks looks to the sequences like an atomic
\* grant: ownership becomes visible when the entry's event is set.
Atomic == INSTANCE AtomicLocks WITH
    holder <- [l \in LockId |->
                 IF lockedBy[l] \in Ctx /\ Entered(lockedBy[l])
                 THEN lockedBy[l] ELSE NoCtx],
    stage  <- [c \in Ctx |-> IF Entered(c) THEN "inside"
                             ELSE IF Waiting(c) THEN "waiting" ELSE "outside"],
    wants  <- [c \in Ctx |-> Range(need[c])]

GrantsAtomically == Atomic!AtomicSpec

\* "Locks will only be claimed if all locks are available, otherwise it will
\* wait until such a condition can be met": a request does not wait for ever
\* while all the locks it asks for stay free.
NoWaitWhileFree ==
    \A c \in Ctx :
        ~<>[](Waiting(c) /\ \A l \in Range(need[c]) : l \in Free)

\* A lock that c asked for is kept by a body that does not end or has raised.
Blocked(c) ==
    \E l \in Range(need[c]) :
        lockedBy[l] # NoCtx /\ (lockedBy[l] \in Forever \/ seq[lockedBy[l]] = "raised")

\* Every request is answered when demand is finite, in whatever order the
\* queue is shuffled, unless a body keeps one of its locks for good or the
\* arbiter is dead, which ClaimNeverFails explains.
EveryRequestAnswered ==
    \A c \in Ctx : [](Waiting(c) => <>(~Waiting(c) \/ []Blocked(c) \/ arb = "dead"))
=============================================================================
