------------------------------- MODULE SeqProxy -------------------------------
(***************************************************************************)
(* Sequences that use a driver through a SeqProxy (forastero/sequence.py,  *)
(* with forastero/event.py), on top of the lock manager of SeqArbiter.     *)
(*                                                                         *)
(* A proxy lets its sequence enqueue while it holds the driver's lock, and *)
(* passes on the events of the driver while it holds the lock, and, unlike *)
(* docs/sequences.md:97-99 says, only then.  The event modelled is         *)
(* PRE_DRIVE, which the docs let a sequence wait for after each            *)
(* transaction.  A sequence in wait_for takes no other step.  Handlers     *)
(* that a sequence subscribes with its proxy are left out.                 *)
(***************************************************************************)
EXTENDS SeqArbiter, SequencesExt

CONSTANTS
    Drv,        \* the lock of the driver behind the proxies
    Hasty,      \* contexts that enqueue and wait as they like
    MaxSent     \* how many transactions are enqueued (bound)

ASSUME DrvAssumption == Drv \in LockId
ASSUME SentAssumption == MaxSent \in Nat

VARIABLES
    sent,       \* the transactions enqueued, in order: by which context, and
                \* in which of its lock contexts
    emitted,    \* how many of them PRE_DRIVE was published for
    waiting,    \* the one-shot event of wait_for in each proxy's _waiting
    payload,    \* the payload of that event: the number of a transaction
    since       \* value of emitted when the context last called wait_for

proxyVars == <<sent, emitted, waiting, payload, since>>
pvars == <<vars, proxyVars>>

ProxyInit ==
    /\ Init
    /\ sent = <<>> /\ emitted = 0
    /\ waiting = [c \in Ctx |-> "off"]
    /\ payload = [c \in Ctx |-> 0]
    /\ since = [c \in Ctx |-> 0]

-----------------------------------------------------------------------------
\* SeqProxy._holds_lock tests the method locked of the cocotb lock, which as an
\* object is true, so only the holder counts.
HoldsLockMutant(c) == locked[Drv]
HoldsLock(c) == lockedBy[Drv] = c

\* The body of c is running inside ctx.lock.
Running(c) == Suspended /\ seq[c] = "inside" /\ waiting[c] = "off"

\* SeqProxy.enqueue raises for a sequence that does not hold the lock, which
\* is a Raise; for the holder it forwards to the driver.
Push(c) ==
    /\ Len(sent) < MaxSent
    /\ HoldsLock(c)
    /\ sent' = Append(sent, <<c, round[c]>>)

\* EventEmitter.wait_for registers a new one-shot event with the proxy.
Register(c) ==
    /\ waiting' = [waiting EXCEPT ![c] = "waiting"]
    /\ payload' = [payload EXCEPT ![c] = 0]
    /\ since' = [since EXCEPT ![c] = emitted]

\* enqueue, without waiting for anything.
Enqueue(c) ==
    /\ Running(c) /\ c \in Hasty /\ Push(c)
    /\ UNCHANGED <<vars, emitted, waiting, payload, since>>

\* wait_for on the proxy, holding the lock or not, inside or outside ctx.lock.
WaitFor(c) ==
    /\ Suspended /\ seq[c] \in {"outside", "inside"} /\ waiting[c] = "off"
    /\ c \in Hasty /\ Register(c)
    /\ UNCHANGED <<vars, sent, emitted>>

\* The pattern of the docs: enqueue, and wait for PRE_DRIVE in the same breath.
EnqueueAndWait(c) ==
    /\ Running(c) /\ Push(c) /\ Register(c)
    /\ UNCHANGED <<vars, emitted>>

\* wait_for returns to its caller.
Return(c) ==
    /\ Suspended /\ waiting[c] = "woken"
    /\ waiting' = [waiting EXCEPT ![c] = "off"]
    /\ payload' = [payload EXCEPT ![c] = 0]
    /\ since' = [since EXCEPT ![c] = 0]
    /\ UNCHANGED <<vars, sent, emitted>>

\* SeqProxy._event_callback: whose proxy publishes an event of the driver.  The
\* code means "nobody holds the lock, or this context does", but here too the
\* method stands for its result, and the first half is never true.  A proxy
\* subscribes when its sequence is launched, and never unsubscribes.
DeliversMutant(c) == seq[c] # "new" /\ ~locked[Drv]
Delivers(c) == seq[c] # "new" /\ HoldsLock(c)

\* The one-shot events that a publication sets: those still registered.
PendingMutant(c) == Delivers(c) /\ waiting[c] # "off"
Pending(c) == Delivers(c) /\ waiting[c] = "waiting"

\* The driver takes the next transaction and publishes PRE_DRIVE; each proxy
\* that passes it on sets and drops its waiters.
PreDrive ==
    /\ Suspended /\ emitted < Len(sent)
    /\ emitted' = emitted + 1
    /\ waiting' = [c \in Ctx |-> IF Pending(c) THEN "woken" ELSE waiting[c]]
    /\ payload' = [c \in Ctx |-> IF Pending(c) THEN emitted' ELSE payload[c]]
    /\ UNCHANGED <<vars, sent, since>>

ProxyStep(c) == Enqueue(c) \/ WaitFor(c) \/ EnqueueAndWait(c) \/ Return(c)

\* What the lock manager and the bodies do besides.
LockStep ==
    /\ \/ ArbStep
       \/ \E c \in Ctx : waiting[c] = "off" /\ SeqStep(c)
    /\ UNCHANGED proxyVars

ProxyNext == LockStep \/ PreDrive \/ (\E c \in Ctx : ProxyStep(c))

ProxySpec == ProxyInit /\ [][ProxyNext]_pvars

\* The driver drives what it is given, and a task whose event is set runs.
ProxyFairSpec ==
    ProxySpec /\ WF_pvars(PreDrive) /\ WF_pvars(LockStep)
              /\ (\A c \in Ctx : WF_pvars(Return(c)))

-----------------------------------------------------------------------------
(* Properties *)

ProxyTypeOK ==
    /\ TypeOK
    /\ sent \in Seq(Ctx \X (1 .. MaxRounds)) /\ Len(sent) <= MaxSent
    /\ emitted \in 0 .. Len(sent)
    /\ waiting \in [Ctx -> {"off", "waiting", "woken"}]
    /\ payload \in [Ctx -> 0 .. emitted] /\ since \in [Ctx -> 0 .. emitted]

\* "It allows the sequence the sole right to enqueue transactions" (docs/
\* sequences.md): what a sequence enqueues in one lock context reaches the
\* driver as one block, into which no other sequence gets a transaction,
\* although locks are claimed one by one and handed back early.
Undisturbed ==
    \A i, j, k \in DOMAIN sent : i < j /\ j < k /\ sent[i] = sent[k] => sent[j] = sent[i]

\* wait_for returns the FIRST event after the call, not one from before it and
\* not a later one that is published before the task runs again.
WokenByNext == \A c \in Ctx : waiting[c] = "woken" => payload[c] = since[c] + 1

\* A sequence that enqueues and then waits for PRE_DRIVE is resumed: it cannot
\* miss the event, whatever other sequences have queued or registered.
WaitReturns ==
    \A c \in Ctx \ Hasty : waiting[c] = "waiting" ~> waiting[c] = "off"
=============================================================================
