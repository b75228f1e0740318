------------------------------ MODULE LockProofs ------------------------------
(***************************************************************************)
(* Theorems about the locks, for every set of contexts, locks and requests:*)
(* about the lock manager (SeqArbiter), and about the two ways in which it *)
(* is used, the stimulus that goes through proxies and the events that     *)
(* come back (SeqProxy) and what one testcase leaves behind for the next   *)
(* (TestSeries).                                                           *)
(***************************************************************************)
EXTENDS SeqProxy, TestSeries, TLAPS

USE NoCtxAssumption, RequestsAssumption, ScopeAssumption, KnownAssumption,
    RoundsAssumption

-----------------------------------------------------------------------------
(* Type correctness *)

\* The initial state has its type.
LEMMA InitType == Init => TypeOK
<1> SUFFICES ASSUME Init PROVE TypeOK
  OBVIOUS
<1>1. pos \in 1 .. Len(entry.locks) + 1
  <2>1. entry.locks = <<>> /\ pos = 1
    BY DEF Init, NoEntry
  <2> QED BY <2>1
<1>2. /\ seq \in [Ctx -> Stages] /\ round \in [Ctx -> 0 .. MaxRounds]
      /\ need \in [Ctx -> Requests \cup {<<>>}] /\ evt \in [Ctx -> BOOLEAN]
  BY DEF Init, Stages
<1> QED
  BY <1>1, <1>2 DEF Init, TypeOK, ArbStages

\* No step of a sequence breaks the types.
LEMMA SeqType ==
    ASSUME TypeOK, NEW c \in Ctx, SeqStep(c)
    PROVE  TypeOK'
<1>1. CASE Launch(c)
  BY <1>1 DEF TypeOK, Launch, Stages, arbVars, scanVars
<1>2. CASE Resume(c)
  BY <1>2 DEF TypeOK, Resume, Stages, arbVars, lockVars, scanVars
<1>3. CASE ExitLock(c)
  BY <1>3 DEF TypeOK, ExitLock, Unlock, Stages, scanVars
<1>4. CASE Raise(c)
  BY <1>4 DEF TypeOK, Raise, Stages, arbVars, lockVars, scanVars
<1>5. ASSUME NEW list \in Requests, LockAll(c, list) PROVE TypeOK'
  <2> DEFINE e == [ctx |-> c, num |-> round[c] + 1, locks |-> list]
  <2>1. e \in Entries
    BY <1>5 DEF TypeOK, LockAll, Entries
  <2>2. queue' = queue \cup {e} /\ round' = [round EXCEPT ![c] = @ + 1]
    BY <1>5 DEF LockAll
  <2>3. round' \in [Ctx -> 0 .. MaxRounds]
    BY <1>5, <2>2 DEF TypeOK, LockAll
  <2> QED
    BY <1>5, <2>1, <2>2, <2>3 DEF TypeOK, LockAll, Stages, Triggered, lockVars, scanVars
<1>6. ASSUME NEW l \in LockId, ReleaseOne(c, l) PROVE TypeOK'
  BY <1>6 DEF TypeOK, ReleaseOne, Unlock, seqVars, scanVars
<1> QED
  BY <1>1, <1>2, <1>3, <1>4, <1>5, <1>6 DEF SeqStep

\* No step of the arbiter breaks the types.
LEMMA ArbType ==
    ASSUME TypeOK, ArbStep
    PROVE  TypeOK'
<1> USE DEF TypeOK, ArbStages, lockVars, seqVars, scanVars
<1>1. CASE WakeIdle BY <1>1 DEF WakeIdle
<1>2. CASE QueueDrained BY <1>2 DEF QueueDrained
<1>3. CASE AwaitRelease BY <1>3 DEF AwaitRelease
<1>4. CASE BeginScan BY <1>4 DEF BeginScan, Free
<1>5. ASSUME NEW e \in order, SkipEntry(e) PROVE TypeOK'
  BY <1>5 DEF SkipEntry
<1>6. ASSUME NEW e \in order, PickEntry(e) PROVE TypeOK'
  <2>1. e \in Entries /\ e.locks \in Seq(LockId)
    BY DEF Entries
  <2> QED BY <1>6, <2>1 DEF PickEntry
<1>7. entry.locks \in Seq(LockId) /\ (entry = NoEntry \/ entry.ctx \in Ctx)
  <2>1. CASE entry = NoEntry
    <3>1. entry.locks = <<>> BY <2>1 DEF NoEntry
    <3> QED BY <2>1, <3>1
  <2>2. CASE entry \in Entries
    BY <2>2 DEF Entries
  <2> QED BY <2>1, <2>2
<1>8. CASE Acquire
  BY <1>7, <1>8 DEF Acquire
<1>9. CASE Acquired
  <2>1. pos \in DOMAIN entry.locks /\ entry.locks[pos] \in LockId
    BY <1>7, <1>9 DEF Acquired
  <2>2. entry # NoEntry
    BY <2>1 DEF NoEntry
  <2>3. lockedBy' \in [LockId -> Ctx \cup {NoCtx}]
    BY <1>7, <1>9, <2>2 DEF Acquired
  <2>4. pos' \in 1 .. Len(entry'.locks) + 1 /\ arb' \in {"claim", "dead"}
    BY <1>7, <1>9, <2>1 DEF Acquired, TakeOff
  <2> QED BY <1>9, <2>3, <2>4 DEF Acquired, TakeOff
<1>10. CASE AlreadyHeld
  <2>1. pos' \in 1 .. Len(entry'.locks) + 1 /\ arb' \in {"claim", "dead"}
    BY <1>7, <1>10 DEF AlreadyHeld, TakeOff
  <2> QED BY <1>10, <2>1 DEF AlreadyHeld, TakeOff
<1>11. CASE Grant BY <1>7, <1>11 DEF Grant, AllClaimed
<1>12. CASE EndScan
  <2>1. entry' = NoEntry /\ pos' = 1 /\ arb' \in {"pass", "wait_either"}
    BY <1>12 DEF EndScan, Forget
  <2>2. pos' \in 1 .. Len(entry'.locks) + 1
    <3>1. entry'.locks = <<>> BY <2>1 DEF NoEntry
    <3> QED BY <2>1, <3>1
  <2>3. queue' \subseteq queue /\ order' = {} /\ scheduled' = {} /\ available' = {}
    BY <1>12 DEF EndScan, Forget, Pruned
  <2>4. evtQueue' \in BOOLEAN /\ unlocked' \in BOOLEAN
    BY <1>12 DEF EndScan
  <2> QED BY <1>12, <2>1, <2>2, <2>3, <2>4 DEF EndScan
<1>13. CASE WakeWaiting BY <1>13 DEF WakeWaiting
<1> QED
  BY <1>1, <1>2, <1>3, <1>4, <1>5, <1>6, <1>8, <1>9, <1>10, <1>11, <1>12, <1>13
  DEF ArbStep

\* The state has its type in every reachable state, whatever the requests.
THEOREM TypeCorrect == Spec => []TypeOK
<1>1. TypeOK /\ [Next]_vars => TypeOK'
  <2> SUFFICES ASSUME TypeOK, [Next]_vars PROVE TypeOK'
    OBVIOUS
  <2>1. CASE UNCHANGED vars
    BY <2>1 DEF TypeOK, vars, lockVars, seqVars, arbVars, scanVars
  <2> QED BY <2>1, SeqType, ArbType DEF Next
<1> QED BY <1>1, InitType, PTL DEF Spec

-----------------------------------------------------------------------------
(* The safety invariant.  Its three parts say what an entry of the queue    *)
(* stands for, who holds which lock and why, and what the arbiter's         *)
(* snapshot of free locks is still worth.  They need each other: a claim    *)
(* cannot fail because the snapshot is good, the snapshot stays good        *)
(* because nobody but the arbiter takes locks, and the lock taken is the    *)
(* right one because the entry is the current request of its context.       *)

\* No request names a lock twice.
NoDuplicates ==
    \A list \in Requests : \A i, j \in DOMAIN list : list[i] = list[j] => i = j

Current(c) == [ctx |-> c, num |-> round[c], locks |-> need[c]]
Claiming == arb \in {"claim", "acquiring"}
Scanning == arb \in {"scan", "claim", "acquiring"}

\* The entries not scheduled yet are exactly the requests that wait.
QueueInv ==
    /\ \A c \in Ctx : Waiting(c) => Current(c) \in queue /\ Current(c) \notin scheduled
    /\ \A e \in queue : e.num <= round[e.ctx]
    /\ \A e \in queue : e \notin scheduled => Waiting(e.ctx) /\ e = Current(e.ctx)
    /\ \A e \in order : e \notin scheduled
    /\ Claiming => entry \notin scheduled /\ entry \notin order
    /\ ~Scanning => scheduled = {} /\ order = {}

\* A holder is inside, with a lock it asked for, or is being served.
HoldInv ==
    /\ \A l \in LockId : lockedBy[l] # NoCtx =>
          /\ locked[l]
          /\ \/ Entered(lockedBy[l]) /\ \E i \in DOMAIN need[lockedBy[l]] : need[lockedBy[l]][i] = l
             \/ /\ Claiming /\ entry.ctx = lockedBy[l]
                /\ \E i \in 1 .. pos - 1 : entry.locks[i] = l
    /\ \A l \in LockId : locked[l] /\ lockedBy[l] = NoCtx =>
          arb = "acquiring" /\ l = entry.locks[pos]
    /\ Claiming => \A i \in 1 .. pos - 1 : lockedBy[entry.locks[i]] = entry.ctx
    /\ arb = "acquiring" => locked[entry.locks[pos]] /\ lockedBy[entry.locks[pos]] = NoCtx
    /\ \A c \in Ctx : seq[c] = "queued" /\ evt[c] =>
          \A i \in DOMAIN need[c] : lockedBy[need[c][i]] = c

\* A lock in the snapshot is free, unless it is the one being acquired.
SnapshotInv ==
    /\ arb # "dead"
    /\ Scanning => \A l \in available :
          locked[l] => arb = "acquiring" /\ l = entry.locks[pos]
    /\ Claiming => \A i \in DOMAIN entry.locks : i >= pos => entry.locks[i] \in available

SafeInv == TypeOK /\ QueueInv /\ HoldInv /\ SnapshotInv

\* Initially nothing is queued or held.
LEMMA InitSafe == Init => SafeInv
<1> SUFFICES ASSUME Init PROVE SafeInv
  OBVIOUS
<1>1. TypeOK
  BY InitType
<1>2. QueueInv
  BY DEF Init, QueueInv, Waiting, Claiming, Scanning
<1>3. HoldInv
  BY DEF Init, HoldInv, Claiming
<1>4. SnapshotInv
  BY DEF Init, SnapshotInv, Claiming, Scanning
<1> QED BY <1>1, <1>2, <1>3, <1>4 DEF SafeInv

\* While an entry is being claimed its context waits for that very entry.
LEMMA ServedWaits ==
    ASSUME SafeInv, Claiming
    PROVE  /\ entry \in Entries /\ entry.ctx \in Ctx /\ entry.locks \in Seq(LockId)
           /\ Waiting(entry.ctx) /\ need[entry.ctx] = entry.locks
           /\ entry = Current(entry.ctx) /\ entry \in queue
<1>1. entry \in queue /\ entry \notin scheduled
  BY DEF SafeInv, TypeOK, QueueInv, Claiming
<1>2. Waiting(entry.ctx) /\ entry = Current(entry.ctx)
  BY <1>1 DEF SafeInv, QueueInv
<1>3. entry \in Entries
  BY <1>1 DEF SafeInv, TypeOK
<1> QED BY <1>1, <1>2, <1>3 DEF Entries, Current

-----------------------------------------------------------------------------
(* The steps of the sequences *)

\* A launch only adds locks, all of them free, to the known ones.
LEMMA LaunchSafe ==
    ASSUME SafeInv, NEW c \in Ctx, Launch(c), TypeOK' PROVE SafeInv'
<1> USE DEF SafeInv, TypeOK, Launch, arbVars, scanVars, Stages
<1>1. QueueInv'
  BY DEF QueueInv, Waiting, Current, Claiming, Scanning, Entries
<1>2. HoldInv'
  BY DEF HoldInv, Entered, Claiming
<1>3. SnapshotInv'
  BY DEF SnapshotInv, Claiming, Scanning
<1> QED BY <1>1, <1>2, <1>3

\* A context resumes with the locks that it was granted.
LEMMA ResumeSafe ==
    ASSUME SafeInv, NEW c \in Ctx, Resume(c), TypeOK' PROVE SafeInv'
<1> USE DEF SafeInv, TypeOK, Resume, arbVars, scanVars, lockVars, Stages
<1>1. QueueInv'
  BY DEF QueueInv, Waiting, Current, Claiming, Scanning, Entries
<1>2. HoldInv'
  BY DEF HoldInv, Entered, Claiming
<1>3. SnapshotInv'
  BY DEF SnapshotInv, Claiming, Scanning
<1> QED BY <1>1, <1>2, <1>3

\* A body that raises keeps what it holds.
LEMMA RaiseSafe ==
    ASSUME SafeInv, NEW c \in Ctx, Raise(c), TypeOK' PROVE SafeInv'
<1> USE DEF SafeInv, TypeOK, Raise, arbVars, scanVars, lockVars, Stages
<1>1. QueueInv'
  BY DEF QueueInv, Waiting, Current, Claiming, Scanning, Entries
<1>2. HoldInv'
  BY DEF HoldInv, Entered, Claiming
<1>3. SnapshotInv'
  BY DEF SnapshotInv, Claiming, Scanning
<1> QED BY <1>1, <1>2, <1>3

\* A request joins the queue behind everything that is there already.
LEMMA LockAllSafe ==
    ASSUME SafeInv, NEW c \in Ctx, NEW list \in Requests, LockAll(c, list), TypeOK'
    PROVE  SafeInv'
<1> DEFINE new == [ctx |-> c, num |-> round[c] + 1, locks |-> list]
<1>1. /\ queue' = queue \cup {new} /\ seq[c] = "outside"
      /\ round' = [round EXCEPT ![c] = @ + 1] /\ need' = [need EXCEPT ![c] = list]
      /\ evt' = [evt EXCEPT ![c] = FALSE] /\ seq' = [seq EXCEPT ![c] = "queued"]
      /\ UNCHANGED <<locked, lockedBy, arb, available, order, scheduled, entry, pos>>
  BY DEF LockAll, lockVars, scanVars
<1>2. new \notin queue
  BY DEF SafeInv, QueueInv, TypeOK
<1>3. new = Current(c)'
  BY <1>1 DEF Current, SafeInv, TypeOK
<1>4. \A d \in Ctx : d # c => Current(d)' = Current(d) /\ Waiting(d)' = Waiting(d)
  BY <1>1 DEF Current, Waiting, SafeInv, TypeOK
<1>5. ~Waiting(c) /\ ~Entered(c) /\ Waiting(c)'
  BY <1>1 DEF Waiting, Entered, SafeInv, TypeOK
<1>6. \A e \in queue : e.ctx \in Ctx /\ e.num \in Nat
  <2>1. queue \subseteq Entries
    BY DEF SafeInv, TypeOK
  <2> QED BY <2>1 DEF Entries
<1>7. QueueInv'
  <2>1. \A d \in Ctx : Waiting(d)' => Current(d)' \in queue' /\ Current(d)' \notin scheduled'
    <3> SUFFICES ASSUME NEW d \in Ctx, Waiting(d)'
                 PROVE  Current(d)' \in queue' /\ Current(d)' \notin scheduled'
      OBVIOUS
    <3>1. CASE d = c
      <4>1. scheduled \subseteq queue /\ scheduled' = scheduled
        BY <1>1 DEF SafeInv, TypeOK
      <4> QED BY <3>1, <4>1, <1>1, <1>2, <1>3
    <3>2. CASE d # c
      <4>1. Current(d) \in queue /\ Current(d) \notin scheduled
        BY <3>2, <1>4 DEF SafeInv, QueueInv
      <4> QED BY <3>2, <4>1, <1>1, <1>4
    <3> QED BY <3>1, <3>2
  <2>2. \A e \in queue' : e.num <= round'[e.ctx]
    BY <1>1, <1>6 DEF SafeInv, QueueInv, TypeOK
  <2>3. \A e \in queue' : e \notin scheduled' => Waiting(e.ctx)' /\ e = Current(e.ctx)'
    BY <1>1, <1>3, <1>4, <1>5, <1>6 DEF SafeInv, QueueInv
  <2>4. /\ \A e \in order' : e \notin scheduled'
        /\ Claiming' => entry' \notin scheduled' /\ entry' \notin order'
        /\ ~Scanning' => scheduled' = {} /\ order' = {}
    BY <1>1 DEF SafeInv, QueueInv, Claiming, Scanning
  <2> QED BY <2>1, <2>2, <2>3, <2>4 DEF QueueInv
<1>8. HoldInv'
  <2>1. \A d \in Ctx : d # c => Entered(d)' = Entered(d) /\ need'[d] = need[d]
    BY <1>1 DEF Entered, SafeInv, TypeOK
  <2>2. \A l \in LockId : lockedBy[l] # c
    <3>1. ~(Claiming /\ entry.ctx = c)
      BY <1>5, ServedWaits
    <3> QED BY <1>5, <3>1 DEF SafeInv, HoldInv
  <2>3. \A d \in Ctx : seq'[d] = "queued" /\ evt'[d] => d # c /\ seq[d] = "queued" /\ evt[d]
    BY <1>1 DEF SafeInv, TypeOK
  <2> QED BY <1>1, <2>1, <2>2, <2>3 DEF SafeInv, HoldInv, Claiming, TypeOK
<1>9. SnapshotInv'
  BY <1>1 DEF SafeInv, SnapshotInv, Claiming, Scanning
<1> QED BY <1>7, <1>8, <1>9 DEF SafeInv

\* A context that is inside frees some of its locks, and leaves only with all.
LEMMA UnlockHold ==
    ASSUME SafeInv, NEW c \in Ctx, seq[c] \in {"inside", "raised"},
           NEW ls \in SUBSET LockId, \A l \in ls : lockedBy[l] = c,
           Unlock(ls), seq' \in [Ctx -> Stages],
           \A d \in Ctx \ {c} : seq'[d] = seq[d],
           \/ seq'[c] = seq[c]
           \/ seq'[c] = "outside" /\ \A l \in LockId : lockedBy[l] = c => l \in ls,
           UNCHANGED <<need, evt, arb, entry, pos>>
    PROVE  HoldInv'
<1>1. /\ \A l \in LockId : l \in ls => ~locked'[l] /\ lockedBy'[l] = NoCtx
      /\ \A l \in LockId : l \notin ls => lockedBy'[l] = lockedBy[l]
      /\ \A l \in LockId : l \notin ls => locked'[l] = locked[l]
  BY DEF Unlock, SafeInv, TypeOK
<1>2. ~(Claiming /\ entry.ctx = c)
  BY ServedWaits DEF Waiting
<1>3. \A d \in Ctx : d # c => Entered(d)' = Entered(d)
  BY DEF Entered
<1>4. Claiming' = Claiming /\ (Claiming => entry.locks \in Seq(LockId))
  BY ServedWaits DEF Claiming
<1>5. ASSUME NEW l \in LockId, lockedBy'[l] # NoCtx
      PROVE  /\ locked'[l]
             /\ \/ /\ Entered(lockedBy[l])'
                   /\ \E i \in DOMAIN need[lockedBy[l]]' : need[lockedBy[l]][i]' = l
                \/ /\ Claiming' /\ entry'.ctx = lockedBy'[l]
                   /\ \E i \in 1 .. pos' - 1 : entry'.locks[i] = l
  <2>1. l \notin ls /\ lockedBy'[l] = lockedBy[l] /\ locked'[l] = locked[l]
    BY <1>1, <1>5
  <2>2. lockedBy[l] \in Ctx
    BY <1>5, <2>1 DEF SafeInv, TypeOK
  <2>3. lockedBy[l] = c => seq'[c] = seq[c]
    BY <2>1
  <2>4. Entered(lockedBy[l]) => Entered(lockedBy[l])'
    BY <1>3, <2>1, <2>2, <2>3 DEF Entered
  <2> QED BY <1>4, <1>5, <2>1, <2>2, <2>4 DEF SafeInv, HoldInv
<1>6. \A l \in LockId : locked'[l] /\ lockedBy'[l] = NoCtx =>
        arb' = "acquiring" /\ l = entry'.locks[pos']
  BY <1>1 DEF SafeInv, HoldInv
<1>7. Claiming' => \A i \in 1 .. pos' - 1 : lockedBy'[entry'.locks[i]] = entry'.ctx
  <2> SUFFICES ASSUME Claiming, NEW i \in 1 .. pos - 1
               PROVE  lockedBy'[entry.locks[i]] = entry.ctx
    BY <1>4
  <2>1. lockedBy[entry.locks[i]] = entry.ctx /\ entry.locks[i] \in LockId
    BY <1>4 DEF SafeInv, HoldInv, TypeOK
  <2> QED BY <1>1, <1>2, <2>1
<1>8. arb' = "acquiring" => locked'[entry'.locks[pos']] /\ lockedBy'[entry'.locks[pos']] = NoCtx
  <2> SUFFICES ASSUME arb = "acquiring"
               PROVE  locked'[entry.locks[pos]] /\ lockedBy'[entry.locks[pos]] = NoCtx
    OBVIOUS
  <2>1. entry.locks[pos] \in LockId
    BY <1>4 DEF SafeInv, TypeOK, Claiming
  <2>2. locked[entry.locks[pos]] /\ lockedBy[entry.locks[pos]] = NoCtx
    BY DEF SafeInv, HoldInv
  <2> QED BY <1>1, <2>1, <2>2
<1>9. ASSUME NEW d \in Ctx, seq'[d] = "queued", evt'[d], NEW i \in DOMAIN need'[d]
      PROVE  lockedBy'[need'[d][i]] = d
  <2>1. d # c /\ seq[d] = "queued" /\ evt[d] /\ i \in DOMAIN need[d]
    BY <1>9
  <2>2. lockedBy[need[d][i]] = d /\ need[d][i] \in LockId
    BY <2>1 DEF SafeInv, HoldInv, TypeOK
  <2> QED BY <1>1, <2>1, <2>2
<1> QED BY <1>5, <1>6, <1>7, <1>8, <1>9 DEF HoldInv

\* Locks only become free: the snapshot stays good.
LEMMA ReleaseOneSafe ==
    ASSUME SafeInv, NEW c \in Ctx, NEW l \in LockId, ReleaseOne(c, l), TypeOK'
    PROVE  SafeInv'
<1> USE DEF SafeInv, ReleaseOne, MayRelease, seqVars, scanVars
<1>1. QueueInv'
  BY DEF QueueInv, Waiting, Current, Claiming, Scanning
<1>2. HoldInv'
  <2>1. {l} \in SUBSET LockId /\ Unlock({l}) /\ \A m \in {l} : lockedBy[m] = c
    OBVIOUS
  <2>2. /\ seq[c] \in {"inside", "raised"} /\ seq' \in [Ctx -> Stages] /\ seq' = seq
        /\ UNCHANGED <<need, evt, arb, entry, pos>>
    BY DEF TypeOK
  <2> QED BY ONLY <2>1, <2>2, SafeInv, c \in Ctx, UnlockHold
<1>3. SnapshotInv'
  BY DEF SnapshotInv, Claiming, Scanning, Unlock, TypeOK
<1> QED BY <1>1, <1>2, <1>3

\* Leaving the context frees whatever it still holds.
LEMMA ExitLockSafe ==
    ASSUME SafeInv, NEW c \in Ctx, ExitLock(c), TypeOK'
    PROVE  SafeInv'
<1> USE DEF SafeInv, ExitLock, scanVars
<1>1. QueueInv'
  BY DEF QueueInv, Waiting, Current, Claiming, Scanning, Entries, TypeOK
<1>2. ~(Claiming /\ entry.ctx = c)
  BY ServedWaits DEF Waiting
<1>3. \A l \in LockId : lockedBy[l] = c => l \in Remaining(c)
  BY <1>2, NoCtxAssumption DEF HoldInv, Range, Remaining
<1>4. Remaining(c) \subseteq LockId
  <2>1. need[c] \in Seq(LockId)
    <3>1. need[c] \in Requests \/ need[c] = <<>>
      BY DEF TypeOK
    <3>2. <<>> \in Seq(LockId)
      OBVIOUS
    <3> QED BY ONLY <3>1, <3>2, RequestsAssumption
  <2> QED BY <2>1 DEF Remaining, Range
<1>5. HoldInv'
  <2>1. \A l \in Remaining(c) : lockedBy[l] = c
    BY DEF Remaining
  <2>2. seq' \in [Ctx -> Stages] /\ seq'[c] = "outside" /\ \A d \in Ctx \ {c} : seq'[d] = seq[d]
    BY DEF TypeOK
  <2> QED BY <1>3, <1>4, <2>1, <2>2, UnlockHold
<1>6. SnapshotInv'
  BY DEF SnapshotInv, Claiming, Scanning, Unlock, TypeOK
<1> QED BY <1>1, <1>5, <1>6

-----------------------------------------------------------------------------
(* The steps of the arbiter *)

\* Steps between scans touch neither a lock nor an entry.
LEMMA IdleStepsSafe ==
    ASSUME SafeInv, TypeOK',
           WakeIdle \/ QueueDrained \/ AwaitRelease \/ BeginScan \/ WakeWaiting
    PROVE  SafeInv'
<1>1. /\ UNCHANGED <<locked, lockedBy, seq, round, need, evt, queue, entry, pos>>
      /\ ~Claiming /\ ~Claiming'
      /\ \/ /\ ~Scanning /\ ~Scanning' /\ UNCHANGED <<order, scheduled>>
         \/ /\ arb = "pass" /\ arb' = "scan" /\ order' = queue /\ scheduled' = {}
            /\ available' = Free
      /\ arb' # "dead"
  BY DEF WakeIdle, QueueDrained, AwaitRelease, BeginScan, WakeWaiting, Claiming,
         Scanning, lockVars, seqVars, scanVars
<1>2. \A c \in Ctx : Waiting(c)' = Waiting(c) /\ Current(c)' = Current(c) /\ Entered(c)' = Entered(c)
  BY <1>1 DEF Waiting, Current, Entered
<1>3. queue \subseteq Entries
  BY DEF SafeInv, TypeOK
<1>4. QueueInv'
  <2>1. CASE ~Scanning'
    BY <1>1, <1>2, <1>3, <2>1 DEF SafeInv, QueueInv, Entries, Scanning
  <2>2. CASE arb = "pass" /\ arb' = "scan" /\ order' = queue /\ scheduled' = {}
    <3>1. scheduled = {}
      BY <2>2 DEF SafeInv, QueueInv, Scanning
    <3> QED BY <1>1, <1>2, <1>3, <2>2, <3>1 DEF SafeInv, QueueInv, Entries, Scanning
  <2> QED BY <1>1, <2>1, <2>2
<1>5. HoldInv'
  <2>1. \A l \in LockId : ~(locked[l] /\ lockedBy[l] = NoCtx)
    BY <1>1 DEF SafeInv, HoldInv, Claiming
  <2>2. \A l \in LockId : lockedBy[l] # NoCtx => lockedBy[l] \in Ctx
    BY DEF SafeInv, TypeOK
  <2> QED BY <1>1, <1>2, <2>1, <2>2 DEF SafeInv, HoldInv, Claiming
<1>6. SnapshotInv'
  BY <1>1 DEF SnapshotInv, Claiming, Scanning, Free
<1> QED BY <1>4, <1>5, <1>6 DEF SafeInv

\* An entry that is skipped stays in the queue.
LEMMA SkipEntrySafe ==
    ASSUME SafeInv, NEW e \in order, SkipEntry(e), TypeOK' PROVE SafeInv'
<1> USE DEF SafeInv, SkipEntry, lockVars, seqVars
<1>1. QueueInv'
  BY DEF QueueInv, Waiting, Current, Claiming, Scanning
<1>2. HoldInv'
  BY DEF HoldInv, Entered, Claiming
<1>3. SnapshotInv'
  BY DEF SnapshotInv, Claiming, Scanning
<1> QED BY <1>1, <1>2, <1>3

\* An entry is picked when all its locks are in the snapshot.
LEMMA PickEntrySafe ==
    ASSUME SafeInv, NEW e \in order, PickEntry(e), TypeOK' PROVE SafeInv'
<1> USE DEF PickEntry, lockVars, seqVars
<1>1. QueueInv'
  BY DEF SafeInv, QueueInv, Waiting, Current, Claiming, Scanning
<1>2. HoldInv'
  BY DEF SafeInv, HoldInv, Entered, Claiming
<1>3. SnapshotInv'
  BY DEF SafeInv, SnapshotInv, Claiming, Scanning, Grantable, Range
<1> QED BY <1>1, <1>2, <1>3 DEF SafeInv

\* Only the lock at the current position is taken, and it was free.
LEMMA AcquireSafe ==
    ASSUME SafeInv, Acquire, TypeOK' PROVE SafeInv'
<1> DEFINE l == entry.locks[pos]
<1>1. Claiming /\ pos \in DOMAIN entry.locks /\ ~locked[l] /\ arb = "claim"
  BY DEF Acquire, Claiming
<1>2. l \in LockId /\ l \in available
  BY <1>1, ServedWaits DEF SafeInv, SnapshotInv
<1>3. /\ UNCHANGED <<lockedBy, seq, round, need, evt, queue, available, order, scheduled, entry, pos>>
      /\ arb' = "acquiring" /\ locked' = [locked EXCEPT ![l] = TRUE]
  BY DEF Acquire, seqVars, scanVars
<1>4. lockedBy[l] = NoCtx
  BY <1>1, <1>2 DEF SafeInv, HoldInv
<1>5. QueueInv'
  BY <1>1, <1>3 DEF SafeInv, QueueInv, Waiting, Current, Claiming, Scanning
<1>6. HoldInv'
  <2>1. \A m \in LockId : m # l => locked'[m] = locked[m]
    BY <1>3 DEF SafeInv, TypeOK
  <2>2. locked'[l]
    BY <1>2, <1>3 DEF SafeInv, TypeOK
  <2>3. \A m \in LockId : locked'[m] /\ lockedBy'[m] = NoCtx => m = l
    BY <1>1, <1>3, <2>1 DEF SafeInv, HoldInv
  <2>4. Claiming' /\ Claiming /\ \A c \in Ctx : Entered(c)' = Entered(c)
    BY <1>1, <1>3 DEF Claiming, Entered
  <2>5. \A m \in LockId : lockedBy[m] # NoCtx => lockedBy[m] \in Ctx
    BY DEF SafeInv, TypeOK
  <2>6. \A m \in LockId : lockedBy'[m] # NoCtx => locked'[m]
    BY <1>3, <2>1, <2>2 DEF SafeInv, HoldInv
  <2> QED BY <1>3, <1>4, <2>2, <2>3, <2>4, <2>5, <2>6 DEF SafeInv, HoldInv
<1>7. SnapshotInv'
  BY <1>1, <1>2, <1>3 DEF SafeInv, SnapshotInv, Claiming, Scanning, TypeOK
<1> QED BY <1>5, <1>6, <1>7 DEF SafeInv

\* The lock becomes the context's, and the remaining ones are different ones.
LEMMA AcquiredSafe ==
    ASSUME NoDuplicates, SafeInv, Acquired, TypeOK' PROVE SafeInv'
<1> DEFINE l == entry.locks[pos]
<1>1. Claiming /\ pos \in DOMAIN entry.locks /\ arb = "acquiring"
  BY DEF Acquired, Claiming, SafeInv, TypeOK
<1>2. /\ l \in LockId /\ l \in available /\ entry.ctx \in Ctx /\ entry.ctx # NoCtx
      /\ entry.locks \in Seq(LockId)
  BY <1>1, ServedWaits DEF SafeInv, SnapshotInv
<1>3. /\ UNCHANGED <<locked, seq, round, need, evt, queue, order, scheduled, entry>>
      /\ lockedBy' = [lockedBy EXCEPT ![l] = entry.ctx]
      /\ arb' = "claim" /\ pos' = pos + 1 /\ available' = available \ {l}
  BY <1>2 DEF Acquired, TakeOff, seqVars
<1>4. locked[l] /\ lockedBy[l] = NoCtx
  BY <1>1 DEF SafeInv, HoldInv
<1>5. \A i \in DOMAIN entry.locks : i # pos => entry.locks[i] # l
  <2>1. entry.locks \in Requests
    BY <1>1, ServedWaits DEF Entries
  <2> QED BY <1>1, <2>1 DEF NoDuplicates
<1>6. QueueInv'
  BY <1>1, <1>3 DEF SafeInv, QueueInv, Waiting, Current, Claiming, Scanning
<1>7. HoldInv'
  <2>1. lockedBy'[l] = entry.ctx /\ \A m \in LockId : m # l => lockedBy'[m] = lockedBy[m]
    BY <1>2, <1>3 DEF SafeInv, TypeOK
  <2>2. Claiming' /\ Claiming /\ \A c \in Ctx : Entered(c)' = Entered(c)
    BY <1>1, <1>3 DEF Claiming, Entered
  <2>3. pos \in Nat /\ pos >= 1 /\ DOMAIN entry.locks = 1 .. Len(entry.locks)
    BY <1>1, <1>2
  <2>4. ASSUME NEW m \in LockId, lockedBy'[m] # NoCtx
        PROVE  /\ locked'[m]
               /\ \/ /\ Entered(lockedBy[m])'
                     /\ \E i \in DOMAIN need[lockedBy[m]]' : need[lockedBy[m]][i]' = m
                  \/ /\ Claiming' /\ entry'.ctx = lockedBy'[m]
                     /\ \E i \in 1 .. pos' - 1 : entry'.locks[i] = m
    <3>1. CASE m = l
      <4>1. pos \in 1 .. pos' - 1
        BY <1>3, <2>3
      <4> QED BY <1>3, <1>4, <2>1, <2>2, <3>1, <4>1
    <3>2. CASE m # l
      <4>1. lockedBy'[m] = lockedBy[m] /\ lockedBy[m] \in Ctx
        BY <2>1, <2>4, <3>2 DEF SafeInv, TypeOK
      <4>2. \A i \in 1 .. pos - 1 : i \in 1 .. pos' - 1
        BY <1>3, <2>3
      <4> QED BY <1>3, <2>2, <2>4, <4>1, <4>2 DEF SafeInv, HoldInv
    <3> QED BY <3>1, <3>2
  <2>5. \A m \in LockId : ~(locked'[m] /\ lockedBy'[m] = NoCtx)
    BY <1>2, <1>3, <2>1 DEF SafeInv, HoldInv
  <2>6. ASSUME NEW i \in 1 .. pos' - 1 PROVE lockedBy'[entry.locks[i]] = entry.ctx
    <3>1. CASE i = pos BY <2>1, <3>1
    <3>2. CASE i # pos
      <4>1. i \in 1 .. pos - 1 /\ i \in DOMAIN entry.locks
        BY <1>1, <1>3, <2>3, <3>2
      <4>2. entry.locks[i] \in LockId /\ entry.locks[i] # l
        BY <1>2, <1>5, <3>2, <4>1
      <4> QED BY <1>1, <2>1, <4>1, <4>2 DEF SafeInv, HoldInv
    <3> QED BY <3>1, <3>2
  <2>7. ASSUME NEW c \in Ctx, seq[c] = "queued", evt[c], NEW i \in DOMAIN need[c]
        PROVE  lockedBy'[need[c][i]] = c
    <3>1. lockedBy[need[c][i]] = c
      BY <2>7 DEF SafeInv, HoldInv
    <3>2. need[c][i] \in LockId /\ c # NoCtx
      <4>1. need[c] \in Requests
        BY <2>7 DEF SafeInv, TypeOK
      <4> QED BY <2>7, <4>1, RequestsAssumption, NoCtxAssumption
    <3> QED BY <1>4, <2>1, <3>1, <3>2
  <2> QED BY <1>3, <2>2, <2>4, <2>5, <2>6, <2>7 DEF HoldInv
<1>8. SnapshotInv'
  <2>1. \A m \in available \ {l} : ~locked[m]
    BY <1>1 DEF SafeInv, SnapshotInv, Scanning
  <2>2. \A i \in DOMAIN entry.locks : i >= pos' => entry.locks[i] \in available \ {l}
    <3>1. \A i \in DOMAIN entry.locks : i >= pos => entry.locks[i] \in available
      BY <1>1 DEF SafeInv, SnapshotInv
    <3>2. pos \in Nat /\ DOMAIN entry.locks \subseteq Nat
      BY <1>1, <1>2
    <3> QED BY <1>3, <1>5, <3>1, <3>2
  <2> QED BY <1>3, <2>1, <2>2 DEF SnapshotInv, Claiming, Scanning
<1> QED BY <1>6, <1>7, <1>8 DEF SafeInv

\* The next lock to claim is free, so this branch of acquire is never taken.
LEMMA NeverAlreadyHeld ==
    ASSUME SafeInv, AlreadyHeld PROVE FALSE
<1>1. Claiming /\ arb = "claim" /\ entry.locks[pos] \in available /\ locked[entry.locks[pos]]
  BY DEF AlreadyHeld, Claiming, SafeInv, SnapshotInv, TypeOK
<1> QED BY <1>1 DEF SafeInv, SnapshotInv, Scanning

\* The entry answered holds all of its locks, and no other entry loses one.
LEMMA GrantSafe ==
    ASSUME SafeInv, Grant, TypeOK' PROVE SafeInv'
<1> DEFINE c == entry.ctx
<1>1. Claiming /\ arb = "claim" /\ pos \notin DOMAIN entry.locks
  BY DEF Grant, AllClaimed, Claiming
<1>2. /\ entry \in Entries /\ c \in Ctx /\ c # NoCtx /\ entry.locks \in Seq(LockId)
      /\ Waiting(c) /\ need[c] = entry.locks /\ entry = Current(c) /\ entry \in queue
  BY <1>1, ServedWaits
<1>3. pos = Len(entry.locks) + 1
  <2>1. DOMAIN entry.locks = 1 .. Len(entry.locks) /\ Len(entry.locks) \in Nat
    BY <1>2
  <2>2. pos \in 1 .. Len(entry.locks) + 1
    BY DEF SafeInv, TypeOK
  <2> QED BY ONLY <1>1, <2>1, <2>2
<1>4. /\ UNCHANGED <<locked, lockedBy, seq, round, need, queue, available, entry, pos>>
      /\ evt' = [evt EXCEPT ![c] = TRUE] /\ arb' = "scan"
      /\ scheduled' = scheduled \cup {entry} /\ order' \subseteq order
  BY DEF Grant, lockVars
<1>5. \A d \in Ctx : d # c => Waiting(d)' = Waiting(d) /\ Entered(d)' = Entered(d)
  BY <1>4 DEF Waiting, Entered, SafeInv, TypeOK
<1>6. ~Waiting(c)' /\ Entered(c)' /\ \A d \in Ctx : Current(d)' = Current(d)
  BY <1>2, <1>4 DEF Waiting, Entered, Current, SafeInv, TypeOK
<1>7. QueueInv'
  <2>1. queue \subseteq Entries
    BY DEF SafeInv, TypeOK
  <2>2. \A d \in Ctx : d # c => Current(d) # entry
    BY <1>2 DEF Current
  <2>3. \A e \in queue : e.ctx \in Ctx
    BY <2>1 DEF Entries
  <2>4. \A d \in Ctx : Waiting(d)' => Current(d)' \in queue' /\ Current(d)' \notin scheduled'
    BY <1>4, <1>5, <1>6, <2>2 DEF SafeInv, QueueInv
  <2>5. \A e \in queue' : e \notin scheduled' => Waiting(e.ctx)' /\ e = Current(e.ctx)'
    BY <1>2, <1>4, <1>5, <1>6, <2>3 DEF SafeInv, QueueInv
  <2>6. \A e \in order' : e \notin scheduled'
    BY <1>1, <1>4 DEF SafeInv, QueueInv
  <2> QED BY <1>4, <2>4, <2>5, <2>6 DEF SafeInv, QueueInv, Claiming, Scanning
<1>8. HoldInv'
  <2>1. \A i \in DOMAIN need[c] : lockedBy[need[c][i]] = c
    BY <1>1, <1>2, <1>3 DEF SafeInv, HoldInv
  <2>2. \A l \in LockId : lockedBy[l] = c => \E i \in DOMAIN need[c] : need[c][i] = l
    BY <1>1, <1>2, <1>3 DEF SafeInv, HoldInv, Waiting, Entered
  <2>3. \A l \in LockId : lockedBy[l] # NoCtx => lockedBy[l] \in Ctx
    BY DEF SafeInv, TypeOK
  <2>4. \A l \in LockId : lockedBy'[l] # NoCtx =>
          /\ locked'[l] /\ Entered(lockedBy[l])'
          /\ \E i \in DOMAIN need[lockedBy[l]]' : need[lockedBy[l]][i]' = l
    BY <1>2, <1>4, <1>5, <1>6, <2>2, <2>3 DEF SafeInv, HoldInv
  <2>5. \A l \in LockId : ~(locked[l] /\ lockedBy[l] = NoCtx)
    BY <1>1 DEF SafeInv, HoldInv
  <2>6. \A d \in Ctx : seq'[d] = "queued" /\ evt'[d] =>
          \A i \in DOMAIN need'[d] : lockedBy'[need'[d][i]] = d
    BY <1>2, <1>4, <2>1 DEF SafeInv, HoldInv, TypeOK
  <2> QED BY <1>4, <2>4, <2>5, <2>6 DEF HoldInv, Claiming
<1>9. SnapshotInv'
  BY <1>1, <1>4 DEF SafeInv, SnapshotInv, Claiming, Scanning
<1> QED BY <1>7, <1>8, <1>9 DEF SafeInv

\* Pruning removes the answered entries, and none that still waits.
LEMMA EndScanSafe ==
    ASSUME SafeInv, EndScan, TypeOK' PROVE SafeInv'
<1>1. /\ UNCHANGED <<locked, lockedBy, seq, round, need, evt>>
      /\ arb = "scan" /\ arb' \in {"pass", "wait_either"}
      /\ queue' = queue \ scheduled /\ scheduled' = {} /\ order' = {} /\ order = {}
  BY DEF EndScan, Forget, Pruned, lockVars, seqVars
<1>2. QueueInv'
  BY <1>1 DEF SafeInv, QueueInv, Waiting, Current, Claiming, Scanning
<1>3. HoldInv'
  BY <1>1 DEF SafeInv, HoldInv, Entered, Claiming
<1>4. SnapshotInv'
  BY <1>1 DEF SnapshotInv, Claiming, Scanning
<1> QED BY <1>2, <1>3, <1>4 DEF SafeInv

-----------------------------------------------------------------------------
\* The three parts together are inductive.
LEMMA StepSafe ==
    ASSUME NoDuplicates, SafeInv, [Next]_vars
    PROVE  SafeInv'
<1>1. CASE UNCHANGED vars
  BY <1>1 DEF SafeInv, TypeOK, QueueInv, HoldInv, SnapshotInv, Waiting, Entered,
              Current, Claiming, Scanning, vars, lockVars, seqVars, arbVars, scanVars
<1>2. CASE ArbStep
  <2>1. TypeOK'
    BY <1>2, ArbType DEF SafeInv
  <2> QED
    BY <1>2, <2>1, IdleStepsSafe, SkipEntrySafe, PickEntrySafe, AcquireSafe, AcquiredSafe,
       NeverAlreadyHeld, GrantSafe, EndScanSafe DEF ArbStep
<1>3. ASSUME NEW c \in Ctx, SeqStep(c) PROVE SafeInv'
  <2>1. TypeOK'
    BY <1>3, SeqType DEF SafeInv
  <2> QED
    BY <1>3, <2>1, LaunchSafe, ResumeSafe, RaiseSafe, LockAllSafe, ReleaseOneSafe,
       ExitLockSafe DEF SeqStep
<1> QED BY <1>1, <1>2, <1>3 DEF Next

\* The three parts hold together in every reachable state.
THEOREM SafeInvariant == NoDuplicates => (Spec => []SafeInv)
<1> SUFFICES ASSUME NoDuplicates PROVE Spec => []SafeInv
  OBVIOUS
<1>1. SafeInv /\ [Next]_vars => SafeInv'
  BY StepSafe
<1> QED BY <1>1, InitSafe, PTL DEF Spec

\* The inductive invariant contains the four properties.
LEMMA SafeImplies ==
    SafeInv => GrantedHoldsAll /\ NoHoldAndWait /\ ClaimNeverFails /\ NoLostRequest
<1> SUFFICES ASSUME SafeInv
             PROVE  GrantedHoldsAll /\ NoHoldAndWait /\ ClaimNeverFails /\ NoLostRequest
  OBVIOUS
<1>1. GrantedHoldsAll
  BY DEF SafeInv, HoldInv, GrantedHoldsAll, Range
<1>2. NoHoldAndWait
  <2> SUFFICES ASSUME NEW l \in LockId, lockedBy[l] # NoCtx, ~Entered(lockedBy[l])
               PROVE  Waiting(lockedBy[l]) /\ Serving(lockedBy[l])
    BY DEF NoHoldAndWait
  <2>1. Claiming /\ entry.ctx = lockedBy[l]
    BY DEF SafeInv, HoldInv
  <2> QED BY <2>1, ServedWaits DEF Serving, Claiming
<1>3. ClaimNeverFails
  <2>1. arb # "dead"
    BY DEF SafeInv, SnapshotInv
  <2>2. ASSUME arb = "claim", pos \in DOMAIN entry.locks PROVE ~locked[entry.locks[pos]]
    <3>1. entry.locks[pos] \in available
      <4>1. Claiming BY <2>2 DEF Claiming
      <4>2. pos >= pos
        <5>1. entry.locks \in Seq(LockId) BY <4>1, ServedWaits
        <5> QED BY <2>2, <5>1
      <4> QED BY <2>2, <4>1, <4>2 DEF SafeInv, SnapshotInv
    <3> QED BY <2>2, <3>1 DEF SafeInv, SnapshotInv, Scanning
  <2> QED BY <2>1, <2>2 DEF ClaimNeverFails
<1>4. NoLostRequest
  BY DEF SafeInv, QueueInv, NoLostRequest, Current
<1> QED BY <1>1, <1>2, <1>3, <1>4

\* The body of a lock context starts with all of its locks.
THEOREM GrantsAreComplete == NoDuplicates => (Spec => []GrantedHoldsAll)
BY SafeInvariant, SafeImplies, PTL

\* No sequence waits for locks while it owns others: no deadlock between two
\* sequences that ask for the same locks in different orders.
THEOREM NoHoldAndWaitHolds == NoDuplicates => (Spec => []NoHoldAndWait)
BY SafeInvariant, SafeImplies, PTL

\* The arbiter neither blocks nor dies while it claims locks.
THEOREM ClaimsSucceed == NoDuplicates => (Spec => []ClaimNeverFails)
BY SafeInvariant, SafeImplies, PTL

\* A waiting request is in the queue.
THEOREM RequestsAreKept == NoDuplicates => (Spec => []NoLostRequest)
BY SafeInvariant, SafeImplies, PTL

-----------------------------------------------------------------------------
(* Locks are never passed from one context to another *)

\* A step from a safe state hands no lock over.
LEMMA HandoverStep ==
    ASSUME SafeInv, Next, NEW l \in LockId, lockedBy[l] # NoCtx, lockedBy'[l] # lockedBy[l]
    PROVE  lockedBy'[l] = NoCtx /\ ~locked'[l] /\ seq[lockedBy[l]] \in {"inside", "raised"}
<1>1. CASE ArbStep
  <2>1. Acquired
    BY <1>1 DEF ArbStep, WakeIdle, QueueDrained, AwaitRelease, BeginScan, SkipEntry,
       PickEntry, Acquire, AlreadyHeld, Grant, EndScan, WakeWaiting, lockVars
  <2>2. lockedBy' = [lockedBy EXCEPT ![entry.locks[pos]] = entry.ctx]
    BY <2>1 DEF Acquired
  <2>3. lockedBy[entry.locks[pos]] = NoCtx
    BY <2>1 DEF Acquired, SafeInv, HoldInv
  <2> QED BY <2>2, <2>3 DEF SafeInv, TypeOK
<1>2. ASSUME NEW c \in Ctx, SeqStep(c)
      PROVE  lockedBy'[l] = NoCtx /\ ~locked'[l] /\ seq[lockedBy[l]] \in {"inside", "raised"}
  <2>1. CASE ExitLock(c)
    <3>1. lockedBy'[l] = NoCtx /\ ~locked'[l] /\ l \in Remaining(c)
      BY <2>1 DEF ExitLock, Unlock
    <3>2. lockedBy[l] = c
      BY <3>1 DEF Remaining
    <3> QED BY <2>1, <3>1, <3>2 DEF ExitLock
  <2>2. CASE \E m \in LockId : ReleaseOne(c, m)
    BY <2>2 DEF ReleaseOne, Unlock, MayRelease
  <2>3. CASE ~ExitLock(c) /\ ~(\E m \in LockId : ReleaseOne(c, m))
    BY <1>2, <2>3 DEF SeqStep, Launch, Resume, Raise, LockAll, lockVars
  <2> QED BY <2>1, <2>2, <2>3
<1> QED BY <1>1, <1>2 DEF Next

\* Ownership changes only through its holder, and only to nobody.
THEOREM HandoverHolds == NoDuplicates => (Spec => LockHandover)
<1>1. SafeInv /\ [Next]_vars =>
        [\A l \in LockId :
           lockedBy[l] # NoCtx /\ lockedBy'[l] # lockedBy[l] =>
             /\ lockedBy'[l] = NoCtx
             /\ ~locked'[l]
             /\ seq[lockedBy[l]] \in {"inside", "raised"}]_vars
  BY HandoverStep
<1> QED BY <1>1, SafeInvariant, PTL DEF Spec, LockHandover

-----------------------------------------------------------------------------
(* The detailed arbiter implements the atomic one *)

\* An initial state maps to an initial state.
LEMMA AtomicStart == Init => Atomic!AtomicInit
<1> SUFFICES ASSUME Init PROVE Atomic!AtomicInit
  OBVIOUS
<1>1. \A c \in Ctx : ~Entered(c) /\ ~Waiting(c) /\ Range(need[c]) = {}
  BY DEF Init, Entered, Waiting, Range
<1>2. \A l \in LockId : lockedBy[l] = NoCtx
  BY DEF Init
<1> QED BY <1>1, <1>2 DEF Atomic!AtomicInit

\* Only an answer makes what the arbiter has claimed visible.
LEMMA AtomicArbStep ==
    ASSUME SafeInv, ArbStep
    PROVE  Atomic!AtomicNext \/ UNCHANGED Atomic!avars
<1>1. CASE Grant
  <2>1. Claiming /\ pos \notin DOMAIN entry.locks
    BY <1>1 DEF Grant, AllClaimed, Claiming
  <2>2. PICK c \in Ctx : c = entry.ctx
    BY <2>1, ServedWaits
  <2>3. entry.locks \in Seq(LockId) /\ Waiting(c) /\ need[c] = entry.locks
    BY <2>1, <2>2, ServedWaits
  <2>4. pos = Len(entry.locks) + 1
    <3>1. DOMAIN entry.locks = 1 .. Len(entry.locks) /\ Len(entry.locks) \in Nat
      BY <2>3
    <3>2. pos \in 1 .. Len(entry.locks) + 1
      BY DEF SafeInv, TypeOK
    <3> QED BY ONLY <2>1, <3>1, <3>2
  <2>5. \A l \in LockId : lockedBy[l] = c <=> l \in Range(need[c])
    BY <2>1, <2>2, <2>3, <2>4 DEF SafeInv, HoldInv, Waiting, Entered, Range
  <2>6. /\ UNCHANGED <<lockedBy, seq, need>>
        /\ evt'[c] /\ \A d \in Ctx : d # c => evt'[d] = evt[d]
    BY <1>1, <2>2 DEF Grant, lockVars, SafeInv, TypeOK
  <2>7. ~Entered(c) /\ Entered(c)'
    BY <2>3, <2>6 DEF Entered, Waiting
  <2>8. \A d \in Ctx : d # c => Entered(d)' = Entered(d) /\ Waiting(d)' = Waiting(d)
    BY <2>6 DEF Entered, Waiting
  <2>9. Atomic!Answer(c)
    <3>1. Range(need[c]) \subseteq LockId
      BY <2>3 DEF Range
    <3>2. \A l \in LockId : lockedBy[l] # c /\ lockedBy[l] \in Ctx =>
             (Entered(lockedBy[l])' = Entered(lockedBy[l]))
      BY <2>6, <2>8 DEF Entered
    <3>3. [d \in Ctx |-> IF Entered(d) THEN "inside" ELSE IF Waiting(d) THEN "waiting" ELSE "outside"]'
            = [[d \in Ctx |-> IF Entered(d) THEN "inside" ELSE IF Waiting(d) THEN "waiting" ELSE "outside"]
                 EXCEPT ![c] = "inside"]
      BY <2>7, <2>8
    <3>4. [l \in LockId |-> IF lockedBy[l] \in Ctx /\ Entered(lockedBy[l]) THEN lockedBy[l] ELSE NoCtx]'
            = [l \in LockId |->
                 IF l \in Range(need[c]) THEN c
                 ELSE IF lockedBy[l] \in Ctx /\ Entered(lockedBy[l]) THEN lockedBy[l] ELSE NoCtx]
      BY <2>5, <2>6, <2>7, <3>2
    <3>5. \A l \in Range(need[c]) : ~Entered(lockedBy[l])
      BY <2>5, <2>7, <3>1
    <3>6. Waiting(c) /\ ~Entered(c) /\ need' = need
      BY <2>3, <2>6, <2>7
    <3> QED BY <3>1, <3>3, <3>4, <3>5, <3>6 DEF Atomic!Answer
  <2> QED BY <2>9 DEF Atomic!AtomicNext
<1>2. CASE Acquired
  <2>1. Claiming
    BY <1>2 DEF Acquired, Claiming
  <2>2. entry.ctx \in Ctx /\ ~Entered(entry.ctx)
    BY <2>1, ServedWaits DEF Waiting, Entered
  <2>3. /\ UNCHANGED <<seq, need, evt>>
        /\ lockedBy' = [lockedBy EXCEPT ![entry.locks[pos]] = entry.ctx]
        /\ lockedBy[entry.locks[pos]] = NoCtx
    BY <1>2 DEF Acquired, seqVars, SafeInv, HoldInv
  <2>4. \A d \in Ctx : Entered(d)' = Entered(d) /\ Waiting(d)' = Waiting(d)
    BY <2>3 DEF Entered, Waiting
  <2>5. \A l \in LockId :
          lockedBy'[l] # lockedBy[l] => lockedBy[l] = NoCtx /\ lockedBy'[l] = entry.ctx
    BY <2>3 DEF SafeInv, TypeOK
  <2> QED BY <2>2, <2>3, <2>4, <2>5, NoCtxAssumption DEF Atomic!avars
<1>3. CASE ~Grant /\ ~Acquired
  <2>1. UNCHANGED <<lockedBy, seq, need, evt>>
    BY <1>3 DEF ArbStep, WakeIdle, QueueDrained, AwaitRelease, BeginScan, SkipEntry,
       PickEntry, Acquire, AlreadyHeld, EndScan, WakeWaiting, lockVars, seqVars
  <2> QED BY <2>1 DEF Atomic!avars, Entered, Waiting
<1> QED BY <1>1, <1>2, <1>3

\* A step of a sequence maps to Ask, GiveBack, Leave or a stutter.
LEMMA AtomicSeqStep ==
    ASSUME SafeInv, NEW c \in Ctx, SeqStep(c)
    PROVE  Atomic!AtomicNext \/ UNCHANGED Atomic!avars
<1> USE NoCtxAssumption
<1>1. CASE \E list \in Requests : LockAll(c, list)
  <2>1. PICK list \in Requests : LockAll(c, list)
    BY <1>1
  <2>2. /\ lockedBy' = lockedBy /\ seq[c] = "outside"
        /\ need' = [need EXCEPT ![c] = list] /\ evt' = [evt EXCEPT ![c] = FALSE]
        /\ seq' = [seq EXCEPT ![c] = "queued"]
    BY <2>1 DEF LockAll, lockVars
  <2>3. /\ ~Entered(c) /\ ~Waiting(c) /\ Waiting(c)' /\ ~Entered(c)'
        /\ \A d \in Ctx : d # c => /\ Entered(d)' = Entered(d) /\ Waiting(d)' = Waiting(d)
                                  /\ need'[d] = need[d]
    BY <2>2 DEF Entered, Waiting, SafeInv, TypeOK
  <2>4. need'[c] = list /\ Range(list) \in SUBSET LockId
    BY <2>2, RequestsAssumption DEF SafeInv, TypeOK, Range
  <2>5. Atomic!Ask(c)
    <3>1. [d \in Ctx |-> Range(need[d])]' =
            [[d \in Ctx |-> Range(need[d])] EXCEPT ![c] = Range(list)]
      BY <2>3, <2>4
    <3> QED BY <2>2, <2>3, <2>4, <3>1 DEF Atomic!Ask
  <2> QED BY <2>5 DEF Atomic!AtomicNext
<1>2. CASE ExitLock(c)
  <2>1. Entered(c) /\ ~Entered(c)' /\ ~Waiting(c)'
    BY <1>2 DEF ExitLock, Entered, Waiting, SafeInv, TypeOK
  <2>2. \A d \in Ctx : d # c => Entered(d)' = Entered(d) /\ Waiting(d)' = Waiting(d)
    BY <1>2 DEF ExitLock, Entered, Waiting, SafeInv, TypeOK
  <2>3. ~(Claiming /\ entry.ctx = c)
    BY <2>1, ServedWaits DEF Waiting, Entered
  <2>4. \A l \in LockId : lockedBy[l] = c <=> l \in Remaining(c)
    BY <2>3 DEF SafeInv, HoldInv, Range, Remaining
  <2>5. \A l \in LockId : lockedBy'[l] = IF lockedBy[l] = c THEN NoCtx ELSE lockedBy[l]
    BY <1>2, <2>4 DEF ExitLock, Unlock
  <2>6. Atomic!Leave(c)
    BY <1>2, <2>1, <2>2, <2>5 DEF Atomic!Leave, ExitLock
  <2> QED BY <2>6 DEF Atomic!AtomicNext
<1>3. CASE \E l \in LockId : ReleaseOne(c, l)
  <2>1. PICK l \in LockId : ReleaseOne(c, l)
    BY <1>3
  <2>2. /\ UNCHANGED <<seq, need, evt>> /\ lockedBy[l] = c /\ Entered(c)
        /\ \A m \in LockId : lockedBy'[m] = IF m = l THEN NoCtx ELSE lockedBy[m]
    BY <2>1 DEF ReleaseOne, Unlock, MayRelease, seqVars, Entered
  <2>3. \A d \in Ctx : Entered(d)' = Entered(d) /\ Waiting(d)' = Waiting(d)
    BY <2>2 DEF Entered, Waiting
  <2>4. Atomic!GiveBack(c, l)
    BY <2>2, <2>3 DEF Atomic!GiveBack
  <2> QED BY <2>4 DEF Atomic!AtomicNext
<1>4. CASE Launch(c) \/ Resume(c) \/ Raise(c)
  <2>1. /\ UNCHANGED <<lockedBy, need, evt>>
        /\ \A d \in Ctx : Entered(d)' = Entered(d) /\ Waiting(d)' = Waiting(d)
    BY <1>4 DEF Launch, Resume, Raise, Entered, Waiting, lockVars, SafeInv, TypeOK
  <2> QED BY <2>1 DEF Atomic!avars
<1> QED BY <1>1, <1>2, <1>3, <1>4 DEF SeqStep

\* Although locks are claimed one by one, with other sequences running in
\* between, sequences see requests answered whole and at once.
THEOREM ArbiterImplementsAtomicLocks == NoDuplicates => (Spec => GrantsAtomically)
<1>1. SafeInv /\ [Next]_vars => [Atomic!AtomicNext]_(Atomic!avars)
  <2> SUFFICES ASSUME SafeInv, [Next]_vars
               PROVE  Atomic!AtomicNext \/ UNCHANGED Atomic!avars
    OBVIOUS
  <2>1. CASE UNCHANGED vars
    BY <2>1 DEF vars, lockVars, seqVars, Entered, Waiting, Atomic!avars
  <2> QED BY <2>1, AtomicArbStep, AtomicSeqStep DEF Next
<1> QED
  BY <1>1, AtomicStart, SafeInvariant, PTL DEF Spec, GrantsAtomically, Atomic!AtomicSpec

-----------------------------------------------------------------------------
(* No lost wake-up.  This needs two facts about the testbench that the      *)
(* arbiter does not see to: all locks are registered before the first       *)
(* request, and no request is empty.  The code waits for a release, and     *)
(* only for that, when no known lock is free; with a lock that becomes      *)
(* known later, or a request that needs none, that is a lost wake-up.       *)

AllKnown == Known0 = LockId
NoEmptyRequest == \A list \in Requests : list # <<>>
Refused(e) == ~(Range(e.locks) \subseteq Free)

WakeInv ==
    /\ known = LockId
    /\ arb = "idle" /\ ~evtQueue => queue = {}
    /\ arb = "wait_unlocked" /\ ~unlocked => Free = {}
    /\ arb = "wait_either" /\ ~unlocked /\ ~evtQueue => \A e \in queue : Refused(e)
    /\ arb = "scan" /\ scheduled = {} =>
          available = Free /\ \A e \in queue : e \notin order => Refused(e)

\* A release or a request leaves no arbiter asleep that it could wake.
LEMMA WakeSeqStep ==
    ASSUME TypeOK, WakeInv, NEW c \in Ctx, SeqStep(c)
    PROVE  WakeInv'
<1>1. Suspended
  BY DEF SeqStep, Launch, LockAll, Resume, ReleaseOne, ExitLock, Raise
<1>2. arb # "scan"
  BY <1>1 DEF Suspended
<1>3. CASE Launch(c) \/ Resume(c) \/ Raise(c)
  <2>1. UNCHANGED <<locked, queue, evtQueue, unlocked, arb>> /\ known' = LockId
    BY <1>3, ScopeAssumption DEF Launch, Resume, Raise, arbVars, lockVars, WakeInv
  <2> QED BY <1>2, <2>1 DEF WakeInv, Refused, Free
<1>4. CASE \E list \in Requests : LockAll(c, list)
  <2>1. UNCHANGED <<known, locked, unlocked, arb>> /\ evtQueue'
    BY <1>4 DEF LockAll, lockVars, Triggered
  <2> QED BY <1>2, <2>1 DEF WakeInv, Free
<1>5. ASSUME NEW ls \in SUBSET LockId, Unlock(ls), UNCHANGED <<known, queue, evtQueue, arb>>
      PROVE  WakeInv'
  <2>1. CASE ls = {}
    <3>1. \A l \in LockId : locked'[l] = locked[l]
      BY <1>5, <2>1 DEF Unlock, TypeOK
    <3>2. Free' = Free
      BY <1>5, <3>1 DEF Free, TypeOK
    <3>3. unlocked' = unlocked
      BY <1>5, <2>1 DEF Unlock, TypeOK
    <3> QED BY <1>2, <1>5, <3>2, <3>3 DEF WakeInv, Refused
  <2>2. CASE ls # {}
    BY <1>2, <1>5, <2>2 DEF Unlock, WakeInv
  <2> QED BY <2>1, <2>2
<1>6. CASE ExitLock(c)
  <2>1. Remaining(c) \in SUBSET LockId
    <3>1. need[c] \in Requests \/ need[c] = <<>>
      BY DEF TypeOK
    <3>2. <<>> \in Seq(LockId)
      OBVIOUS
    <3>3. need[c] \in Seq(LockId)
      BY ONLY <3>1, <3>2, RequestsAssumption
    <3> QED BY <3>3 DEF Remaining, Range
  <2> QED BY <1>5, <1>6, <2>1 DEF ExitLock
<1>7. ASSUME NEW l \in LockId, ReleaseOne(c, l) PROVE WakeInv'
  <2>1. Unlock({l}) /\ UNCHANGED <<known, queue, evtQueue, arb>>
    BY <1>7 DEF ReleaseOne
  <2> QED BY <1>5, <2>1
<1> QED BY <1>3, <1>4, <1>6, <1>7 DEF SeqStep

\* The arbiter goes to sleep only when nothing can be answered.
LEMMA WakeArbStep ==
    ASSUME TypeOK, WakeInv, ArbStep
    PROVE  WakeInv'
<1>1. known' = LockId
  BY DEF ArbStep, WakeIdle, QueueDrained, AwaitRelease, BeginScan, SkipEntry, PickEntry,
     Acquire, Acquired, AlreadyHeld, Grant, EndScan, WakeWaiting, lockVars, WakeInv
<1>2. CASE WakeIdle \/ WakeWaiting \/ QueueDrained \/ AwaitRelease
  BY <1>1, <1>2 DEF WakeIdle, WakeWaiting, QueueDrained, AwaitRelease, lockVars, WakeInv, Free
<1>3. CASE BeginScan
  BY <1>1, <1>3 DEF BeginScan, lockVars, WakeInv, Free
<1>4. ASSUME NEW e \in order, SkipEntry(e) PROVE WakeInv'
  <2>1. /\ Free' = Free /\ arb = "scan" /\ arb' = "scan" /\ order' = order \ {e}
        /\ UNCHANGED <<queue, scheduled, available>> /\ ~(Range(e.locks) \subseteq available)
    BY <1>4 DEF SkipEntry, Grantable, Free, lockVars
  <2> QED BY <1>1, <2>1 DEF WakeInv, Refused
<1>5. ASSUME NEW e \in order, PickEntry(e) PROVE WakeInv'
  BY <1>1, <1>5 DEF PickEntry, WakeInv
<1>6. CASE Acquire \/ Acquired \/ AlreadyHeld
  BY <1>1, <1>6 DEF Acquire, Acquired, AlreadyHeld, TakeOff, WakeInv
<1>7. CASE Grant
  BY <1>1, <1>7 DEF Grant, WakeInv
<1>8. CASE EndScan
  <2>1. CASE scheduled # {}
    BY <1>1, <1>8, <2>1 DEF EndScan, ScanAgain, WakeInv
  <2>2. CASE scheduled = {}
    <3>1. /\ Free' = Free /\ queue' = queue /\ order = {} /\ arb = "scan"
          /\ arb' = "wait_either"
      BY <1>8, <2>2 DEF EndScan, ScanAgain, Pruned, Free, lockVars
    <3> QED BY <1>1, <2>2, <3>1 DEF WakeInv, Refused
  <2> QED BY <2>1, <2>2
<1> QED BY <1>2, <1>3, <1>4, <1>5, <1>6, <1>7, <1>8 DEF ArbStep

\* The inductive invariant for wake-ups contains the property.
LEMMA WakeImplies ==
    ASSUME NoEmptyRequest, TypeOK, WakeInv
    PROVE  NoLostWakeup
<1> SUFFICES ASSUME Asleep, NEW e \in queue PROVE Refused(e)
  BY DEF NoLostWakeup, Refused
<1>1. CASE arb = "idle" \/ arb = "wait_either"
  BY <1>1 DEF Asleep, WakeInv
<1>2. CASE arb = "wait_unlocked"
  <2>1. Free = {}
    BY <1>2 DEF Asleep, WakeInv
  <2>2. e.locks \in Requests
    BY DEF TypeOK, Entries
  <2>3. e.locks[1] \in Range(e.locks)
    <3>1. e.locks \in Seq(LockId) /\ e.locks # <<>>
      BY <2>2, RequestsAssumption DEF NoEmptyRequest
    <3>2. 1 \in DOMAIN e.locks
      BY <3>1
    <3> QED BY <3>2 DEF Range
  <2> QED BY <2>1, <2>3 DEF Refused
<1> QED BY <1>1, <1>2 DEF Asleep

\* With every lock registered up front and no empty request, the arbiter
\* never sleeps while it could answer a request.
THEOREM WakeupsAreKept == AllKnown /\ NoEmptyRequest => (Spec => []NoLostWakeup)
<1> SUFFICES ASSUME AllKnown, NoEmptyRequest PROVE Spec => []NoLostWakeup
  OBVIOUS
<1>1. Init => WakeInv
  BY DEF Init, WakeInv, AllKnown
<1>2. TypeOK /\ WakeInv /\ [Next]_vars => WakeInv'
  <2> SUFFICES ASSUME TypeOK, WakeInv, [Next]_vars PROVE WakeInv'
    OBVIOUS
  <2>1. CASE UNCHANGED vars
    BY <2>1 DEF vars, lockVars, arbVars, scanVars, WakeInv, Refused, Free
  <2> QED BY <2>1, WakeSeqStep, WakeArbStep DEF Next
<1>3. TypeOK /\ WakeInv => NoLostWakeup
  BY WakeImplies
<1> QED BY <1>1, <1>2, <1>3, TypeCorrect, PTL DEF Spec
-----------------------------------------------------------------------------
(* SeqProxy: the stimulus that goes through proxies, and the events. *)

USE DrvAssumption, SentAssumption

\* A context in its lock context has entered one.
RoundInv == \A c \in Ctx : seq[c] \notin {"new", "outside"} => round[c] \in 1 .. MaxRounds

\* What was sent, seen from the locks: nothing is from a later lock context,
\* nothing is from one that was not granted yet, and the holder's block, if it
\* was begun, is the last one.
SentInv ==
    /\ \A i \in DOMAIN sent : sent[i][2] <= round[sent[i][1]]
    /\ \A i \in DOMAIN sent, c \in Ctx : sent[i] = <<c, round[c]>> => seq[c] # "queued"
    /\ \A i \in DOMAIN sent, c \in Ctx :
          lockedBy[Drv] = c /\ sent[i] = <<c, round[c]>> =>
              sent[Len(sent)] = <<c, round[c]>>
    /\ Undisturbed

\* A task in wait_for is between two requests; it has missed no event, or it
\* does not hold the driver, and then it never will.
WaitInv ==
    \A c \in Ctx :
        /\ waiting[c] # "off" => seq[c] \in {"outside", "inside"}
        /\ waiting[c] = "waiting" /\ lockedBy[Drv] = c => since[c] = emitted
        /\ waiting[c] = "woken" => payload[c] = since[c] + 1

ProxyInv ==
    SafeInv /\ ProxyTypeOK /\ RoundInv /\ SentInv /\ WaitInv

\* Initially nothing was sent and nobody waits.
LEMMA InitProxy == ProxyInit => ProxyInv
<1> SUFFICES ASSUME ProxyInit PROVE ProxyInv
  OBVIOUS
<1>1. SafeInv /\ TypeOK
  BY InitSafe DEF ProxyInit, SafeInv
<1>2. ProxyTypeOK
  BY <1>1 DEF ProxyInit, ProxyTypeOK
<1>3. RoundInv
  BY DEF RoundInv, ProxyInit, Init
<1>4. SentInv
  BY DEF SentInv, Undisturbed, ProxyInit
<1>5. WaitInv
  BY DEF WaitInv, ProxyInit
<1> QED BY <1>1, <1>2, <1>3, <1>4, <1>5 DEF ProxyInv

-----------------------------------------------------------------------------
(* Steps of the lock manager *)

\* A sequence that holds the driver without having done so before is one that
\* waits for it; and no sequence that holds it begins another round.
LEMMA HolderStep ==
    ASSUME NoDuplicates, SafeInv, Next, NEW c \in Ctx, lockedBy'[Drv] = c
    PROVE  \/ lockedBy[Drv] = c /\ round'[c] = round[c]
           \/ seq[c] = "queued" /\ round'[c] = round[c]
<1>1. TypeOK /\ (Claiming => seq[entry.ctx] = "queued")
  BY ServedWaits DEF SafeInv, Waiting
<1>2. CASE ArbStep
  <2>1. round' = round
    BY <1>2 DEF ArbStep, WakeIdle, QueueDrained, AwaitRelease, BeginScan, SkipEntry,
       PickEntry, Acquire, Acquired, AlreadyHeld, Grant, EndScan, WakeWaiting, seqVars
  <2>2. CASE Acquired
    BY <1>1, <2>1, <2>2 DEF Acquired, TypeOK, Claiming
  <2>3. CASE ~Acquired
    BY <1>2, <2>1, <2>3 DEF ArbStep, WakeIdle, QueueDrained, AwaitRelease, BeginScan,
       SkipEntry, PickEntry, Acquire, AlreadyHeld, Grant, EndScan, WakeWaiting, lockVars
  <2> QED BY <2>2, <2>3
<1>3. ASSUME NEW d \in Ctx, SeqStep(d)
      PROVE  lockedBy[Drv] = c /\ round'[c] = round[c]
  <2>1. lockedBy[Drv] = c
    BY <1>3, NoCtxAssumption DEF SeqStep, Launch, Resume, Raise, LockAll, ExitLock,
       ReleaseOne, Unlock, lockVars
  <2>2. seq[c] # "outside"
    <3>1. Entered(c) \/ (Claiming /\ entry.ctx = c)
      BY <2>1, NoCtxAssumption DEF SafeInv, HoldInv
    <3> QED BY <1>1, <3>1 DEF Entered
  <2>3. CASE \E list \in Requests : LockAll(d, list)
    BY <1>1, <2>1, <2>2, <2>3 DEF LockAll, TypeOK
  <2>4. CASE ~(\E list \in Requests : LockAll(d, list))
    BY <1>3, <2>1, <2>4 DEF SeqStep, Launch, Resume, Raise, ExitLock, ReleaseOne, seqVars
  <2> QED BY <2>3, <2>4
<1> QED BY <1>2, <1>3 DEF Next

\* Rounds only grow, a step that begins one queues the context, and a context
\* is not queued in the middle of a round.
LEMMA RoundStep ==
    ASSUME TypeOK, RoundInv, Next, NEW c \in Ctx
    PROVE  /\ round'[c] = round[c] \/ (round'[c] = round[c] + 1 /\ seq'[c] = "queued")
           /\ seq'[c] = "queued" => seq[c] = "queued" \/ round'[c] = round[c] + 1
           /\ seq'[c] \notin {"new", "outside"} => round'[c] \in 1 .. MaxRounds
<1>1. CASE ArbStep
  <2>1. seq' = seq /\ round' = round
    BY <1>1 DEF ArbStep, WakeIdle, QueueDrained, AwaitRelease, BeginScan, SkipEntry,
       PickEntry, Acquire, Acquired, AlreadyHeld, Grant, EndScan, WakeWaiting, seqVars
  <2> QED BY <2>1 DEF RoundInv
<1>2. ASSUME NEW d \in Ctx, NEW list \in Requests, LockAll(d, list)
      PROVE  /\ round'[c] = round[c] \/ (round'[c] = round[c] + 1 /\ seq'[c] = "queued")
             /\ seq'[c] = "queued" => seq[c] = "queued" \/ round'[c] = round[c] + 1
             /\ seq'[c] \notin {"new", "outside"} => round'[c] \in 1 .. MaxRounds
  <2>1. /\ seq' = [seq EXCEPT ![d] = "queued"] /\ round' = [round EXCEPT ![d] = @ + 1]
        /\ round[d] < MaxRounds /\ round \in [Ctx -> 0 .. MaxRounds] /\ seq \in [Ctx -> Stages]
    BY <1>2 DEF LockAll, TypeOK
  <2>2. CASE c = d
    <3>1. round'[c] = round[c] + 1 /\ seq'[c] = "queued" /\ round[c] \in 0 .. MaxRounds
      BY <2>1, <2>2
    <3> QED BY <2>1, <2>2, <3>1, RoundsAssumption
  <2>3. CASE c # d
    <3>1. round'[c] = round[c] /\ seq'[c] = seq[c]
      BY <2>1, <2>3
    <3> QED BY <3>1 DEF RoundInv
  <2> QED BY <2>2, <2>3
<1>3. ASSUME NEW d \in Ctx, SeqStep(d), ~(\E list \in Requests : LockAll(d, list))
      PROVE  /\ round' = round
             /\ seq'[c] = "queued" => seq[c] = "queued"
             /\ seq'[c] \notin {"new", "outside"} => seq[c] \notin {"new", "outside"}
  BY <1>3 DEF SeqStep, Launch, Resume, Raise, ExitLock, ReleaseOne, seqVars, TypeOK
<1> QED BY <1>1, <1>2, <1>3 DEF Next, SeqStep, RoundInv

\* A task in wait_for takes none of these steps, so it stays where it is.
LEMMA WaiterStays ==
    ASSUME TypeOK, LockStep, NEW c \in Ctx, waiting[c] # "off"
    PROVE  seq'[c] = seq[c]
<1>1. CASE ArbStep
  BY <1>1 DEF ArbStep, WakeIdle, QueueDrained, AwaitRelease, BeginScan, SkipEntry,
     PickEntry, Acquire, Acquired, AlreadyHeld, Grant, EndScan, WakeWaiting, seqVars
<1>2. ASSUME NEW d \in Ctx, d # c, SeqStep(d) PROVE seq'[c] = seq[c]
  BY <1>2 DEF SeqStep, Launch, Resume, Raise, ExitLock, ReleaseOne, LockAll, seqVars, TypeOK
<1> QED BY <1>1, <1>2 DEF LockStep

\* No step of the lock manager breaks the invariant.
LEMMA LockStepProxy ==
    ASSUME NoDuplicates, ProxyInv, LockStep PROVE ProxyInv'
<1>1. Next /\ UNCHANGED proxyVars
  BY DEF LockStep, Next
<1>2. SafeInv /\ SafeInv' /\ TypeOK /\ TypeOK'
  BY <1>1, StepSafe DEF ProxyInv, SafeInv
<1>3. ProxyTypeOK'
  BY <1>1, <1>2 DEF ProxyInv, ProxyTypeOK, proxyVars
<1>4. RoundInv'
  BY <1>1, <1>2, RoundStep DEF ProxyInv, RoundInv
<1>5. SentInv'
  <2>1. sent' = sent /\ sent \in Seq(Ctx \X (1 .. MaxRounds))
    BY <1>1 DEF proxyVars, ProxyInv, ProxyTypeOK
  <2>2. \A i \in DOMAIN sent : sent[i] \in Ctx \X (1 .. MaxRounds)
    BY <2>1
  <2>3. \A i \in DOMAIN sent : sent[i][2] <= round[sent[i][1]]
    BY DEF ProxyInv, SentInv
  <2>4. \A c \in Ctx : round[c] \in Nat /\ round'[c] \in Nat /\ round[c] <= round'[c]
    <3> SUFFICES ASSUME NEW c \in Ctx
                 PROVE  round[c] \in Nat /\ round'[c] \in Nat /\ round[c] <= round'[c]
      OBVIOUS
    <3>1. round[c] \in 0 .. MaxRounds
      BY <1>2 DEF TypeOK
    <3>2. round'[c] = round[c] \/ round'[c] = round[c] + 1
      BY <1>1, <1>2, RoundStep DEF ProxyInv
    <3> QED BY <3>1, <3>2, RoundsAssumption
  <2>5. ASSUME NEW i \in DOMAIN sent PROVE sent[i][2] <= round'[sent[i][1]]
    <3>1. sent[i][1] \in Ctx /\ sent[i][2] \in Nat
      BY <2>2
    <3> QED BY <2>3, <2>4, <3>1
  <2>6. ASSUME NEW i \in DOMAIN sent, NEW c \in Ctx, sent[i] = <<c, round'[c]>>
        PROVE  round'[c] = round[c] /\ seq'[c] # "queued" /\ seq[c] # "queued"
    <3>1. round'[c] <= round[c]
      BY <2>3, <2>6
    <3>2. round'[c] = round[c]
      BY <2>4, <3>1
    <3>3. seq[c] # "queued"
      BY <2>6, <3>2 DEF ProxyInv, SentInv
    <3>4. seq'[c] # "queued"
      BY <1>1, <1>2, <2>4, <3>2, <3>3, RoundStep DEF ProxyInv
    <3> QED BY <3>2, <3>3, <3>4
  <2>7. ASSUME NEW i \in DOMAIN sent, NEW c \in Ctx, lockedBy'[Drv] = c,
               sent[i] = <<c, round'[c]>>
        PROVE  sent[Len(sent)] = <<c, round'[c]>>
    <3>1. round'[c] = round[c] /\ seq[c] # "queued"
      BY <2>6, <2>7
    <3>2. lockedBy[Drv] = c
      BY <1>1, <1>2, <2>7, <3>1, HolderStep
    <3> QED BY <2>7, <3>1, <3>2 DEF ProxyInv, SentInv
  <2>8. Undisturbed'
    BY <2>1 DEF ProxyInv, SentInv, Undisturbed
  <2> QED BY <2>1, <2>5, <2>6, <2>7, <2>8 DEF SentInv
<1>6. WaitInv'
  <2> SUFFICES ASSUME NEW c \in Ctx, waiting[c] # "off"
               PROVE  /\ seq'[c] \in {"outside", "inside"}
                      /\ waiting[c] = "waiting" /\ lockedBy'[Drv] = c => since[c] = emitted
                      /\ waiting[c] = "woken" => payload[c] = since[c] + 1
    BY <1>1 DEF WaitInv, proxyVars
  <2>1. seq'[c] = seq[c] /\ seq[c] \in {"outside", "inside"}
    BY <1>2, WaiterStays DEF ProxyInv, WaitInv
  <2>2. lockedBy'[Drv] = c => lockedBy[Drv] = c
    BY <1>1, <1>2, <2>1, HolderStep
  <2> QED BY <2>1, <2>2 DEF ProxyInv, WaitInv
<1> QED BY <1>2, <1>3, <1>4, <1>5, <1>6 DEF ProxyInv

-----------------------------------------------------------------------------
(* Steps of the proxies *)

\* A step that leaves the lock manager alone keeps its part of the invariant.
LEMMA LocksUntouched ==
    ASSUME ProxyInv, UNCHANGED vars PROVE SafeInv' /\ TypeOK' /\ RoundInv'
<1>1. SafeInv'
  BY DEF ProxyInv, SafeInv, TypeOK, QueueInv, HoldInv, SnapshotInv, Waiting, Entered,
         Current, Claiming, Scanning, vars, lockVars, seqVars, arbVars, scanVars
<1> QED BY <1>1 DEF SafeInv, ProxyInv, RoundInv, vars, seqVars

\* The holder's block grows at its end.
LEMMA PushProxy ==
    ASSUME ProxyInv, NEW c \in Ctx, Running(c), Push(c), UNCHANGED vars
    PROVE  SentInv' /\ sent' \in Seq(Ctx \X (1 .. MaxRounds)) /\ Len(sent') = Len(sent) + 1
           /\ Len(sent') <= MaxSent
<1> DEFINE new == <<c, round[c]>>
<1>1. sent \in Seq(Ctx \X (1 .. MaxRounds)) /\ Len(sent) \in Nat
  BY DEF ProxyInv, ProxyTypeOK
<1>2. seq[c] = "inside" /\ lockedBy[Drv] = c /\ round[c] \in 1 .. MaxRounds
  BY DEF Running, Push, HoldsLock, ProxyInv, RoundInv
<1>3. new \in Ctx \X (1 .. MaxRounds)
  BY <1>2
<1>4. /\ sent' = Append(sent, new) /\ sent' \in Seq(Ctx \X (1 .. MaxRounds))
      /\ Len(sent') = Len(sent) + 1 /\ DOMAIN sent' = 1 .. Len(sent) + 1
      /\ DOMAIN sent = 1 .. Len(sent)
      /\ sent'[Len(sent) + 1] = new /\ \A i \in 1 .. Len(sent) : sent'[i] = sent[i]
  BY <1>1, <1>3 DEF Push
<1>5. UNCHANGED <<round, seq, lockedBy>>
  BY DEF vars, seqVars, lockVars
<1>6. SentInv
  BY DEF ProxyInv
<1>7. \A i \in DOMAIN sent' : sent'[i][2] <= round'[sent'[i][1]]
  <2>1. new[2] <= round[new[1]]
    BY <1>2
  <2> QED BY <1>4, <1>5, <1>6, <2>1 DEF SentInv
<1>8. \A i \in DOMAIN sent', d \in Ctx : sent'[i] = <<d, round'[d]>> => seq'[d] # "queued"
  <2> SUFFICES ASSUME NEW i \in DOMAIN sent', NEW d \in Ctx, sent'[i] = <<d, round'[d]>>
               PROVE  seq'[d] # "queued"
    OBVIOUS
  <2>1. CASE i \in 1 .. Len(sent)
    BY <1>4, <1>5, <1>6, <2>1 DEF SentInv
  <2>2. CASE i = Len(sent) + 1
    <3>1. d = c
      BY ONLY <1>4, <2>2, sent'[i] = <<d, round'[d]>>
    <3> QED BY ONLY <1>2, <1>5, <3>1
  <2> QED BY <1>1, <1>4, <2>1, <2>2
<1>9. \A i \in DOMAIN sent', d \in Ctx :
        lockedBy'[Drv] = d /\ sent'[i] = <<d, round'[d]>> =>
            sent'[Len(sent')] = <<d, round'[d]>>
  <2>1. sent'[Len(sent')] = <<c, round'[c]>>
    BY ONLY <1>4, <1>5
  <2>2. \A d \in Ctx : lockedBy'[Drv] = d => d = c
    BY ONLY <1>2, <1>5
  <2> QED BY ONLY <2>1, <2>2
<1>10. Undisturbed'
  <2> SUFFICES ASSUME NEW i \in DOMAIN sent', NEW j \in DOMAIN sent', NEW k \in DOMAIN sent',
                      i < j, j < k, sent'[i] = sent'[k]
               PROVE  sent'[j] = sent'[i]
    BY DEF Undisturbed
  <2>1. i \in 1 .. Len(sent) /\ j \in 1 .. Len(sent)
    BY <1>1, <1>4
  <2>2. CASE k \in 1 .. Len(sent)
    BY <1>4, <1>6, <2>1, <2>2 DEF SentInv, Undisturbed
  <2>3. CASE k = Len(sent) + 1
    <3>1. sent[i] = <<c, round[c]>>
      BY <1>4, <2>1, <2>3
    <3>2. sent[Len(sent)] = sent[i]
      BY <1>2, <1>4, <1>6, <2>1, <3>1 DEF SentInv
    <3>3. j = Len(sent) \/ j < Len(sent)
      BY <1>1, <2>1
    <3>4. CASE j < Len(sent)
      <4>1. i \in DOMAIN sent /\ j \in DOMAIN sent /\ Len(sent) \in DOMAIN sent
        BY <1>1, <1>4, <2>1
      <4>2. sent[j] = sent[i]
        BY <1>6, <3>2, <3>4, <4>1 DEF SentInv, Undisturbed
      <4> QED BY <1>4, <2>1, <4>2
    <3> QED BY <1>4, <2>1, <3>2, <3>3, <3>4
  <2> QED BY <1>4, <2>2, <2>3
<1>11. Len(sent') <= MaxSent
  BY <1>1, <1>4 DEF Push
<1> QED BY <1>4, <1>7, <1>8, <1>9, <1>10, <1>11 DEF SentInv

\* Enqueueing, waiting and returning keep the invariant.
LEMMA ProxyStepProxy ==
    ASSUME ProxyInv, NEW c \in Ctx, ProxyStep(c) PROVE ProxyInv'
<1>1. UNCHANGED <<vars, emitted>>
  BY DEF ProxyStep, Enqueue, WaitFor, EnqueueAndWait, Return
<1>2. SafeInv' /\ TypeOK' /\ RoundInv'
  BY <1>1, LocksUntouched
<1>3. SentInv' /\ sent' \in Seq(Ctx \X (1 .. MaxRounds)) /\ Len(sent') <= MaxSent
      /\ Len(sent) <= Len(sent')
  <2>1. CASE Enqueue(c) \/ EnqueueAndWait(c)
    <3>1. Running(c) /\ Push(c) /\ UNCHANGED vars
      BY <2>1 DEF Enqueue, EnqueueAndWait
    <3>2. SentInv' /\ sent' \in Seq(Ctx \X (1 .. MaxRounds)) /\ Len(sent') <= MaxSent
          /\ Len(sent') = Len(sent) + 1
      BY ONLY ProxyInv, c \in Ctx, <3>1, PushProxy
    <3>3. Len(sent) \in Nat
      BY DEF ProxyInv, ProxyTypeOK
    <3> QED BY ONLY <3>2, <3>3
  <2>2. CASE WaitFor(c) \/ Return(c)
    <3>1. UNCHANGED <<sent, seq, round, lockedBy>>
      BY <1>1, <2>2 DEF WaitFor, Return, vars, seqVars, lockVars
    <3>2. SentInv /\ sent \in Seq(Ctx \X (1 .. MaxRounds)) /\ Len(sent) <= MaxSent
      BY DEF ProxyInv, ProxyTypeOK
    <3>3. SentInv'
      BY <3>1, <3>2, ZenonT(30) DEF SentInv, Undisturbed
    <3>4. Len(sent) \in Nat
      BY <3>2
    <3> QED BY <3>1, <3>2, <3>3, <3>4
  <2> QED BY <2>1, <2>2 DEF ProxyStep
<1>4. /\ waiting \in [Ctx -> {"off", "waiting", "woken"}]
      /\ payload \in [Ctx -> 0 .. emitted] /\ since \in [Ctx -> 0 .. emitted]
      /\ emitted \in Nat /\ emitted <= Len(sent) /\ Len(sent) \in Nat
  BY DEF ProxyInv, ProxyTypeOK
<1>5. \/ /\ UNCHANGED <<waiting, payload, since>>
      \/ /\ seq[c] \in {"outside", "inside"}
         /\ waiting' = [waiting EXCEPT ![c] = "waiting"]
         /\ payload' = [payload EXCEPT ![c] = 0]
         /\ since' = [since EXCEPT ![c] = emitted]
      \/ /\ waiting' = [waiting EXCEPT ![c] = "off"]
         /\ payload' = [payload EXCEPT ![c] = 0]
         /\ since' = [since EXCEPT ![c] = 0]
  BY DEF ProxyStep, Enqueue, WaitFor, EnqueueAndWait, Return, Register, Running
<1>6. ProxyTypeOK'
  <2>1. /\ waiting' \in [Ctx -> {"off", "waiting", "woken"}]
        /\ payload' \in [Ctx -> 0 .. emitted] /\ since' \in [Ctx -> 0 .. emitted]
    <3>1. 0 \in 0 .. emitted /\ emitted \in 0 .. emitted
      BY <1>4
    <3>2. CASE UNCHANGED <<waiting, payload, since>>
      BY <1>4, <3>2
    <3>3. CASE /\ waiting' = [waiting EXCEPT ![c] = "waiting"]
               /\ payload' = [payload EXCEPT ![c] = 0]
               /\ since' = [since EXCEPT ![c] = emitted]
      BY <1>4, <3>1, <3>3
    <3>4. CASE /\ waiting' = [waiting EXCEPT ![c] = "off"]
               /\ payload' = [payload EXCEPT ![c] = 0]
               /\ since' = [since EXCEPT ![c] = 0]
      BY <1>4, <3>1, <3>4
    <3> QED BY <1>5, <3>2, <3>3, <3>4
  <2>2. emitted' \in 0 .. Len(sent')
    BY <1>1, <1>3, <1>4
  <2> QED BY <1>1, <1>2, <1>3, <2>1, <2>2 DEF ProxyTypeOK, ProxyInv
<1>7. WaitInv'
  <2>1. UNCHANGED <<seq, lockedBy, emitted>>
    BY <1>1 DEF vars, seqVars, lockVars
  <2> QED BY <1>4, <1>5, <2>1 DEF ProxyInv, WaitInv
<1> QED BY <1>2, <1>3, <1>6, <1>7 DEF ProxyInv

\* A publication wakes a waiter on the proxy of the holder, and no other.
LEMMA PreDriveProxy ==
    ASSUME ProxyInv, PreDrive PROVE ProxyInv'
<1>1. UNCHANGED <<vars, sent, since>> /\ emitted' = emitted + 1 /\ emitted < Len(sent)
  BY DEF PreDrive
<1>2. SafeInv' /\ TypeOK' /\ RoundInv' /\ TypeOK
  BY <1>1, LocksUntouched DEF ProxyInv, ProxyTypeOK
<1>3. UNCHANGED <<seq, round, lockedBy>>
  BY <1>1 DEF vars, seqVars, lockVars
<1>4. SentInv'
  BY <1>1, <1>3 DEF ProxyInv, SentInv, Undisturbed
<1>5. /\ waiting \in [Ctx -> {"off", "waiting", "woken"}]
      /\ payload \in [Ctx -> 0 .. emitted] /\ since \in [Ctx -> 0 .. emitted]
      /\ emitted \in Nat /\ Len(sent) \in Nat
  BY DEF ProxyInv, ProxyTypeOK
<1>6. /\ waiting' = [c \in Ctx |-> IF Pending(c) THEN "woken" ELSE waiting[c]]
      /\ payload' = [c \in Ctx |-> IF Pending(c) THEN emitted + 1 ELSE payload[c]]
  BY <1>1 DEF PreDrive
<1>7. ProxyTypeOK'
  <2>1. emitted' \in 0 .. Len(sent')
    BY <1>1, <1>5
  <2>2. payload' \in [Ctx -> 0 .. emitted'] /\ since' \in [Ctx -> 0 .. emitted']
    BY <1>1, <1>5, <1>6
  <2>3. waiting' \in [Ctx -> {"off", "waiting", "woken"}]
    BY <1>5, <1>6
  <2> QED BY <1>1, <1>2, <2>1, <2>2, <2>3 DEF ProxyTypeOK, ProxyInv
<1>8. WaitInv'
  <2> SUFFICES ASSUME NEW c \in Ctx
               PROVE  /\ waiting'[c] # "off" => seq[c] \in {"outside", "inside"}
                      /\ waiting'[c] = "waiting" /\ lockedBy[Drv] = c => since[c] = emitted'
                      /\ waiting'[c] = "woken" => payload'[c] = since[c] + 1
    BY <1>1, <1>3 DEF WaitInv
  <2>1. /\ waiting[c] # "off" => seq[c] \in {"outside", "inside"}
        /\ waiting[c] = "waiting" /\ lockedBy[Drv] = c => since[c] = emitted
        /\ waiting[c] = "woken" => payload[c] = since[c] + 1
    BY DEF ProxyInv, WaitInv
  <2>2. Pending(c) <=> seq[c] # "new" /\ lockedBy[Drv] = c /\ waiting[c] = "waiting"
    BY DEF Pending, Delivers, HoldsLock
  <2> QED BY <1>5, <1>6, <2>1, <2>2
<1> QED BY <1>2, <1>4, <1>7, <1>8 DEF ProxyInv

-----------------------------------------------------------------------------
(* The theorems *)

\* The invariant of lock manager and proxies is inductive.
THEOREM ProxyInvariant == NoDuplicates => (ProxySpec => []ProxyInv)
<1> SUFFICES ASSUME NoDuplicates PROVE ProxySpec => []ProxyInv
  OBVIOUS
<1>1. ProxyInv /\ [ProxyNext]_pvars => ProxyInv'
  <2> SUFFICES ASSUME ProxyInv, [ProxyNext]_pvars PROVE ProxyInv'
    OBVIOUS
  <2>1. CASE UNCHANGED pvars
    <3>1. UNCHANGED vars /\ UNCHANGED proxyVars /\ UNCHANGED <<seq, round, lockedBy>>
      BY <2>1 DEF pvars, vars, seqVars, lockVars
    <3>2. SafeInv' /\ TypeOK' /\ RoundInv'
      BY <3>1, LocksUntouched
    <3>3. ProxyTypeOK'
      <4>1. ProxyTypeOK /\ UNCHANGED <<sent, emitted, waiting, payload, since>>
        BY <3>1 DEF ProxyInv, proxyVars
      <4> QED BY <3>2, <4>1, ZenonT(30) DEF ProxyTypeOK
    <3>4. SentInv'
      <4>1. SentInv /\ UNCHANGED <<sent, seq, round, lockedBy>>
        BY <3>1 DEF ProxyInv, proxyVars
      <4> QED BY <4>1, ZenonT(30) DEF SentInv, Undisturbed
    <3>5. WaitInv'
      <4>1. WaitInv /\ UNCHANGED <<waiting, payload, since, emitted, seq, lockedBy>>
        BY <3>1 DEF ProxyInv, proxyVars
      <4> QED BY <4>1, ZenonT(30) DEF WaitInv
    <3> QED BY <3>2, <3>3, <3>4, <3>5 DEF ProxyInv
  <2> QED BY <2>1, LockStepProxy, PreDriveProxy, ProxyStepProxy DEF ProxyNext
<1> QED BY <1>1, InitProxy, PTL DEF ProxySpec

\* What one lock context enqueues on a driver is never interrupted by another
\* sequence: SeqProxy.enqueue asks for the lock, and the lock does not come
\* back to a context that has handed it back.
THEOREM StimulusUndisturbed == NoDuplicates => (ProxySpec => []Undisturbed)
<1>1. ProxyInv => Undisturbed
  BY DEF ProxyInv, SentInv
<1> QED BY <1>1, ProxyInvariant, PTL

\* wait_for on a proxy returns the first event after the call.
THEOREM WaitsWokenByNext == NoDuplicates => (ProxySpec => []WokenByNext)
<1>1. ProxyInv => WokenByNext
  BY DEF ProxyInv, WaitInv, WokenByNext
<1> QED BY <1>1, ProxyInvariant, PTL
-----------------------------------------------------------------------------
(* TestSeries: what is left locked at the end of a testcase stays locked, for *)
(* any number of testcases and whatever requests name.  The types are those   *)
(* of SeqArbiter, and so are the lemmas about them; its invariant does not    *)
(* hold across testcases, because the sequences that were cut off stay where  *)
(* they were.                                                                 *)

USE TestsAssumption

\* A lock that is free has no holder, and neither has the one that is being
\* acquired, which is taken already.
RecordInv ==
    /\ \A l \in LockId : ~locked[l] => lockedBy[l] = NoCtx
    /\ arb = "acquiring" =>
         locked[entry.locks[pos]] /\ lockedBy[entry.locks[pos]] = NoCtx

SeriesInv == TypeOK /\ test \in Nat /\ RecordInv

\* The lock that is being acquired is one of the locks.
LEMMA AcquiringType ==
    ASSUME TypeOK, arb = "acquiring" \/ (arb = "claim" /\ pos \in DOMAIN entry.locks)
    PROVE  entry.ctx \in Ctx /\ entry.locks[pos] \in LockId
<1>1. entry \in Entries /\ pos \in DOMAIN entry.locks
  <2>1. entry \in queue /\ queue \subseteq Entries
    BY DEF TypeOK
  <2>2. pos \in DOMAIN entry.locks
    BY DEF TypeOK
  <2> QED BY <2>1, <2>2
<1>2. entry.locks \in Seq(LockId)
  BY <1>1 DEF Entries
<1> QED BY <1>1, <1>2 DEF Entries

\* The next testcase begins with an arbiter of the right type.
LEMMA NextTestType == ASSUME SeriesInv, NextTest PROVE TypeOK' /\ test' \in Nat
<1>1. entry' = NoEntry /\ pos' = 1 /\ queue' = {} /\ arb' = "idle"
  BY DEF NextTest
<1>2. pos' \in 1 .. Len(entry'.locks) + 1
  <2>1. entry'.locks = <<>>
    BY <1>1 DEF NoEntry
  <2> QED BY <1>1, <2>1
<1>3. test' \in Nat
  BY DEF SeriesInv, NextTest
<1> QED BY <1>1, <1>2, <1>3 DEF SeriesInv, NextTest, TypeOK, ArbStages, lockVars, seqVars

-----------------------------------------------------------------------------
(* The steps of a testcase *)

\* Locks that somebody holds are given back.
LEMMA UnlockRecord ==
    ASSUME SeriesInv, NEW ls, \A l \in ls : l \in LockId => lockedBy[l] # NoCtx,
           Unlock(ls), UNCHANGED <<arb, scanVars>>
    PROVE  RecordInv'
<1>1. /\ locked' = [l \in LockId |-> locked[l] /\ l \notin ls]
      /\ lockedBy' = [l \in LockId |-> IF l \in ls THEN NoCtx ELSE lockedBy[l]]
  BY DEF Unlock
<1>2. \A l \in LockId : ~locked'[l] => lockedBy'[l] = NoCtx
  BY <1>1 DEF SeriesInv, RecordInv
<1>3. ASSUME arb' = "acquiring"
      PROVE  locked'[entry'.locks[pos']] /\ lockedBy'[entry'.locks[pos']] = NoCtx
  <2> DEFINE x == entry.locks[pos]
  <2>1. arb = "acquiring" /\ entry'.locks[pos'] = x
    BY <1>3 DEF scanVars
  <2>2. x \in LockId /\ locked[x] /\ lockedBy[x] = NoCtx
    BY <2>1, AcquiringType DEF SeriesInv, RecordInv
  <2>3. x \notin ls
    BY <2>2
  <2> QED BY <1>1, <2>1, <2>2, <2>3
<1> QED BY <1>2, <1>3 DEF RecordInv

LEMMA SeqRecord ==
    ASSUME SeriesInv, NEW c \in Ctx, SeqStep(c)
    PROVE  RecordInv'
<1>1. CASE Launch(c) \/ Resume(c) \/ Raise(c) \/ \E list \in Requests : LockAll(c, list)
  BY <1>1 DEF Launch, Resume, Raise, LockAll, SeriesInv, RecordInv, lockVars, arbVars, scanVars
<1>2. CASE ExitLock(c)
  <2>1. /\ Unlock(Remaining(c)) /\ UNCHANGED <<arb, scanVars>>
        /\ \A l \in Remaining(c) : lockedBy[l] # NoCtx
    BY <1>2 DEF ExitLock, Remaining
  <2> QED BY <2>1, UnlockRecord
<1>3. CASE \E l \in LockId : ReleaseOne(c, l)
  <2>1. PICK l \in LockId : ReleaseOne(c, l)
    BY <1>3
  <2>2. Unlock({l}) /\ UNCHANGED <<arb, scanVars>> /\ lockedBy[l] # NoCtx
    BY <2>1 DEF ReleaseOne, MayRelease
  <2> QED BY <2>2, UnlockRecord
<1> QED BY <1>1, <1>2, <1>3 DEF SeqStep

LEMMA ArbRecord ==
    ASSUME SeriesInv, ArbStep
    PROVE  RecordInv'
<1>1. CASE Acquire
  <2>1. entry.locks[pos] \in LockId
    BY <1>1, AcquiringType DEF SeriesInv, Acquire
  <2> QED BY <1>1, <2>1 DEF Acquire, SeriesInv, RecordInv, TypeOK, scanVars
<1>2. CASE Acquired
  <2>1. entry.locks[pos] \in LockId
    BY <1>2, AcquiringType DEF SeriesInv, Acquired
  <2>2. arb' # "acquiring"
    BY <1>2 DEF Acquired, TakeOff
  <2> QED BY <1>2, <2>1, <2>2 DEF Acquired, SeriesInv, RecordInv, TypeOK
<1>3. CASE AlreadyHeld
  BY <1>3 DEF AlreadyHeld, TakeOff, SeriesInv, RecordInv, lockVars
<1>4. CASE \/ WakeIdle \/ QueueDrained \/ AwaitRelease \/ BeginScan \/ Grant \/ EndScan
           \/ WakeWaiting \/ \E e \in order : SkipEntry(e) \/ PickEntry(e)
  BY <1>4 DEF WakeIdle, QueueDrained, AwaitRelease, BeginScan, SkipEntry, PickEntry, Grant,
     EndScan, WakeWaiting, SeriesInv, RecordInv, lockVars
<1> QED BY <1>1, <1>2, <1>3, <1>4 DEF ArbStep

LEMMA SeriesStep == SeriesInv /\ [SeriesNext]_svars => SeriesInv'
<1> SUFFICES ASSUME SeriesInv, [SeriesNext]_svars PROVE SeriesInv'
  OBVIOUS
<1>1. CASE NextTest
  <2>1. RecordInv'
    BY <1>1 DEF NextTest, SeriesInv, RecordInv, lockVars
  <2> QED BY <1>1, <2>1, NextTestType DEF SeriesInv
<1>2. CASE ArbStep /\ UNCHANGED test
  BY <1>2, ArbType, ArbRecord DEF SeriesInv
<1>3. ASSUME NEW c \in Ctx, SeqStep(c), UNCHANGED test PROVE SeriesInv'
  BY <1>3, SeqType, SeqRecord DEF SeriesInv
<1>4. CASE UNCHANGED svars
  BY <1>4 DEF svars, vars, lockVars, seqVars, arbVars, scanVars, SeriesInv, RecordInv, TypeOK
<1> QED BY <1>1, <1>2, <1>3, <1>4 DEF SeriesNext, InTest

\* The invariant of a series of testcases.
THEOREM SeriesInvariant == SeriesSpec => []SeriesInv
<1>1. SeriesInit => SeriesInv
  <2> SUFFICES ASSUME SeriesInit PROVE SeriesInv
    OBVIOUS
  <2>1. TypeOK
    BY InitType DEF SeriesInit
  <2>2. RecordInv
    BY DEF SeriesInit, Init, RecordInv
  <2>3. test \in Nat
    BY DEF SeriesInit
  <2> QED BY <2>1, <2>2, <2>3 DEF SeriesInv
<1> QED BY <1>1, SeriesStep, PTL DEF SeriesSpec

-----------------------------------------------------------------------------
(* The theorem *)

\* No step changes what is recorded of a lock that was left behind.
LEMMA LeftStays ==
    ASSUME SeriesInv, SeriesNext, NEW l \in LockId, LeftBehind(l)
    PROVE  locked'[l] /\ lockedBy'[l] = lockedBy[l]
<1>1. locked[l]
  BY DEF LeftBehind
<1>2. ASSUME NEW c \in Ctx, Alive(c) PROVE lockedBy[l] # c
  BY <1>2 DEF LeftBehind, Alive
<1>3. ASSUME NEW ls, Unlock(ls), l \notin ls PROVE locked'[l] /\ lockedBy'[l] = lockedBy[l]
  BY <1>1, <1>3 DEF Unlock
<1>4. CASE NextTest
  BY <1>1, <1>4 DEF NextTest, lockVars
<1>5. ASSUME NEW c \in Ctx, Alive(c), SeqStep(c)
      PROVE  locked'[l] /\ lockedBy'[l] = lockedBy[l]
  <2>1. CASE ExitLock(c)
    BY <1>2, <1>3, <1>5, <2>1 DEF ExitLock, Remaining
  <2>2. ASSUME NEW k \in LockId, ReleaseOne(c, k)
        PROVE  locked'[l] /\ lockedBy'[l] = lockedBy[l]
    <3>1. k # l
      BY <1>2, <1>5, <2>2 DEF ReleaseOne, MayRelease
    <3> QED BY <1>3, <2>2, <3>1 DEF ReleaseOne
  <2>3. CASE Launch(c) \/ Resume(c) \/ Raise(c) \/ \E list \in Requests : LockAll(c, list)
    BY <1>1, <2>3 DEF Launch, Resume, Raise, LockAll, lockVars
  <2> QED BY <1>5, <2>1, <2>2, <2>3 DEF SeqStep
<1>6. CASE ArbStep
  <2>1. CASE Acquire
    BY <1>1, <2>1 DEF Acquire, SeriesInv, TypeOK
  <2>2. CASE Acquired
    <3>1. lockedBy[entry.locks[pos]] = NoCtx /\ arb = "acquiring"
      BY <2>2 DEF Acquired, SeriesInv, RecordInv
    <3>2. entry.locks[pos] # l
      BY <3>1 DEF LeftBehind
    <3> QED BY <1>1, <2>2, <3>2 DEF Acquired, SeriesInv, TypeOK
  <2>3. CASE ~Acquire /\ ~Acquired
    BY <1>1, <1>6, <2>3 DEF ArbStep, WakeIdle, QueueDrained, AwaitRelease, BeginScan,
       SkipEntry, PickEntry, AlreadyHeld, Grant, EndScan, WakeWaiting, lockVars
  <2> QED BY <2>1, <2>2, <2>3
<1> QED BY <1>4, <1>5, <1>6 DEF SeriesNext, InTest

\* A lock that an earlier testcase left locked is never freed and never gets
\* another holder: later testcases can neither use it nor damage it.
THEOREM LeftLocksStay == SeriesSpec => LeftForGood
<1> DEFINE Stays == \A l \in LockId : LeftBehind(l) => locked'[l] /\ lockedBy'[l] = lockedBy[l]
<1>1. SeriesInv /\ [SeriesNext]_svars => [Stays]_svars
  BY LeftStays
<1> QED BY <1>1, SeriesInvariant, PTL DEF SeriesSpec, LeftForGood
=============================================================================
