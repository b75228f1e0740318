----------------------------- MODULE AtomicLocks -----------------------------
(***************************************************************************)
(* What forastero promises to a sequence that asks for locks, without any  *)
(* of the machinery: a request for a set of locks is answered in ONE step, *)
(* and only when every lock of the set is free ("locks will only be        *)
(* claimed if all locks are available, otherwise it will wait until such a *)
(* condition can be met", SeqContext.lock).  A holder may hand single      *)
(* locks back early and hands back the rest when it leaves.                *)
(***************************************************************************)
CONSTANTS
    Ctx,        \* sequence contexts
    LockId,     \* the locks of all components and all names
    NoCtx       \* "nobody", the holder of a free lock

VARIABLES
    holder,     \* [LockId -> Ctx \cup {NoCtx}]
    stage,      \* [Ctx -> {"outside", "waiting", "inside"}]
    wants       \* [Ctx -> SUBSET LockId], the set asked for

avars == <<holder, stage, wants>>

AtomicInit ==
    /\ holder = [l \in LockId |-> NoCtx]
    /\ stage = [c \in Ctx |-> "outside"]
    /\ wants = [c \in Ctx |-> {}]

\* A sequence enters "async with ctx.lock(...)" and starts to wait.
Ask(c) ==
    /\ stage[c] = "outside"
    /\ stage' = [stage EXCEPT ![c] = "waiting"]
    /\ \E want \in SUBSET LockId : wants' = [wants EXCEPT ![c] = want]
    /\ UNCHANGED holder

\* All the locks of a waiting request change hands together, and were free.
Answer(c) ==
    /\ stage[c] = "waiting"
    /\ \A l \in wants[c] : holder[l] = NoCtx
    /\ holder' = [l \in LockId |-> IF l \in wants[c] THEN c ELSE holder[l]]
    /\ stage' = [stage EXCEPT ![c] = "inside"]
    /\ UNCHANGED wants

\* A lock is handed back before the end of the context.
GiveBack(c, l) ==
    /\ stage[c] = "inside"
    /\ holder[l] = c
    /\ holder' = [holder EXCEPT ![l] = NoCtx]
    /\ UNCHANGED <<stage, wants>>

\* The end of the context: whatever is still held is handed back.
Leave(c) ==
    /\ stage[c] = "inside"
    /\ holder' = [l \in LockId |-> IF holder[l] = c THEN NoCtx ELSE holder[l]]
    /\ stage' = [stage EXCEPT ![c] = "outside"]
    /\ UNCHANGED wants

AtomicNext ==
    \E c \in Ctx :
        \/ Ask(c)
        \/ Answer(c)
        \/ Leave(c)
        \/ \E l \in LockId : GiveBack(c, l)

AtomicSpec == AtomicInit /\ [][AtomicNext]_avars
=============================================================================
