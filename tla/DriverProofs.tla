----------------------------- MODULE DriverProofs ------------------------------
(***************************************************************************)
(* Theorems about Driver for every set of transactions and every set of    *)
(* iterables: what the events that enqueue returns say about the drives.   *)
(***************************************************************************)
EXTENDS Driver, SequenceTheorems, TLAPS

USE NoTxnAssumption

(* Sequences *)

\* What a concatenation contains.
LEMMA Members ==
    ASSUME NEW S, NEW s \in Seq(S), NEW t \in Seq(S)
    PROVE  Range(s \o t) = Range(s) \cup Range(t)
BY RangeConcatenation

\* What Append adds.
LEMMA MembersAppend ==
    ASSUME NEW S, NEW s \in Seq(S), NEW x \in S
    PROVE  Range(Append(s, x)) = Range(s) \cup {x}
<1>1. <<x>> \in Seq(S) /\ Range(<<x>>) = {x}
  BY DEF Range
<1>2. Append(s, x) = s \o <<x>>
  BY AppendIsConcat
<1>3. PICK t \in Seq(S) : t = <<x>>
  BY <1>1
<1>4. Range(s \o t) = Range(s) \cup Range(t)
  BY Members
<1> QED BY <1>1, <1>2, <1>3, <1>4

\* The head is a member, and the tail has no others.
LEMMA MembersOfTail ==
    ASSUME NEW S, NEW s \in Seq(S), s # <<>>
    PROVE  Head(s) \in Range(s) /\ Head(s) = s[1] /\ Range(Tail(s)) \subseteq Range(s)
<1>1. /\ Len(s) \in Nat /\ Len(s) >= 1 /\ DOMAIN s = 1 .. Len(s) /\ Head(s) = s[1]
      /\ DOMAIN Tail(s) = 1 .. Len(s) - 1
      /\ \A i \in 1 .. Len(s) - 1 : Tail(s)[i] = s[i + 1]
  BY HeadTailProperties, LenProperties
<1>2. \A i \in 1 .. Len(s) - 1 : i + 1 \in 1 .. Len(s)
  BY <1>1
<1> QED BY <1>1, <1>2 DEF Range

-----------------------------------------------------------------------------
(* The inductive invariant *)

\* An entry of the queue has transactions that were accepted, and one of them
\* if it is no iterable.
EntryInv ==
    \A i \in DOMAIN queue :
        /\ Range(queue[i].items) \subseteq Range(accepted)
        /\ ~queue[i].iter => Len(queue[i].items) = 1

\* So has the loop, and so has the design.
TakenInv ==
    /\ hand # NoTxn => hand \in Range(accepted)
    /\ Range(driven) \subseteq Range(accepted)

\* A transaction that has an event was accepted, and not as part of an
\* iterable, whose items have their triggers overwritten.
EventInv ==
    \A t \in Txn : event[<<"single", t>>] # "none" =>
        /\ t \in Range(accepted)
        /\ trigger[t] # "NONE"
        /\ \A i \in DOMAIN queue : queue[i].iter => t \notin Range(queue[i].items)

\* EventTruthful, one trigger after the other.
TruthInv ==
    \A t \in Txn : event[<<"single", t>>] # "none" =>
        /\ trigger[t] = "ENQUEUE" => event[<<"single", t>>] = "set"
        /\ trigger[t] = "PRE_DRIVE" =>
              (event[<<"single", t>>] = "set"
                 <=> t \in Range(driven) \/ (loop = "driving" /\ hand = t))
        /\ trigger[t] = "POST_DRIVE" =>
              (event[<<"single", t>>] = "set" <=> t \in Range(driven))

DriverInv == TypeOK /\ EntryInv /\ TakenInv /\ EventInv /\ TruthInv

\* Initially nothing was accepted and no event exists.
LEMMA InitDriver == Init => DriverInv
<1> SUFFICES ASSUME Init PROVE DriverInv
  OBVIOUS
<1>1. TypeOK
  <2>1. <<>> \in Seq(Entry) /\ <<>> \in Seq(Txn)
    BY EmptySeq
  <2>2. trigger \in [Txn -> WaitFor] /\ event \in [EventKey -> {"none", "pending", "set"}]
    BY DEF Init, WaitFor
  <2>3. queue \in Seq(Entry) /\ accepted \in Seq(Txn) /\ driven \in Seq(Txn)
    BY ONLY Init, <2>1 DEF Init
  <2>4. hand \in Txn \cup {NoTxn} /\ (hand # NoTxn <=> loop \in {"obtained", "hold", "driving"})
    BY DEF Init
  <2>5. held = (loop = "driving")
    <3>1. held = FALSE /\ loop # "driving"
      BY DEF Init
    <3> QED BY <3>1, Zenon
  <2>7. rst \in BOOLEAN /\ resets \in 0 .. MaxResets /\ on_push \in {"none", "waited", "set"}
    BY ResetsAssumption DEF Init
  <2>6. loop \in {"boot", "await", "fetch", "obtained", "hold", "driving"}
    BY DEF Init
  <2> QED BY <2>2, <2>3, <2>4, <2>5, <2>6, <2>7 DEF TypeOK
<1>2. \A t \in Txn : event[<<"single", t>>] = "none"
  BY DEF Init, EventKey
<1>3. EntryInv /\ TakenInv
  BY DEF Init, EntryInv, TakenInv, Range
<1> QED BY <1>1, <1>2, <1>3 DEF DriverInv, EventInv, TruthInv

-----------------------------------------------------------------------------
(* The testbench *)

\* What is known of the queue after an entry is pushed.
LEMMA PushedEntry ==
    ASSUME DriverInv, NEW e \in Entry, Push(e), Fresh(e.items),
           ~e.iter => Len(e.items) = 1
    PROVE  /\ queue' \in Seq(Entry) /\ accepted' \in Seq(Txn)
           /\ Range(accepted') = Range(accepted) \cup Range(e.items)
           /\ EntryInv'
           /\ \A t \in Range(accepted) :
                 (\A i \in DOMAIN queue : queue[i].iter => t \notin Range(queue[i].items))
                   => (\A i \in DOMAIN queue' : queue'[i].iter => t \notin Range(queue'[i].items))
<1>1. queue \in Seq(Entry) /\ accepted \in Seq(Txn) /\ e.items \in Seq(Txn)
  BY DEF DriverInv, TypeOK, Entry
<1>2. queue' = Append(queue, e) /\ accepted' = accepted \o e.items
  BY DEF Push
<1>3. /\ queue' \in Seq(Entry) /\ Len(queue') = Len(queue) + 1
      /\ \A i \in 1 .. Len(queue) : queue'[i] = queue[i]
      /\ queue'[Len(queue) + 1] = e
  BY <1>1, <1>2, AppendProperties
<1>4. accepted' \in Seq(Txn) /\ Range(accepted') = Range(accepted) \cup Range(e.items)
  BY <1>1, <1>2, Members
<1>5. \A i \in DOMAIN queue' : (i \in DOMAIN queue /\ queue'[i] = queue[i]) \/ queue'[i] = e
  BY <1>1, <1>3
<1>6. EntryInv'
  BY <1>4, <1>5 DEF DriverInv, EntryInv
<1>7. \A t \in Range(accepted) : t \notin Range(e.items)
  BY DEF Fresh
<1> QED BY <1>3, <1>4, <1>5, <1>6, <1>7

\* The event that an entry returns is the only one that changes.
LEMMA PushedEvent ==
    ASSUME DriverInv, NEW e \in Entry, Push(e)
    PROVE  /\ event' \in [EventKey -> {"none", "pending", "set"}]
           /\ \A t \in Txn :
                 e.iter \/ t # Head(e.items) => event'[<<"single", t>>] = event[<<"single", t>>]
           /\ \A t \in Txn :
                 ~e.iter /\ t = Head(e.items) =>
                     event'[<<"single", t>>] = CASE e.wait = "NONE"    -> "none"
                                                 [] e.wait = "ENQUEUE" -> "set"
                                                 [] OTHER              -> "pending"
<1> DEFINE key == <<IF e.iter THEN "batch" ELSE "single", Head(e.items)>>
           new == CASE e.wait = "NONE"    -> "none"
                    [] e.wait = "ENQUEUE" -> "set"
                    [] OTHER              -> "pending"
<1>1. event \in [EventKey -> {"none", "pending", "set"}]
  BY DEF DriverInv, TypeOK
<1>2. event' = [event EXCEPT ![key] = new]
  BY DEF Push
<1>3. new \in {"none", "pending", "set"}
  OBVIOUS
<1> HIDE DEF new
<1>4. \A t \in Txn : <<"single", t>> \in EventKey
  BY DEF EventKey
<1>5. \A t \in Txn : e.iter \/ t # Head(e.items) => key # <<"single", t>>
  OBVIOUS
<1>6. \A t \in Txn : ~e.iter /\ t = Head(e.items) => key = <<"single", t>>
  OBVIOUS
<1> HIDE DEF key
<1>7. event' \in [EventKey -> {"none", "pending", "set"}]
  BY <1>1, <1>2, <1>3
<1>8. \A t \in Txn : e.iter \/ t # Head(e.items) => event'[<<"single", t>>] = event[<<"single", t>>]
  BY <1>1, <1>2, <1>4, <1>5
<1>9. \A t \in Txn : ~e.iter /\ t = Head(e.items) => event'[<<"single", t>>] = new
  BY <1>1, <1>2, <1>4, <1>6
<1> QED BY <1>7, <1>8, <1>9 DEF new

\* A transaction that is fresh has no event, is not in hand and not driven.
LEMMA EnqueueSafe ==
    ASSUME DriverInv, NEW t \in Txn, NEW wait \in WaitFor, Enqueue(t, wait)
    PROVE  DriverInv'
<1> DEFINE e == [iter |-> FALSE, items |-> <<t>>, wait |-> wait]
<1>1. e \in Entry /\ e.items = <<t>> /\ ~e.iter /\ e.wait = wait
  BY DEF Entry
<1>2. Push(e) /\ Fresh(e.items) /\ Len(e.items) = 1 /\ Head(e.items) = t
  BY <1>1 DEF Enqueue
<1> HIDE DEF e
<1>3. t \notin Range(accepted)
  <2>1. t \in Range(<<t>>)
    BY DEF Range
  <2> QED BY <1>1, <1>2, <2>1 DEF Fresh
<1>4. Range(accepted') = Range(accepted) \cup {t}
  <2>1. Range(<<t>>) = {t}
    BY DEF Range
  <2> QED BY <1>1, <1>2, <2>1, PushedEntry
<1>5. UNCHANGED <<loop, hand, held, driven, tbVars>> /\ Suspended
  BY DEF Enqueue
<1>6. /\ trigger \in [Txn -> WaitFor] /\ trigger' \in [Txn -> WaitFor]
      /\ \A u \in Txn : u # t => trigger'[u] = trigger[u]
      /\ wait # "NONE" => trigger'[t] = wait
  BY DEF Enqueue, DriverInv, TypeOK
<1>7. TypeOK'
  <2>1. queue' \in Seq(Entry) /\ accepted' \in Seq(Txn)
    BY <1>1, <1>2, PushedEntry
  <2>2. event' \in [EventKey -> {"none", "pending", "set"}]
    BY <1>1, <1>2, PushedEvent
  <2>3. on_push' \in {"none", "waited", "set"}
    BY <1>2 DEF Push, DriverInv, TypeOK
  <2> QED BY <1>5, <1>6, <2>1, <2>2, <2>3 DEF DriverInv, TypeOK, tbVars
<1>8. EntryInv'
  BY <1>1, <1>2, PushedEntry
<1>9. TakenInv'
  BY <1>4, <1>5 DEF DriverInv, TakenInv
<1>10. ASSUME NEW u \in Txn, u # t
       PROVE  event'[<<"single", u>>] = event[<<"single", u>>] /\ trigger'[u] = trigger[u]
  BY <1>1, <1>2, <1>6, <1>10, PushedEvent
<1>11. event'[<<"single", t>>] = CASE wait = "NONE"    -> "none"
                                   [] wait = "ENQUEUE" -> "set"
                                   [] OTHER            -> "pending"
  BY <1>1, <1>2, PushedEvent
<1>12. EventInv'
  <2> SUFFICES ASSUME NEW u \in Txn, event'[<<"single", u>>] # "none"
               PROVE  /\ u \in Range(accepted') /\ trigger'[u] # "NONE"
                      /\ \A i \in DOMAIN queue' : queue'[i].iter => u \notin Range(queue'[i].items)
    BY DEF EventInv
  <2>1. CASE u # t
    <3>1. /\ u \in Range(accepted) /\ trigger'[u] # "NONE"
          /\ \A i \in DOMAIN queue : queue[i].iter => u \notin Range(queue[i].items)
      BY <1>10, <2>1 DEF DriverInv, EventInv
    <3> QED BY <1>1, <1>2, <3>1, PushedEntry
  <2>2. CASE u = t
    <3>1. /\ queue \in Seq(Entry) /\ queue' = Append(queue, e)
          /\ \A i \in DOMAIN queue : Range(queue[i].items) \subseteq Range(accepted)
      BY <1>2 DEF DriverInv, TypeOK, EntryInv, Push
    <3>2. \A i \in DOMAIN queue' : (i \in DOMAIN queue /\ queue'[i] = queue[i]) \/ queue'[i] = e
      BY <1>1, <3>1, AppendProperties
    <3>3. trigger'[t] # "NONE"
      BY <1>6, <1>11, <2>2
    <3> QED BY <1>1, <1>3, <1>4, <2>2, <3>1, <3>2, <3>3
  <2> QED BY <2>1, <2>2
<1>13. TruthInv'
  <2> SUFFICES ASSUME NEW u \in Txn, event'[<<"single", u>>] # "none"
               PROVE  /\ trigger'[u] = "ENQUEUE" => event'[<<"single", u>>] = "set"
                      /\ trigger'[u] = "PRE_DRIVE" =>
                            (event'[<<"single", u>>] = "set"
                               <=> u \in Range(driven) \/ (loop = "driving" /\ hand = u))
                      /\ trigger'[u] = "POST_DRIVE" =>
                            (event'[<<"single", u>>] = "set" <=> u \in Range(driven))
    BY <1>5 DEF TruthInv
  <2>1. CASE u # t
    BY <1>10, <2>1 DEF DriverInv, TruthInv
  <2>2. CASE u = t
    <3>1. u \notin Range(driven) /\ ~ (loop = "driving" /\ hand = u)
      BY <1>3, <2>2 DEF DriverInv, TakenInv
    <3>2. wait # "NONE" /\ trigger'[t] = wait
      BY <1>6, <1>11, <2>2
    <3> QED BY <1>11, <2>2, <3>1, <3>2 DEF WaitFor
  <2> QED BY <2>1, <2>2
<1> QED BY <1>7, <1>8, <1>9, <1>12, <1>13 DEF DriverInv

\* An iterable has none of the transactions that have events.
LEMMA IterableSafe ==
    ASSUME DriverInv, NEW list \in Batches, NEW wait \in Awaitable,
           EnqueueIterable(list, wait)
    PROVE  DriverInv'
<1> DEFINE e == [iter |-> TRUE, items |-> list, wait |-> wait]
<1>1. e \in Entry /\ e.items = list /\ e.iter /\ e.wait = wait
  BY BatchesAssumption, AwaitableAssumption DEF Entry, WaitFor
<1>2. Push(e) /\ Fresh(e.items)
  BY <1>1 DEF EnqueueIterable
<1> HIDE DEF e
<1>3. UNCHANGED <<loop, hand, trigger, held, driven, tbVars>>
  BY DEF EnqueueIterable
<1>4. \A u \in Txn : event'[<<"single", u>>] = event[<<"single", u>>]
  BY <1>1, <1>2, PushedEvent
<1>5. TypeOK'
  <2>1. queue' \in Seq(Entry) /\ accepted' \in Seq(Txn)
    BY <1>1, <1>2, PushedEntry
  <2>2. event' \in [EventKey -> {"none", "pending", "set"}]
    BY <1>1, <1>2, PushedEvent
  <2>3. on_push' \in {"none", "waited", "set"}
    BY <1>2 DEF Push, DriverInv, TypeOK
  <2> QED BY <1>3, <2>1, <2>2, <2>3 DEF DriverInv, TypeOK, tbVars
<1>6. EntryInv'
  BY <1>1, <1>2, PushedEntry
<1>7. Range(accepted) \subseteq Range(accepted')
  BY <1>1, <1>2, PushedEntry
<1>8. TakenInv'
  BY <1>3, <1>7 DEF DriverInv, TakenInv
<1>9. EventInv'
  <2> SUFFICES ASSUME NEW u \in Txn, event'[<<"single", u>>] # "none"
               PROVE  /\ u \in Range(accepted') /\ trigger'[u] # "NONE"
                      /\ \A i \in DOMAIN queue' : queue'[i].iter => u \notin Range(queue'[i].items)
    BY DEF EventInv
  <2>1. /\ u \in Range(accepted) /\ trigger'[u] # "NONE"
        /\ \A i \in DOMAIN queue : queue[i].iter => u \notin Range(queue[i].items)
    BY <1>3, <1>4 DEF DriverInv, EventInv
  <2> QED BY <1>1, <1>2, <1>7, <2>1, PushedEntry
<1>10. TruthInv'
  BY <1>3, <1>4 DEF DriverInv, TruthInv
<1> QED BY <1>5, <1>6, <1>8, <1>9, <1>10 DEF DriverInv

\* Reset changes nothing that the invariant is about.
LEMMA ResetSafe == ASSUME DriverInv, AssertReset \/ DeassertReset PROVE DriverInv'
<1>1. UNCHANGED <<queue, on_push, loop, hand, trigger, event, held, accepted, driven>>
  BY DEF AssertReset, DeassertReset
<1>2. rst' \in BOOLEAN /\ resets' \in 0 .. MaxResets
  <2>1. resets \in 0 .. MaxResets /\ MaxResets \in Nat
    BY ResetsAssumption DEF DriverInv, TypeOK
  <2>2. CASE AssertReset
    BY <2>1, <2>2 DEF AssertReset
  <2>3. CASE DeassertReset
    BY <2>1, <2>3 DEF DeassertReset
  <2> QED BY <2>2, <2>3
<1> QED BY <1>1, <1>2 DEF DriverInv, TypeOK, EntryInv, TakenInv, EventInv, TruthInv

-----------------------------------------------------------------------------
(* The loop *)

\* The loop waits: nothing but its place changes.
LEMMA WaitSafe ==
    ASSUME DriverInv, Boot \/ AwaitPush \/ Pushed \/ HoldForReset
    PROVE  DriverInv'
<1>1. /\ UNCHANGED <<queue, hand, trigger, event, held, accepted, driven, tbVars>>
      /\ on_push' \in {on_push, "none", "waited"}
      /\ loop' \in {"fetch", "await", "hold"} /\ loop # "driving"
      /\ loop' = "hold" <=> loop = "obtained"
      /\ loop # "hold"
  BY DEF Boot, AwaitPush, Pushed, HoldForReset
<1>2. TypeOK'
  <2>1. hand' # NoTxn <=> loop' \in {"obtained", "hold", "driving"}
    BY <1>1 DEF DriverInv, TypeOK
  <2>2. held' = (loop' = "driving")
    <3>1. held' = FALSE /\ loop' # "driving"
      BY <1>1 DEF DriverInv, TypeOK
    <3> QED BY <3>1, Zenon
  <2> QED BY <1>1, <2>1, <2>2 DEF DriverInv, TypeOK, tbVars
<1>3. TruthInv'
  BY <1>1 DEF DriverInv, TruthInv
<1> QED BY <1>1, <1>2, <1>3 DEF DriverInv, EntryInv, TakenInv, EventInv

\* Entries that the loop leaves in the queue were there, with the same items
\* or fewer.
Leaves(q) ==
    /\ q \in Seq(Entry)
    /\ \A i \in DOMAIN q : \E j \in DOMAIN queue :
          /\ q[i].iter = queue[j].iter
          /\ Range(q[i].items) \subseteq Range(queue[j].items)
          /\ ~q[i].iter => q[i].items = queue[j].items

\* Taking from the queue keeps what is said of its entries.
LEMMA TakeEntries ==
    ASSUME DriverInv, Leaves(queue'), accepted' = accepted
    PROVE  /\ EntryInv'
           /\ \A t : (\A i \in DOMAIN queue : queue[i].iter => t \notin Range(queue[i].items))
                 => (\A i \in DOMAIN queue' : queue'[i].iter => t \notin Range(queue'[i].items))
<1>1. EntryInv'
  BY DEF DriverInv, EntryInv, Leaves
<1>2. ASSUME NEW t, \A i \in DOMAIN queue : queue[i].iter => t \notin Range(queue[i].items),
             NEW i \in DOMAIN queue', queue'[i].iter
      PROVE  t \notin Range(queue'[i].items)
  BY <1>2 DEF Leaves
<1> QED BY <1>1, <1>2

LEMMA TailLeaves ==
    ASSUME DriverInv, queue # <<>> PROVE Leaves(Tail(queue))
<1>1. queue \in Seq(Entry)
  BY DEF DriverInv, TypeOK
<1>2. /\ Tail(queue) \in Seq(Entry) /\ DOMAIN Tail(queue) = 1 .. Len(queue) - 1
      /\ DOMAIN queue = 1 .. Len(queue) /\ Len(queue) \in Nat
      /\ \A i \in 1 .. Len(queue) - 1 : Tail(queue)[i] = queue[i + 1]
  BY <1>1, HeadTailProperties, LenProperties
<1>3. \A i \in DOMAIN Tail(queue) : i + 1 \in DOMAIN queue /\ Tail(queue)[i] = queue[i + 1]
  BY <1>2
<1> QED BY <1>2, <1>3 DEF Leaves

LEMMA HeadEntry ==
    ASSUME DriverInv, queue # <<>>
    PROVE  /\ 1 \in DOMAIN queue /\ Head(queue) = queue[1] /\ queue[1] \in Entry
           /\ queue[1].items \in Seq(Txn) /\ queue[1].wait \in WaitFor
           /\ Range(queue[1].items) \subseteq Range(accepted)
<1>1. queue \in Seq(Entry)
  BY DEF DriverInv, TypeOK
<1>2. 1 \in DOMAIN queue /\ Head(queue) = queue[1] /\ queue[1] \in Entry
  BY <1>1, HeadTailProperties, LenProperties
<1> QED BY <1>2 DEF Entry, DriverInv, EntryInv

\* A transaction of its own is taken with its event.
LEMMA FetchSafe == ASSUME DriverInv, FetchTransaction PROVE DriverInv'
<1>1. /\ queue # <<>> /\ ~Head(queue).iter /\ loop = "fetch" /\ loop' = "obtained"
      /\ queue' = Tail(queue) /\ hand' = Head(queue).items[1]
      /\ UNCHANGED <<on_push, trigger, event, held, accepted, driven, tbVars>>
  BY DEF FetchTransaction
<1>2. hand' \in Txn /\ hand' \in Range(accepted)
  <2>1. Len(queue[1].items) = 1 /\ queue[1].items \in Seq(Txn)
    BY <1>1, HeadEntry DEF DriverInv, EntryInv
  <2>2. queue[1].items # <<>>
    BY <2>1
  <2>3. hand' \in Range(queue[1].items) /\ hand' \in Txn
    BY <1>1, <2>1, <2>2, HeadEntry, MembersOfTail, HeadTailProperties
  <2> QED BY <1>1, <2>3, HeadEntry
<1>3. Leaves(queue')
  BY <1>1, TailLeaves
<1>4. EntryInv'
  BY <1>1, <1>3, TakeEntries
<1>5. TypeOK'
  <2>1. held' = (loop' = "driving")
    <3>1. held' = FALSE /\ loop' # "driving"
      BY <1>1 DEF DriverInv, TypeOK
    <3> QED BY <3>1, Zenon
  <2> QED BY <1>1, <1>2, <1>3, <2>1 DEF DriverInv, TypeOK, Leaves, tbVars
<1>6. TakenInv'
  BY <1>1, <1>2 DEF DriverInv, TakenInv
<1>7. EventInv'
  BY <1>1, <1>3, TakeEntries DEF DriverInv, EventInv
<1>8. TruthInv'
  BY <1>1 DEF DriverInv, TruthInv
<1> QED BY <1>4, <1>5, <1>6, <1>7, <1>8 DEF DriverInv

\* The item of an iterable that is taken has no event that is told of.
LEMMA FetchNextSafe == ASSUME DriverInv, FetchNext PROVE DriverInv'
<1>1. /\ queue # <<>> /\ Head(queue).iter /\ loop = "fetch" /\ loop' = "obtained"
      /\ Head(queue).items # <<>> /\ hand' = Head(Head(queue).items)
      /\ queue' = AfterYield
      /\ trigger' = IF Head(queue).wait = "NONE" THEN trigger
                    ELSE [trigger EXCEPT ![hand'] = Head(queue).wait]
      /\ UNCHANGED <<on_push, event, held, accepted, driven, tbVars>>
  BY DEF FetchNext
<1> DEFINE items == queue[1].items
<1>2. /\ items \in Seq(Txn) /\ items # <<>> /\ hand' = Head(items)
      /\ Range(items) \subseteq Range(accepted)
  BY <1>1, HeadEntry
<1>3. /\ hand' \in Txn /\ hand' \in Range(items) /\ hand' \in Range(accepted)
      /\ Tail(items) \in Seq(Txn) /\ Range(Tail(items)) \subseteq Range(items)
  BY <1>2, MembersOfTail, HeadTailProperties
<1> DEFINE e == [queue[1] EXCEPT !.items = Tail(items)]
<1>4. e \in Entry /\ e.iter = queue[1].iter /\ e.iter /\ e.items = Tail(items)
  BY <1>1, <1>3, HeadEntry DEF Entry
<1>5. Leaves(queue')
  <2>1. queue \in Seq(Entry) /\ 1 \in 1 .. Len(queue)
    BY HeadEntry, <1>1 DEF DriverInv, TypeOK
  <2>2. queue' = [queue EXCEPT ![1] = e]
    BY <1>1, <2>1 DEF AfterYield
  <2> HIDE DEF e, items
  <2>3. /\ queue' \in Seq(Entry) /\ DOMAIN queue' = DOMAIN queue
        /\ \A i \in DOMAIN queue : queue'[i] = IF i = 1 THEN e ELSE queue[i]
    BY <1>4, <2>1, <2>2, ExceptSeq
  <2> QED BY <1>3, <1>4, <2>1, <2>3 DEF Leaves, items
<1>6. EntryInv'
  BY <1>1, <1>5, TakeEntries
<1>7. trigger' \in [Txn -> WaitFor] /\ \A u \in Txn : u # hand' => trigger'[u] = trigger[u]
  BY <1>1, <1>3, HeadEntry DEF DriverInv, TypeOK
<1>8. TypeOK'
  <2>1. held' = (loop' = "driving")
    <3>1. held' = FALSE /\ loop' # "driving"
      BY <1>1 DEF DriverInv, TypeOK
    <3> QED BY <3>1, Zenon
  <2> QED BY <1>1, <1>3, <1>5, <1>7, <2>1 DEF DriverInv, TypeOK, Leaves, tbVars
<1>9. TakenInv'
  BY <1>1, <1>3 DEF DriverInv, TakenInv
<1>10. EventInv'
  BY <1>1, <1>5, TakeEntries DEF DriverInv, EventInv
<1>11. \A u \in Txn : event[<<"single", u>>] # "none" => trigger'[u] = trigger[u]
  BY <1>1, <1>3, <1>7, HeadEntry DEF DriverInv, EventInv
<1>12. TruthInv'
  BY <1>1, <1>11 DEF DriverInv, TruthInv
<1> QED BY <1>6, <1>8, <1>9, <1>10, <1>12 DEF DriverInv

\* An exhausted iterable is dropped.
LEMMA ExhaustedSafe == ASSUME DriverInv, Exhausted PROVE DriverInv'
<1>1. /\ queue # <<>> /\ queue' = Tail(queue)
      /\ UNCHANGED <<on_push, loop, hand, trigger, event, held, accepted, driven, tbVars>>
  BY DEF Exhausted
<1>2. Leaves(queue')
  BY <1>1, TailLeaves
<1>3. EntryInv' /\ EventInv'
  BY <1>1, <1>2, TakeEntries DEF DriverInv, EventInv
<1>4. TypeOK'
  BY <1>1, <1>2 DEF DriverInv, TypeOK, Leaves, tbVars
<1> QED BY <1>1, <1>3, <1>4 DEF DriverInv, TakenInv, TruthInv

\* The drive of the transaction in hand begins, and its event with it if it
\* stands for PRE_DRIVE.
LEMMA BeginSafe == ASSUME DriverInv, BeginDrive PROVE DriverInv'
<1>1. /\ loop \in {"obtained", "hold"} /\ loop' = "driving" /\ held' = TRUE
      /\ event' = Signal("PRE_DRIVE")
      /\ UNCHANGED <<queue, on_push, hand, trigger, accepted, driven, tbVars>>
  BY DEF BeginDrive
<1>2. hand \in Txn /\ event \in [EventKey -> {"none", "pending", "set"}]
  BY <1>1 DEF DriverInv, TypeOK
<1>3. \A u \in Txn : <<"single", u>> \in EventKey
  BY DEF EventKey
<1>4. /\ event' \in [EventKey -> {"none", "pending", "set"}]
      /\ \A u \in Txn : u # hand => event'[<<"single", u>>] = event[<<"single", u>>]
      /\ event'[<<"single", hand>>] =
            IF event[<<"single", hand>>] = "pending" /\ trigger[hand] = "PRE_DRIVE"
            THEN "set" ELSE event[<<"single", hand>>]
  BY <1>1, <1>2, <1>3 DEF Signal
<1>5. TypeOK'
  <2>1. held' = (loop' = "driving")
    BY <1>1
  <2> QED BY <1>1, <1>2, <1>4, <2>1 DEF DriverInv, TypeOK, tbVars
<1>6. EntryInv' /\ TakenInv'
  BY <1>1 DEF DriverInv, EntryInv, TakenInv
<1>7. \A u \in Txn : event'[<<"single", u>>] # "none" => event[<<"single", u>>] # "none"
  BY <1>2, <1>4
<1>8. EventInv'
  BY <1>1, <1>7 DEF DriverInv, EventInv
<1>9. TruthInv'
  <2> SUFFICES ASSUME NEW u \in Txn, event'[<<"single", u>>] # "none"
               PROVE  /\ trigger[u] = "ENQUEUE" => event'[<<"single", u>>] = "set"
                      /\ trigger[u] = "PRE_DRIVE" =>
                            (event'[<<"single", u>>] = "set" <=> u \in Range(driven) \/ hand = u)
                      /\ trigger[u] = "POST_DRIVE" =>
                            (event'[<<"single", u>>] = "set" <=> u \in Range(driven))
    BY <1>1 DEF TruthInv
  <2>1. /\ trigger[u] = "ENQUEUE" => event[<<"single", u>>] = "set"
        /\ trigger[u] = "PRE_DRIVE" => (event[<<"single", u>>] = "set" <=> u \in Range(driven))
        /\ trigger[u] = "POST_DRIVE" => (event[<<"single", u>>] = "set" <=> u \in Range(driven))
    BY <1>1, <1>7 DEF DriverInv, TruthInv
  <2>2. CASE u # hand
    BY <1>4, <2>1, <2>2
  <2>3. CASE u = hand /\ trigger[u] # "PRE_DRIVE"
    BY <1>4, <2>1, <2>3
  <2>4. CASE u = hand /\ trigger[u] = "PRE_DRIVE"
    <3>1. event[<<"single", u>>] \in {"none", "pending", "set"}
      BY <1>2, <1>3
    <3> QED BY <1>4, <1>7, <2>4, <3>1
  <2> QED BY <2>2, <2>3, <2>4
<1> QED BY <1>5, <1>6, <1>8, <1>9 DEF DriverInv

\* The drive ends: its event follows if it stands for POST_DRIVE.
LEMMA EndSafe == ASSUME DriverInv, EndDrive PROVE DriverInv'
<1>1. /\ loop = "driving" /\ loop' = "fetch" /\ held' = FALSE /\ hand' = NoTxn
      /\ driven' = Append(driven, hand) /\ event' = Signal("POST_DRIVE")
      /\ UNCHANGED <<queue, on_push, trigger, accepted, tbVars>>
  BY DEF EndDrive
<1>2. hand \in Txn /\ hand \in Range(accepted) /\ event \in [EventKey -> {"none", "pending", "set"}]
  BY <1>1 DEF DriverInv, TypeOK, TakenInv
<1>3. \A u \in Txn : <<"single", u>> \in EventKey
  BY DEF EventKey
<1>4. /\ event' \in [EventKey -> {"none", "pending", "set"}]
      /\ \A u \in Txn : u # hand => event'[<<"single", u>>] = event[<<"single", u>>]
      /\ event'[<<"single", hand>>] =
            IF event[<<"single", hand>>] = "pending" /\ trigger[hand] = "POST_DRIVE"
            THEN "set" ELSE event[<<"single", hand>>]
  BY <1>1, <1>2, <1>3 DEF Signal
<1>5. driven' \in Seq(Txn) /\ Range(driven') = Range(driven) \cup {hand}
  <2>1. driven \in Seq(Txn)
    BY DEF DriverInv, TypeOK
  <2> QED BY <1>1, <1>2, <2>1, MembersAppend, AppendProperties
<1>6. TypeOK'
  <2>1. held' = (loop' = "driving")
    <3>1. held' = FALSE /\ loop' # "driving"
      BY <1>1
    <3> QED BY <3>1, Zenon
  <2> QED BY <1>1, <1>4, <1>5, <2>1 DEF DriverInv, TypeOK, tbVars
<1>7. EntryInv'
  BY <1>1 DEF DriverInv, EntryInv
<1>8. TakenInv'
  BY <1>1, <1>2, <1>5 DEF DriverInv, TakenInv
<1>9. \A u \in Txn : event'[<<"single", u>>] # "none" => event[<<"single", u>>] # "none"
  BY <1>2, <1>4
<1>10. EventInv'
  BY <1>1, <1>9 DEF DriverInv, EventInv
<1>11. TruthInv'
  <2> SUFFICES ASSUME NEW u \in Txn, event'[<<"single", u>>] # "none"
               PROVE  /\ trigger[u] = "ENQUEUE" => event'[<<"single", u>>] = "set"
                      /\ trigger[u] = "PRE_DRIVE" =>
                            (event'[<<"single", u>>] = "set" <=> u \in Range(driven'))
                      /\ trigger[u] = "POST_DRIVE" =>
                            (event'[<<"single", u>>] = "set" <=> u \in Range(driven'))
    BY <1>1 DEF TruthInv
  <2>1. /\ trigger[u] = "ENQUEUE" => event[<<"single", u>>] = "set"
        /\ trigger[u] = "PRE_DRIVE" =>
              (event[<<"single", u>>] = "set" <=> u \in Range(driven) \/ hand = u)
        /\ trigger[u] = "POST_DRIVE" => (event[<<"single", u>>] = "set" <=> u \in Range(driven))
    BY <1>1, <1>9 DEF DriverInv, TruthInv
  <2>2. CASE u # hand
    BY <1>4, <1>5, <2>1, <2>2
  <2>3. CASE u = hand
    <3>1. event[<<"single", u>>] \in {"none", "pending", "set"}
      BY <1>2, <1>3
    <3> QED BY <1>4, <1>5, <1>9, <2>1, <2>3, <3>1
  <2> QED BY <2>2, <2>3
<1> QED BY <1>6, <1>7, <1>8, <1>10, <1>11 DEF DriverInv

LEMMA NextDriver == DriverInv /\ [Next]_vars => DriverInv'
<1> SUFFICES ASSUME DriverInv, [Next]_vars PROVE DriverInv'
  OBVIOUS
<1>1. CASE Next
  BY <1>1, EnqueueSafe, IterableSafe, ResetSafe, WaitSafe, FetchSafe, FetchNextSafe,
     ExhaustedSafe, BeginSafe, EndSafe DEF Next, LoopStep
<1>2. CASE UNCHANGED vars
  BY <1>2 DEF vars, tbVars, DriverInv, TypeOK, EntryInv, TakenInv, EventInv, TruthInv
<1> QED BY <1>1, <1>2

-----------------------------------------------------------------------------
(* The order of the drives *)

\* InOrder, of any queue q, transactions accepted a and served s.
Lined(ahead, q, a, s) ==
    /\ ahead[1] = Len(s) /\ \A j \in 1 .. Len(s) : s[j] = a[j]
    /\ \A i \in DOMAIN q :
        /\ ahead[i + 1] = ahead[i] + Len(q[i].items)
        /\ \A j \in DOMAIN q[i].items : q[i].items[j] = a[ahead[i] + j]
    /\ ahead[Len(q) + 1] = Len(a)

Places(q, a) == [1 .. Len(q) + 1 -> 0 .. Len(a)]

\* The first entry follows what was served.
LEMMA FirstFollows ==
    ASSUME NEW q \in Seq(Entry), q # <<>>, NEW a \in Seq(Txn), NEW s \in Seq(Txn),
           NEW ahead \in Places(q, a), Lined(ahead, q, a, s)
    PROVE  /\ q[1].items \in Seq(Txn) /\ Len(q[1].items) \in Nat
           /\ Len(s) \in Nat /\ ahead[1] = Len(s)
           /\ ahead[2] = Len(s) + Len(q[1].items)
           /\ \A j \in 1 .. Len(q[1].items) : q[1].items[j] = a[Len(s) + j]
           /\ Len(q) \in Nat /\ Len(q) >= 1 /\ 1 \in DOMAIN q
<1>1. Len(q) \in Nat /\ Len(q) >= 1 /\ DOMAIN q = 1 .. Len(q) /\ q[1] \in Entry
  BY ONLY q \in Seq(Entry), q # <<>>, HeadTailProperties, LenProperties
<1>2. 1 \in DOMAIN q
  BY ONLY <1>1
<1>3. q[1].items \in Seq(Txn)
  BY ONLY <1>1 DEF Entry
<1>4. /\ Len(q[1].items) \in Nat /\ DOMAIN q[1].items = 1 .. Len(q[1].items)
      /\ Len(s) \in Nat
  BY ONLY <1>3, s \in Seq(Txn), LenProperties
<1>5. /\ ahead[1 + 1] = ahead[1] + Len(q[1].items) /\ ahead[1] = Len(s)
      /\ \A j \in DOMAIN q[1].items : q[1].items[j] = a[ahead[1] + j]
  BY ONLY <1>2, Lined(ahead, q, a, s) DEF Lined
<1> QED BY ONLY <1>1, <1>2, <1>3, <1>4, <1>5

\* Serving all of the first entry and dropping it.
LEMMA PopLined ==
    ASSUME NEW q \in Seq(Entry), q # <<>>, NEW a \in Seq(Txn), NEW s \in Seq(Txn),
           NEW ahead \in Places(q, a), Lined(ahead, q, a, s)
    PROVE  \E b \in Places(Tail(q), a) : Lined(b, Tail(q), a, s \o q[1].items)
<1> DEFINE items == q[1].items  n == Len(q)
<1> DEFINE b == [k \in 1 .. n |-> ahead[k + 1]]
<1>1. /\ items \in Seq(Txn) /\ Len(items) \in Nat /\ Len(s) \in Nat
      /\ ahead[2] = Len(s) + Len(items)
      /\ \A j \in 1 .. Len(items) : items[j] = a[Len(s) + j]
      /\ n \in Nat /\ n >= 1
  BY FirstFollows
<1>2. /\ Len(Tail(q)) = n - 1 /\ DOMAIN Tail(q) = 1 .. n - 1 /\ DOMAIN q = 1 .. n
      /\ \A i \in 1 .. n - 1 : Tail(q)[i] = q[i + 1]
  BY ONLY q \in Seq(Entry), q # <<>>, HeadTailProperties, LenProperties
<1>3. /\ \A j \in 1 .. Len(s) : s[j] = a[j]
      /\ \A i \in 1 .. n :
           /\ ahead[i + 1] = ahead[i] + Len(q[i].items)
           /\ \A j \in DOMAIN q[i].items : q[i].items[j] = a[ahead[i] + j]
      /\ ahead[n + 1] = Len(a)
  BY ONLY <1>2, Lined(ahead, q, a, s) DEF Lined
<1>4. \A k \in 1 .. n + 1 : ahead[k] \in 0 .. Len(a)
  BY DEF Places
<1> HIDE DEF n, items
<1>5. /\ Len(s \o items) = Len(s) + Len(items)
      /\ \A j \in 1 .. Len(s) + Len(items) :
           (s \o items)[j] = IF j <= Len(s) THEN s[j] ELSE items[j - Len(s)]
  BY ONLY <1>1, s \in Seq(Txn), ConcatProperties
<1>6. b \in Places(Tail(q), a)
  <2>1. \A k \in 1 .. n : k + 1 \in 1 .. n + 1
    BY ONLY <1>1
  <2>2. Len(Tail(q)) + 1 = n
    BY ONLY <1>1, <1>2
  <2> QED BY ONLY <1>4, <2>1, <2>2 DEF Places
<1>7. ASSUME NEW j \in 1 .. Len(s \o items) PROVE (s \o items)[j] = a[j]
  <2>1. j \in 1 .. Len(s) + Len(items)
    BY ONLY <1>5, <1>7
  <2>2. CASE j <= Len(s)
    <3>1. j \in 1 .. Len(s)
      BY ONLY <1>1, <2>1, <2>2
    <3> QED BY ONLY <1>3, <1>5, <2>1, <2>2, <3>1
  <2>3. CASE ~ (j <= Len(s))
    <3>1. j - Len(s) \in 1 .. Len(items) /\ Len(s) + (j - Len(s)) = j
      BY ONLY <1>1, <2>1, <2>3
    <3> QED BY ONLY <1>1, <1>5, <2>1, <2>3, <3>1
  <2> QED BY ONLY <2>2, <2>3
<1>8. ASSUME NEW i \in DOMAIN Tail(q)
      PROVE  /\ b[i + 1] = b[i] + Len(Tail(q)[i].items)
             /\ \A j \in DOMAIN Tail(q)[i].items : Tail(q)[i].items[j] = a[b[i] + j]
  <2>1. i \in 1 .. n /\ i + 1 \in 1 .. n /\ Tail(q)[i] = q[i + 1]
    BY ONLY <1>1, <1>2, <1>8
  <2>2. b[i] = ahead[i + 1] /\ b[i + 1] = ahead[(i + 1) + 1]
    BY ONLY <2>1
  <2> QED BY ONLY <1>3, <2>1, <2>2
<1>9. b[1] = Len(s \o items)
  <2>1. 1 \in 1 .. n /\ 1 + 1 = 2
    BY ONLY <1>1
  <2> QED BY ONLY <1>1, <1>5, <2>1
<1>10. b[Len(Tail(q)) + 1] = Len(a)
  <2>1. Len(Tail(q)) + 1 = n /\ n \in 1 .. n
    BY ONLY <1>1, <1>2
  <2> QED BY ONLY <1>3, <2>1
<1>11. Lined(b, Tail(q), a, s \o items)
  BY ONLY <1>7, <1>8, <1>9, <1>10 DEF Lined
<1> QED BY ONLY <1>6, <1>11 DEF items

\* Serving the first item of the first entry.
LEMMA YieldLined ==
    ASSUME NEW q \in Seq(Entry), q # <<>>, NEW a \in Seq(Txn), NEW s \in Seq(Txn),
           NEW ahead \in Places(q, a), Lined(ahead, q, a, s), q[1].items # <<>>,
           NEW r \in Seq(Entry), Len(r) = Len(q), r[1].items = Tail(q[1].items),
           \A i \in 2 .. Len(q) : r[i] = q[i]
    PROVE  \E b \in Places(r, a) : Lined(b, r, a, Append(s, Head(q[1].items)))
<1> DEFINE items == q[1].items  n == Len(q)  b == [ahead EXCEPT ![1] = Len(s) + 1]
<1>1. /\ items \in Seq(Txn) /\ Len(items) \in Nat /\ Len(s) \in Nat
      /\ ahead[2] = Len(s) + Len(items)
      /\ \A j \in 1 .. Len(items) : items[j] = a[Len(s) + j]
      /\ n \in Nat /\ n >= 1 /\ DOMAIN q = 1 .. n /\ DOMAIN r = 1 .. n
  <2>1. /\ items \in Seq(Txn) /\ Len(items) \in Nat /\ Len(s) \in Nat
        /\ ahead[2] = Len(s) + Len(items)
        /\ \A j \in 1 .. Len(items) : items[j] = a[Len(s) + j]
    BY ONLY FirstFollows, q \in Seq(Entry), q # <<>>, a \in Seq(Txn), s \in Seq(Txn),
       ahead \in Places(q, a), Lined(ahead, q, a, s)
  <2>2. n \in Nat /\ DOMAIN q = 1 .. n /\ n >= 1
    BY ONLY q \in Seq(Entry), q # <<>>, LenProperties
  <2>3. DOMAIN r = 1 .. n
    BY ONLY r \in Seq(Entry), Len(r) = Len(q), LenProperties
  <2> QED BY ONLY <2>1, <2>2, <2>3
<1>2. /\ Len(items) >= 1 /\ Head(items) = items[1] /\ Head(items) \in Txn
      /\ Len(Tail(items)) = Len(items) - 1 /\ DOMAIN Tail(items) = 1 .. Len(items) - 1
      /\ \A j \in 1 .. Len(items) - 1 : Tail(items)[j] = items[j + 1]
  BY ONLY <1>1, items # <<>>, HeadTailProperties, LenProperties
<1>3. /\ \A j \in 1 .. Len(s) : s[j] = a[j]
      /\ \A i \in 1 .. n :
           /\ ahead[i + 1] = ahead[i] + Len(q[i].items)
           /\ \A j \in DOMAIN q[i].items : q[i].items[j] = a[ahead[i] + j]
      /\ ahead[n + 1] = Len(a)
  BY ONLY <1>1, Lined(ahead, q, a, s) DEF Lined
<1>4. /\ ahead \in [1 .. n + 1 -> 0 .. Len(a)] /\ Len(a) \in Nat
      /\ 1 \in 1 .. n + 1 /\ 2 \in 1 .. n + 1
  <2>1. ahead \in [1 .. n + 1 -> 0 .. Len(a)] /\ Len(a) \in Nat
    BY LenProperties DEF Places
  <2> QED BY ONLY <1>1, <2>1
<1> HIDE DEF n, items
<1>5. /\ Len(Append(s, Head(items))) = Len(s) + 1
      /\ \A j \in 1 .. Len(s) : Append(s, Head(items))[j] = s[j]
      /\ Append(s, Head(items))[Len(s) + 1] = Head(items)
  BY ONLY <1>2, s \in Seq(Txn), AppendProperties
<1>6. b \in [1 .. n + 1 -> 0 .. Len(a)]
  <2>1. ahead[2] \in 0 .. Len(a)
    BY ONLY <1>4
  <2>2. Len(s) + 1 \in 0 .. Len(a)
    BY ONLY <1>1, <1>2, <1>4, <2>1
  <2> QED BY ONLY <1>4, <2>2
<1>7. /\ b[1] = Len(s) + 1
      /\ \A k \in 2 .. n + 1 : b[k] = ahead[k]
  <2>1. \A k \in 2 .. n + 1 : k \in 1 .. n + 1 /\ k # 1
    BY ONLY <1>1
  <2> QED BY ONLY <1>4, <2>1
<1> HIDE DEF b
<1>8. ASSUME NEW j \in 1 .. Len(s) + 1 PROVE Append(s, Head(items))[j] = a[j]
  <2>1. j \in 1 .. Len(s) \/ j = Len(s) + 1
    BY ONLY <1>1, <1>8
  <2>2. Head(items) = a[Len(s) + 1]
    <3>1. 1 \in 1 .. Len(items)
      BY ONLY <1>1, <1>2
    <3> QED BY ONLY <1>1, <1>2, <3>1
  <2> QED BY ONLY <1>3, <1>5, <2>1, <2>2
<1>9. ASSUME NEW i \in 1 .. n
      PROVE  /\ b[i + 1] = b[i] + Len(r[i].items)
             /\ \A j \in DOMAIN r[i].items : r[i].items[j] = a[b[i] + j]
  <2>1. CASE i = 1
    <3>1. b[2] = ahead[2] /\ 1 + 1 = 2 /\ r[1].items = Tail(items)
      <4>1. 2 \in 2 .. n + 1
        BY ONLY <1>1
      <4> QED BY <1>7, <4>1 DEF items
    <3>2. b[i + 1] = b[i] + Len(r[i].items)
      BY ONLY <1>1, <1>2, <1>7, <2>1, <3>1
    <3>3. ASSUME NEW j \in 1 .. Len(items) - 1
          PROVE  Tail(items)[j] = a[(Len(s) + 1) + j]
      <4>1. j + 1 \in 1 .. Len(items) /\ Len(s) + (j + 1) = (Len(s) + 1) + j
        BY ONLY <1>1, <3>3
      <4>2. items[j + 1] = a[Len(s) + (j + 1)]
        BY ONLY <1>1, <4>1
      <4>3. Tail(items)[j] = items[j + 1]
        BY ONLY <1>2, <3>3
      <4> QED BY ONLY <4>1, <4>2, <4>3, Zenon
    <3> QED BY ONLY <1>2, <1>7, <2>1, <3>1, <3>2, <3>3
  <2>2. CASE i # 1
    <3>1. i \in 2 .. n /\ i \in 2 .. n + 1 /\ i + 1 \in 2 .. n + 1
      BY ONLY <1>1, <1>9, <2>2
    <3>2. r[i] = q[i]
      BY <3>1 DEF n
    <3>3. b[i] = ahead[i] /\ b[i + 1] = ahead[i + 1]
      BY ONLY <1>7, <3>1
    <3>4. /\ ahead[i + 1] = ahead[i] + Len(q[i].items)
          /\ \A j \in DOMAIN q[i].items : q[i].items[j] = a[ahead[i] + j]
      BY ONLY <1>3, <1>9
    <3> QED BY ONLY <3>2, <3>3, <3>4, Zenon
  <2> QED BY ONLY <2>1, <2>2
<1>10. b[n + 1] = Len(a)
  <2>1. n + 1 \in 2 .. n + 1
    BY ONLY <1>1
  <2> QED BY ONLY <1>3, <1>7, <2>1
<1>11. Len(r) = n
  BY DEF n
<1>12. Lined(b, r, a, Append(s, Head(items)))
  BY ONLY <1>1, <1>5, <1>7, <1>8, <1>9, <1>10, <1>11 DEF Lined
<1> QED BY ONLY <1>6, <1>11, <1>12 DEF Places, items

\* Accepting the items of one more entry.
LEMMA PushLined ==
    ASSUME NEW q \in Seq(Entry), NEW a \in Seq(Txn), NEW s \in Seq(Txn),
           NEW ahead \in Places(q, a), Lined(ahead, q, a, s), NEW e \in Entry
    PROVE  \E b \in Places(Append(q, e), a \o e.items) :
               Lined(b, Append(q, e), a \o e.items, s)
<1> DEFINE n == Len(q)  m == Len(a) + Len(e.items)
           b == [k \in 1 .. n + 2 |-> IF k <= n + 1 THEN ahead[k] ELSE m]
<1>1. /\ e.items \in Seq(Txn) /\ n \in Nat /\ Len(a) \in Nat /\ Len(e.items) \in Nat
      /\ DOMAIN q = 1 .. n /\ DOMAIN e.items = 1 .. Len(e.items) /\ m \in Nat
      /\ Len(s) \in Nat
  <2>1. e.items \in Seq(Txn)
    BY DEF Entry
  <2> QED BY <2>1, LenProperties
<1>2. /\ Append(q, e) \in Seq(Entry) /\ Len(Append(q, e)) = n + 1
      /\ \A i \in 1 .. n : Append(q, e)[i] = q[i]
      /\ Append(q, e)[n + 1] = e
  BY AppendProperties
<1>3. DOMAIN Append(q, e) = 1 .. n + 1
  BY ONLY <1>2, LenProperties
<1>4. /\ Len(a \o e.items) = m
      /\ \A j \in 1 .. m : (a \o e.items)[j] =
            IF j <= Len(a) THEN a[j] ELSE e.items[j - Len(a)]
  BY ONLY <1>1, a \in Seq(Txn), ConcatProperties
<1>5. /\ ahead[1] = Len(s) /\ \A j \in 1 .. Len(s) : s[j] = a[j]
      /\ \A i \in 1 .. n :
           /\ ahead[i + 1] = ahead[i] + Len(q[i].items)
           /\ \A j \in DOMAIN q[i].items : q[i].items[j] = a[ahead[i] + j]
      /\ ahead[n + 1] = Len(a)
  BY ONLY <1>1, Lined(ahead, q, a, s) DEF Lined
<1>6. ahead \in [1 .. n + 1 -> 0 .. Len(a)]
  BY DEF Places
<1>7. m >= Len(a) /\ m = Len(a) + Len(e.items)
  BY ONLY <1>1
<1> HIDE DEF n, m
<1>8. b \in [1 .. n + 2 -> 0 .. m]
  <2>1. ASSUME NEW k \in 1 .. n + 2, k <= n + 1 PROVE ahead[k] \in 0 .. m
    <3>1. k \in 1 .. n + 1
      BY ONLY <1>1, <2>1
    <3>2. ahead[k] \in 0 .. Len(a)
      BY ONLY <1>6, <3>1
    <3> QED BY ONLY <1>1, <1>7, <3>2
  <2> QED BY ONLY <1>1, <2>1
<1>9. /\ \A k \in 1 .. n + 1 : b[k] = ahead[k]
      /\ b[(n + 1) + 1] = m
  BY ONLY <1>1
<1> HIDE DEF b
<1>10. \A j \in 1 .. Len(a) : (a \o e.items)[j] = a[j]
  BY ONLY <1>1, <1>4, <1>7
<1>11. \A j \in 1 .. Len(e.items) : (a \o e.items)[Len(a) + j] = e.items[j]
  <2> TAKE j \in 1 .. Len(e.items)
  <2>1. /\ Len(a) + j \in 1 .. m /\ ~ (Len(a) + j <= Len(a))
        /\ (Len(a) + j) - Len(a) = j
    BY ONLY <1>1, <1>7, j \in 1 .. Len(e.items)
  <2> QED BY ONLY <1>4, <2>1
<1>12. Len(s) <= Len(a)
  <2>1. 1 \in 1 .. n + 1
    BY ONLY <1>1
  <2>2. ahead[1] \in 0 .. Len(a)
    BY ONLY <1>6, <2>1
  <2> QED BY ONLY <1>1, <1>5, <2>2
<1>13. \A j \in 1 .. Len(s) : s[j] = (a \o e.items)[j]
  <2>1. \A j \in 1 .. Len(s) : j \in 1 .. Len(a)
    BY ONLY <1>1, <1>12
  <2> QED BY ONLY <1>5, <1>10, <2>1
<1>14. ASSUME NEW i \in 1 .. n
       PROVE  /\ b[i + 1] = b[i] + Len(q[i].items)
              /\ \A j \in DOMAIN q[i].items : q[i].items[j] = (a \o e.items)[b[i] + j]
  <2>1. i \in 1 .. n + 1 /\ i + 1 \in 1 .. n + 1
    BY ONLY <1>1, <1>14
  <2>2. b[i] = ahead[i] /\ b[i + 1] = ahead[i + 1]
    BY ONLY <1>9, <2>1
  <2>3. ASSUME NEW j \in DOMAIN q[i].items
        PROVE  q[i].items[j] = (a \o e.items)[b[i] + j]
    <3>1. q[i].items \in Seq(Txn)
      <4>1. i \in 1 .. Len(q)
        BY <1>14 DEF n
      <4>2. q[i] \in Entry
        BY ONLY q \in Seq(Entry), <4>1
      <4> QED BY ONLY <4>2 DEF Entry
    <3>2. j \in 1 .. Len(q[i].items) /\ Len(q[i].items) \in Nat
      BY ONLY <2>3, <3>1
    <3>3. ahead[i] \in 0 .. Len(a) /\ ahead[i + 1] \in 0 .. Len(a)
      BY ONLY <1>6, <2>1
    <3>4. ahead[i + 1] = ahead[i] + Len(q[i].items)
      BY ONLY <1>5, <1>14
    <3>5. ahead[i] + j \in 1 .. Len(a)
      <4>1. PICK u \in Nat, v \in Nat, w \in Nat, x \in Nat :
                /\ u = ahead[i] /\ v = ahead[i + 1] /\ w = Len(a) /\ x = Len(q[i].items)
                /\ v <= w /\ v = u + x /\ j \in 1 .. x
        <5>1. Len(a) \in Nat
          BY ONLY <1>1
        <5>2. ahead[i] \in Nat /\ ahead[i + 1] \in Nat /\ ahead[i + 1] <= Len(a)
          BY ONLY <3>3, <5>1
        <5> QED BY ONLY <3>2, <3>4, <5>1, <5>2
      <4>2. u + j \in 1 .. w
        <5>1. v <= w /\ v = u + x /\ j \in 1 .. x
          BY ONLY <4>1
        <5> QED BY ONLY <5>1, u \in Nat, v \in Nat, w \in Nat, x \in Nat
      <4> QED BY ONLY <4>1, <4>2
    <3> QED BY ONLY <1>5, <1>10, <1>14, <2>2, <2>3, <3>5
  <2> QED BY ONLY <1>5, <1>14, <2>2, <2>3
<1>15. /\ b[(n + 1) + 1] = b[n + 1] + Len(e.items)
       /\ \A j \in DOMAIN e.items : e.items[j] = (a \o e.items)[b[n + 1] + j]
  <2>1. b[n + 1] = Len(a)
    <3>1. n + 1 \in 1 .. n + 1
      BY ONLY <1>1
    <3> QED BY ONLY <1>5, <1>9, <3>1
  <2> QED BY ONLY <1>1, <1>7, <1>9, <1>11, <2>1
<1>16. Lined(b, Append(q, e), a \o e.items, s)
  <2>1. \A i \in 1 .. n + 1 : i \in 1 .. n \/ i = n + 1
    BY ONLY <1>1
  <2>2. b[1] = Len(s)
    <3>1. 1 \in 1 .. n + 1
      BY ONLY <1>1
    <3> QED BY ONLY <1>5, <1>9, <3>1
  <2>3. \A i \in DOMAIN Append(q, e) :
          /\ b[i + 1] = b[i] + Len(Append(q, e)[i].items)
          /\ \A j \in DOMAIN Append(q, e)[i].items :
                Append(q, e)[i].items[j] = (a \o e.items)[b[i] + j]
    <3> TAKE i \in DOMAIN Append(q, e)
    <3>1. CASE i \in 1 .. n
      <4>1. Append(q, e)[i] = q[i]
        BY ONLY <1>2, <3>1
      <4> QED BY ONLY <1>14, <3>1, <4>1
    <3>2. CASE i = n + 1
      BY ONLY <1>2, <1>15, <3>2
    <3> QED BY ONLY <1>3, <2>1, <3>1, <3>2, i \in DOMAIN Append(q, e)
  <2> QED BY ONLY <1>2, <1>4, <1>9, <1>13, <2>2, <2>3 DEF Lined
<1>17. b \in Places(Append(q, e), a \o e.items)
  <2>1. (n + 1) + 1 = n + 2
    BY ONLY <1>1
  <2> QED BY ONLY <1>2, <1>4, <1>8, <2>1 DEF Places
<1> QED BY ONLY <1>16, <1>17

LEMMA OrderIsLined ==
    DrivenInOrder <=>
      \E ahead \in Places(queue, accepted) : Lined(ahead, queue, accepted, Served)
BY DEF DrivenInOrder, InOrder, Places, Lined

\* What the loop has served grows with the fetch alone.
LEMMA ServedStep ==
    ASSUME DriverInv, Next
    PROVE  /\ Served \in Seq(Txn)
           /\ FetchTransaction \/ FetchNext => Served' = Append(Served, hand')
           /\ ~ (FetchTransaction \/ FetchNext) => Served' = Served
<1>1. /\ driven \in Seq(Txn) /\ hand \in Txn \cup {NoTxn} /\ hand' \in Txn \cup {NoTxn}
      /\ (hand # NoTxn <=> loop \in {"obtained", "hold", "driving"})
      /\ (hand' # NoTxn <=> loop' \in {"obtained", "hold", "driving"})
  BY NextDriver DEF DriverInv, TypeOK
<1>2. Served \in Seq(Txn) /\ (hand = NoTxn => Served = driven)
  BY <1>1 DEF Served, InHand
<1>3. CASE FetchTransaction \/ FetchNext
  <2>1. hand = NoTxn /\ hand' # NoTxn /\ driven' = driven
    BY <1>1, <1>3 DEF FetchTransaction, FetchNext
  <2>2. Served' = driven \o <<hand'>> /\ Served = driven
    BY ONLY <1>2, <2>1 DEF Served, InHand
  <2>3. hand' \in Txn
    BY ONLY <1>1, <2>1
  <2> QED BY ONLY <1>1, <1>2, <1>3, <2>2, <2>3, AppendIsConcat
<1>4. CASE EndDrive
  <2>1. hand \in Txn /\ hand' = NoTxn /\ driven' = Append(driven, hand)
        /\ loop = "driving" /\ loop' = "fetch"
    BY <1>1, <1>4 DEF EndDrive
  <2>2. Served = driven \o <<hand>> /\ Served' = driven' \o <<>>
    BY ONLY <2>1, NoTxnAssumption DEF Served, InHand
  <2>3. Append(driven, hand) \in Seq(Txn) /\ Append(driven, hand) = driven \o <<hand>>
    BY ONLY <1>1, <2>1, AppendIsConcat, AppendProperties
  <2>4. Served' = Served
    BY ONLY <2>1, <2>2, <2>3, ConcatEmptySeq
  <2>5. ~ (FetchTransaction \/ FetchNext)
    BY <2>1 DEF FetchTransaction, FetchNext
  <2> QED BY <1>2, <2>4, <2>5
<1>5. CASE ~ (FetchTransaction \/ FetchNext \/ EndDrive)
  <2>1. hand' = hand /\ driven' = driven
    BY <1>5 DEF Next, LoopStep, Boot, AwaitPush, Pushed, Exhausted, HoldForReset,
         BeginDrive, Enqueue, EnqueueIterable, AssertReset, DeassertReset, tbVars
  <2> QED BY <1>2, <1>5, <2>1 DEF Served, InHand
<1> QED BY <1>3, <1>4, <1>5

\* Initially nothing was accepted.
LEMMA InitOrder == Init => DrivenInOrder
<1> SUFFICES ASSUME Init PROVE DrivenInOrder
  OBVIOUS
<1>1. queue = <<>> /\ accepted = <<>> /\ Served = <<>>
  <2>1. queue = <<>> /\ accepted = <<>> /\ driven = <<>> /\ hand = NoTxn
    BY DEF Init
  <2>2. <<>> \o <<>> = <<>>
    OBVIOUS
  <2> QED BY ONLY <2>1, <2>2 DEF Served, InHand
<1>2. Len(<<>>) = 0 /\ DOMAIN <<>> = {}
  OBVIOUS
<1> DEFINE b == [k \in 1 .. 1 |-> 0]
<1>3. b \in [1 .. 0 + 1 -> 0 .. 0] /\ b[1] = 0 /\ b[0 + 1] = 0
  OBVIOUS
<1> HIDE DEF b
<1>4. b \in Places(queue, accepted) /\ Lined(b, queue, accepted, Served)
  BY ONLY <1>1, <1>2, <1>3 DEF Places, Lined
<1> QED BY ONLY <1>4, OrderIsLined

LEMMA NextOrder == DriverInv /\ DrivenInOrder /\ [Next]_vars => DrivenInOrder'
<1> SUFFICES ASSUME DriverInv, DrivenInOrder, [Next]_vars PROVE DrivenInOrder'
  OBVIOUS
<1>1. queue \in Seq(Entry) /\ accepted \in Seq(Txn)
  BY DEF DriverInv, TypeOK
<1>2. PICK ahead \in Places(queue, accepted) : Lined(ahead, queue, accepted, Served)
  BY OrderIsLined
<1>3. ASSUME NEW b \in Places(queue', accepted'), Lined(b, queue', accepted', Served')
      PROVE  DrivenInOrder'
  BY ONLY <1>3 DEF DrivenInOrder, InOrder, Places, Lined
<1>4. CASE UNCHANGED <<queue, accepted, Served>>
  BY ONLY <1>2, <1>3, <1>4
<1>5. ASSUME Served \in Seq(Txn), Served' = Served, NEW e \in Entry, Push(e)
      PROVE  DrivenInOrder'
  <2>1. queue' = Append(queue, e) /\ accepted' = accepted \o e.items
    BY <1>5 DEF Push
  <2> QED BY ONLY <1>1, <1>2, <1>3, <1>5, <2>1, PushLined
<1>6. CASE FetchTransaction
  <2>1. /\ queue # <<>> /\ queue' = Tail(queue) /\ accepted' = accepted
        /\ hand' = queue[1].items[1] /\ ~queue[1].iter
    BY <1>1, <1>6, HeadTailProperties DEF FetchTransaction
  <2>2. Served \in Seq(Txn) /\ Served' = Append(Served, hand')
    BY <1>6, ServedStep DEF Next, LoopStep
  <2>3. Len(queue[1].items) = 1 /\ queue[1].items \in Seq(Txn)
    BY <2>1, HeadEntry DEF DriverInv, EntryInv
  <2>4. queue[1].items = <<hand'>> /\ hand' \in Txn
    BY ONLY <2>1, <2>3
  <2>5. Served' = Served \o queue[1].items
    BY ONLY <2>2, <2>4, AppendIsConcat
  <2> QED BY ONLY <1>1, <1>2, <1>3, <2>1, <2>2, <2>5, PopLined
<1>7. CASE Exhausted
  <2>1. queue # <<>> /\ queue' = Tail(queue) /\ accepted' = accepted /\ queue[1].items = <<>>
        /\ UNCHANGED <<hand, driven>>
    BY <1>1, <1>7, HeadTailProperties DEF Exhausted
  <2>2. Served \in Seq(Txn)
    BY <1>7, ServedStep DEF Next, LoopStep
  <2>3. Served' = Served
    BY ONLY <2>1 DEF Served, InHand
  <2>4. Served' = Served \o queue[1].items
    BY ONLY <2>1, <2>2, <2>3, ConcatEmptySeq
  <2> QED BY ONLY <1>1, <1>2, <1>3, <2>1, <2>2, <2>4, PopLined
<1>8. CASE FetchNext
  <2>1. /\ queue # <<>> /\ accepted' = accepted /\ queue[1].items # <<>>
        /\ hand' = Head(queue[1].items) /\ queue' = AfterYield
    BY <1>1, <1>8, HeadTailProperties DEF FetchNext
  <2>2. Served \in Seq(Txn) /\ Served' = Append(Served, hand')
    BY <1>8, ServedStep DEF Next, LoopStep
  <2> DEFINE e == [queue[1] EXCEPT !.items = Tail(queue[1].items)]
  <2>3. 1 \in 1 .. Len(queue) /\ queue[1] \in Entry /\ queue[1].items \in Seq(Txn)
    <3>1. DOMAIN queue = 1 .. Len(queue)
      BY ONLY <1>1, LenProperties
    <3> QED BY <2>1, <3>1, HeadEntry
  <2>4. Tail(queue[1].items) \in Seq(Txn)
    BY ONLY <2>1, <2>3, HeadTailProperties
  <2>5. e \in Entry /\ e.items = Tail(queue[1].items)
    BY ONLY <2>3, <2>4 DEF Entry
  <2>6. queue' = [queue EXCEPT ![1] = e]
    BY ONLY <2>1, <2>3, <1>1 DEF AfterYield
  <2> HIDE DEF e
  <2>7. /\ queue' \in Seq(Entry) /\ Len(queue') = Len(queue) /\ queue'[1] = e
        /\ \A i \in 2 .. Len(queue) : queue'[i] = queue[i]
    <3>1. /\ queue' \in Seq(Entry) /\ Len(queue') = Len(queue)
          /\ \A i \in 1 .. Len(queue) : queue'[i] = IF i = 1 THEN e ELSE queue[i]
      BY ONLY <1>1, <2>3, <2>5, <2>6, ExceptSeq, LenProperties
    <3>2. \A i \in 2 .. Len(queue) : i \in 1 .. Len(queue) /\ i # 1
      BY ONLY <1>1
    <3> QED BY ONLY <2>3, <3>1, <3>2
  <2> QED BY ONLY <1>1, <1>2, <1>3, <2>1, <2>2, <2>5, <2>7, YieldLined
<1>9. ASSUME NEW t \in Txn, NEW wait \in WaitFor, Enqueue(t, wait) PROVE DrivenInOrder'
  <2> DEFINE e == [iter |-> FALSE, items |-> <<t>>, wait |-> wait]
  <2>1. e \in Entry
    BY DEF Entry
  <2>2. Push(e) /\ UNCHANGED <<hand, driven>>
    BY <1>9 DEF Enqueue
  <2>3. Served \in Seq(Txn) /\ Served' = Served
    <3>1. Served \in Seq(Txn)
      BY <1>9, ServedStep DEF Next
    <3> QED BY ONLY <2>2, <3>1 DEF Served, InHand
  <2> QED BY ONLY <1>5, <2>1, <2>2, <2>3
<1>10. ASSUME NEW list \in Batches, NEW wait \in Awaitable, EnqueueIterable(list, wait)
       PROVE  DrivenInOrder'
  <2> DEFINE e == [iter |-> TRUE, items |-> list, wait |-> wait]
  <2>1. e \in Entry
    BY BatchesAssumption, AwaitableAssumption DEF Entry, WaitFor
  <2>2. Push(e) /\ UNCHANGED <<hand, driven>>
    BY <1>10 DEF EnqueueIterable
  <2>3. Served \in Seq(Txn) /\ Served' = Served
    <3>1. Served \in Seq(Txn)
      BY <1>10, ServedStep DEF Next
    <3> QED BY ONLY <2>2, <3>1 DEF Served, InHand
  <2> QED BY ONLY <1>5, <2>1, <2>2, <2>3
<1>11. CASE Boot \/ AwaitPush \/ Pushed \/ HoldForReset \/ BeginDrive
            \/ AssertReset \/ DeassertReset \/ UNCHANGED vars
  <2>1. UNCHANGED <<queue, accepted, hand, driven>>
    BY <1>11 DEF Boot, AwaitPush, Pushed, HoldForReset, BeginDrive, AssertReset,
         DeassertReset, vars, tbVars
  <2>2. UNCHANGED <<queue, accepted, Served>>
    BY ONLY <2>1 DEF Served, InHand
  <2> QED BY <1>4, <2>2
<1>12. CASE EndDrive
  <2>1. UNCHANGED <<queue, accepted>> /\ ~ (FetchTransaction \/ FetchNext)
    BY <1>12 DEF EndDrive, FetchTransaction, FetchNext
  <2>2. Served' = Served
    BY <1>12, <2>1, ServedStep DEF Next, LoopStep
  <2> QED BY <1>4, <2>1, <2>2
<1> QED BY <1>6, <1>7, <1>8, <1>9, <1>10, <1>11, <1>12 DEF Next, LoopStep

-----------------------------------------------------------------------------
(* Theorems *)

\* The invariant holds in every reachable state of the driver.
THEOREM DriverInvariant == Spec => []DriverInv
BY InitDriver, NextDriver, PTL DEF Spec

\* The driver keeps its shape: a transaction is in hand from the fetch to the
\* end of the drive, and the lock is held for the drive alone.
THEOREM DriverTypeCorrect == Spec => []TypeOK
<1>1. DriverInv => TypeOK
  BY DEF DriverInv
<1> QED BY <1>1, DriverInvariant, PTL

\* The event that enqueue returns for a transaction is set if and only if what
\* it stands for has happened to THAT transaction, for any mix of transactions
\* and iterables and with reset asserted at any moment.
THEOREM EventsTellTheTruth == Spec => []EventTruthful
<1>1. DriverInv => EventTruthful
  <2> SUFFICES ASSUME DriverInv, NEW t \in Txn, event[<<"single", t>>] # "none"
               PROVE  (event[<<"single", t>>] = "set") =
                        CASE trigger[t] = "ENQUEUE"    -> TRUE
                          [] trigger[t] = "PRE_DRIVE"  ->
                                t \in Range(driven) \/ (loop = "driving" /\ hand = t)
                          [] trigger[t] = "POST_DRIVE" -> t \in Range(driven)
    BY DEF EventTruthful
  <2>1. trigger[t] \in {"ENQUEUE", "PRE_DRIVE", "POST_DRIVE"}
    BY DEF DriverInv, TypeOK, EventInv, WaitFor
  <2>2. CASE trigger[t] = "ENQUEUE"
    <3>1. event[<<"single", t>>] = "set"
      BY <2>2 DEF DriverInv, TruthInv
    <3> QED BY <2>2, <3>1
  <2>3. CASE trigger[t] = "PRE_DRIVE"
    <3> DEFINE Begun == t \in Range(driven) \/ (loop = "driving" /\ hand = t)
    <3>1. event[<<"single", t>>] = "set" <=> Begun
      BY <2>3 DEF DriverInv, TruthInv
    <3>2. CASE Begun
      BY <2>3, <3>1, <3>2
    <3>3. CASE ~Begun
      BY <2>3, <3>1, <3>3
    <3> QED BY <3>2, <3>3
  <2>4. CASE trigger[t] = "POST_DRIVE"
    <3>1. event[<<"single", t>>] = "set" <=> t \in Range(driven)
      BY <2>4 DEF DriverInv, TruthInv
    <3>2. CASE t \in Range(driven)
      BY <2>4, <3>1, <3>2
    <3>3. CASE t \notin Range(driven)
      BY <2>4, <3>1, <3>3
    <3> QED BY <3>2, <3>3
  <2> QED BY <2>1, <2>2, <2>3, <2>4
<1> QED BY <1>1, DriverInvariant, PTL

\* Every transaction is driven in the order in which it was enqueued, none is
\* lost and none is driven twice, for any mix of transactions and iterables
\* and with reset asserted at any moment.
THEOREM DrivesKeepOrder == Spec => []DrivenInOrder
BY InitOrder, NextOrder, DriverInvariant, PTL DEF Spec
=============================================================================
