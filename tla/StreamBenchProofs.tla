-------------------------- MODULE StreamBenchProofs --------------------------
(***************************************************************************)
(* Theorems about StreamBench for every set of sequences, every number of  *)
(* packets and every backpressure.                                         *)
(***************************************************************************)
EXTENDS StreamBench, SequenceTheorems, WellFoundedInduction, TLAPS

(* Sequences *)

\* One item or none, and nothing.
LEMMA ConcatEmpty ==
    ASSUME NEW x, NEW t, t = <<>> \/ t = <<x>>
    PROVE  <<>> \o t = t /\ t \o <<>> = t
<1>1. <<>> \in Seq({x}) /\ <<x>> \in Seq({x})
  OBVIOUS
<1>2. t \in Seq({x})
  BY <1>1
<1> QED BY <1>2, ConcatEmptySeq

LEMMA PrefixOfConcat ==
    ASSUME NEW S, NEW p \in Seq(S), NEW f \in Seq(S) PROVE IsPrefix(p, p \o f)
<1>1. Len(p) \in Nat /\ Len(p \o f) = Len(p) + Len(f) /\ Len(f) \in Nat
  OBVIOUS
<1>2. CASE Len(p) = 0
  <2>1. SubSeq(p, 1, 0) = <<>> /\ SubSeq(p \o f, 1, 0) = <<>>
    BY SubSeqEmpty
  <2> QED BY <1>1, <1>2, <2>1 DEF IsPrefix
<1>3. CASE Len(p) # 0
  <2>1. 1 \in 1 .. Len(p) /\ Len(p) \in 1 .. Len(p)
    BY <1>1, <1>3
  <2>2. SubSeq(p \o f, 1, Len(p)) = SubSeq(p, 1, Len(p))
    BY <2>1, SubSeqOfConcat1
  <2> QED BY <1>1, <2>2 DEF IsPrefix
<1> QED BY <1>2, <1>3

-----------------------------------------------------------------------------
\* The items of one stream.
Own(s) == {s} \X (Nat \ {0})

\* Each queue and each hand has items of its own stream, and the reference
\* queues have the item inside the design and nothing else.
DataInv ==
    /\ count \in [Stream -> Nat]
    /\ queue \in [Stream -> Seq(Item)] /\ \A s \in Stream : queue[s] \in Seq(Own(s))
    /\ hand \in [Stream -> Item \cup {NoItem}]
    /\ \A s \in Stream : hand[s] \in Own(s) \cup {NoItem}
    /\ choice \in Stream /\ reg \in Item \cup {NoItem} /\ ready \in BOOLEAN
    /\ refs = [s \in Stream |-> IF reg \in Own(s) THEN <<reg>> ELSE <<>>]

\* A stream that the other one got ahead of is the next to be served.
PassInv ==
    /\ passed \in [Stream -> {0, 1}]
    /\ \A s \in Stream : passed[s] = 1 => choice = Other(s)

-----------------------------------------------------------------------------
(* Between two edges *)

LEMMA FreshItems ==
    ASSUME DataInv, NEW s \in Stream, NEW n \in Nat
    PROVE  Fresh(s, n) \in Seq(Own(s)) /\ Fresh(s, n) \in Seq(Item)
<1>1. count[s] \in Nat
  BY DEF DataInv
<1>2. \A i \in 1 .. n : <<s, count[s] + i>> \in Own(s) /\ <<s, count[s] + i>> \in Item
  BY <1>1 DEF Own, Item
<1> QED BY <1>2 DEF Fresh

\* Enqueueing appends items of the stream.
LEMMA EnqueueData ==
    ASSUME DataInv, NEW s \in Stream, NEW n \in Nat, Enqueue(s, n),
           UNCHANGED <<hand, dut, refs>>
    PROVE  DataInv'
<1>1. Fresh(s, n) \in Seq(Own(s)) /\ Fresh(s, n) \in Seq(Item)
  BY FreshItems
<1>2. queue[s] \o Fresh(s, n) \in Seq(Own(s)) /\ queue[s] \o Fresh(s, n) \in Seq(Item)
  BY <1>1 DEF DataInv
<1>3. queue' \in [Stream -> Seq(Item)] /\ \A r \in Stream : queue'[r] \in Seq(Own(r))
  BY <1>2 DEF DataInv, Enqueue
<1>4. count' \in [Stream -> Nat]
  BY DEF DataInv, Enqueue
<1> QED BY <1>3, <1>4 DEF DataInv, dut

\* A driver takes the head of its queue.
LEMMA OfferData ==
    ASSUME DataInv, NEW s \in Stream, Offer(s) PROVE DataInv'
<1>1. /\ Head(queue[s]) \in Own(s) /\ Tail(queue[s]) \in Seq(Own(s))
      /\ Head(queue[s]) \in Item /\ Tail(queue[s]) \in Seq(Item)
  BY DEF DataInv, Offer
<1>2. /\ queue' = [queue EXCEPT ![s] = Tail(@)] /\ hand' = [hand EXCEPT ![s] = Head(queue[s])]
      /\ UNCHANGED <<count, dut, refs>>
  BY DEF Offer, lists
<1>3. queue' \in [Stream -> Seq(Item)] /\ \A r \in Stream : queue'[r] \in Seq(Own(r))
  BY <1>1, <1>2 DEF DataInv
<1>4. /\ hand' \in [Stream -> Item \cup {NoItem}]
      /\ \A r \in Stream : hand'[r] \in Own(r) \cup {NoItem}
  BY <1>1, <1>2 DEF DataInv
<1> QED BY <1>2, <1>3, <1>4 DEF DataInv, dut

\* No step but an edge changes what the arbiter did.
LEMMA BetweenEdges ==
    ASSUME \/ Load
           \/ \E s \in Stream : Offer(s)
           \/ \E c \in Ctx : SeqStep(c)
    PROVE  UNCHANGED <<dut, refs, captured, passed>>
BY DEF Load, Offer, SeqStep, Request, Granted, OnePacket, WholeBurst, BurstOver,
   lists, counts

\* What a sequence does to the data is to enqueue, or nothing.
LEMMA SeqEnqueues ==
    ASSUME NEW c \in Ctx, SeqStep(c)
    PROVE  /\ UNCHANGED hand
           /\ \/ UNCHANGED <<count, queue>>
              \/ \E s \in Stream, n \in Nat : Enqueue(s, n)
<1>1. On[c] \in Stream /\ Length \in Nat /\ 1 \in Nat
  BY OnAssumption, LengthAssumption
<1> QED BY <1>1 DEF SeqStep, Request, Granted, OnePacket, WholeBurst, BurstOver

LEMMA LoadEnqueues == ASSUME Load PROVE \E s \in Stream : Enqueue(s, 1)
BY DEF Load, Stream

LEMMA BetweenData ==
    ASSUME DataInv, Load \/ (\E s \in Stream : Offer(s)) \/ (\E c \in Ctx : SeqStep(c))
    PROVE  DataInv'
<1>1. UNCHANGED <<dut, refs>>
  BY BetweenEdges
<1>2. CASE Load
  BY <1>1, <1>2, LoadEnqueues, EnqueueData DEF Load
<1>3. CASE \E s \in Stream : Offer(s)
  BY <1>3, OfferData
<1>4. ASSUME NEW c \in Ctx, SeqStep(c) PROVE DataInv'
  <2>1. CASE UNCHANGED <<count, queue>>
    BY <1>1, <1>4, <2>1, SeqEnqueues DEF DataInv, dut
  <2>2. CASE \E s \in Stream, n \in Nat : Enqueue(s, n)
    BY <1>1, <1>4, <2>2, SeqEnqueues, EnqueueData
  <2> QED BY <1>4, <2>1, <2>2, SeqEnqueues
<1> QED BY <1>2, <1>3, <1>4

-----------------------------------------------------------------------------
(* A clock edge *)

\* Both choices of the arbiter, and what each of them does.
LEMMA ChoiceIs ==
    ASSUME DataInv
    PROVE  /\ Choice \in Stream
           /\ ~Loadable => Choice = choice
           /\ Loadable /\ Valid(Other(choice)) => Choice = Other(choice)
           /\ Loadable /\ ~Valid(Other(choice)) /\ Valid(choice) => Choice = choice
           /\ Accepted = IF Loadable /\ Valid(Choice) THEN {Choice} ELSE {}
<1>1. choice \in {"a", "b"} /\ ready \in BOOLEAN
  BY DEF DataInv, Stream
<1>2. Loadable <=> ~(reg # NoItem /\ ~ready)
  BY <1>1 DEF Loadable
<1>3. Choice = IF ~Loadable THEN choice
               ELSE IF choice = "b" THEN (IF Valid("a") THEN "a" ELSE "b")
                                    ELSE (IF Valid("b") THEN "b" ELSE "a")
  BY <1>2 DEF Choice
<1>4. Choice \in Stream
  BY <1>1, <1>3 DEF Stream
<1>5. Accepted = IF Loadable /\ Valid(Choice) THEN {Choice} ELSE {}
  BY <1>4 DEF Accepted, Ready
<1> QED BY <1>1, <1>3, <1>4, <1>5 DEF Other

\* The register gets what is accepted, or keeps its item, or is emptied.
LEMMA RegisterIs ==
    ASSUME DataInv, Edge
    PROVE  /\ \/ /\ Loadable /\ Valid(Choice) /\ Accepted = {Choice}
                 /\ reg' = hand[Choice] /\ reg' \in Own(Choice) /\ choice' = Choice
              \/ /\ Loadable /\ Accepted = {} /\ ~Valid(Choice)
                 /\ reg' = NoItem /\ choice' = choice
              \/ /\ ~Loadable /\ ~ready /\ Accepted = {}
                 /\ reg # NoItem /\ reg' = reg /\ choice' = choice
           /\ reg' \in Item \cup {NoItem} /\ choice' \in Stream /\ Choice \in Stream
<1>1. /\ Choice \in Stream /\ (~Loadable => Choice = choice)
      /\ Accepted = IF Loadable /\ Valid(Choice) THEN {Choice} ELSE {}
  BY ChoiceIs
<1>2. /\ reg' = IF Loadable THEN hand[Choice] ELSE reg
      /\ choice' = IF reg' # NoItem THEN Choice ELSE choice
  BY DEF Edge, Clock
<1>3. /\ hand[Choice] \in Own(Choice) \cup {NoItem} /\ hand[Choice] \in Item \cup {NoItem}
      /\ choice \in Stream /\ ready \in BOOLEAN /\ reg \in Item \cup {NoItem}
  BY <1>1 DEF DataInv
<1>4. ~Loadable => reg # NoItem /\ ~ready
  BY DEF Loadable
<1> QED BY <1>1, <1>2, <1>3, <1>4 DEF Valid

\* What the register gives up is popped from its reference queue, and what it
\* gets is pushed.
LEMMA RefsAre ==
    ASSUME DataInv, Edge, NEW s \in Stream
    PROVE  /\ refs'[s] = IF reg' \in Own(s) THEN <<reg'>> ELSE <<>>
           /\ Accepted # {} \/ reg' = NoItem =>
                (Capture <=> reg # NoItem)
<1>1. /\ refs[s] = IF reg \in Own(s) THEN <<reg>> ELSE <<>>
      /\ refs'[s] = (IF Capture /\ refs[s] # <<>> /\ Head(refs[s]) = reg
                      THEN Tail(refs[s]) ELSE refs[s]) \o Predicted(s)
  BY DEF DataInv, Edge, Compare
<1>2. Loadable => (Capture <=> reg # NoItem)
  BY DEF Loadable, Capture
<1>3. reg \notin Own(s) => refs[s] = <<>>
  BY <1>1
<1>4. reg \in Own(s) => reg # NoItem
  BY NoItemAssumption DEF Own
<1>5. CASE Loadable
  <2>0. <<>> \o Predicted(s) = Predicted(s)
    BY ConcatEmpty DEF Predicted
  <2>1. refs'[s] = Predicted(s)
    <3>1. CASE reg \in Own(s)
      <4>1. refs[s] = <<reg>> /\ Head(<<reg>>) = reg /\ Tail(<<reg>>) = <<>> /\ <<reg>> # <<>>
        BY <1>1, <3>1
      <4>2. refs'[s] = <<>> \o Predicted(s)
        BY <1>1, <1>2, <1>4, <1>5, <3>1, <4>1
      <4> QED BY <4>2, <2>0
    <3>2. CASE reg \notin Own(s)
      <4>1. refs'[s] = <<>> \o Predicted(s)
        BY <1>1, <1>3, <3>2
      <4> QED BY <4>1, <2>0
    <3> QED BY <3>1, <3>2
  <2>2. CASE Accepted = {Choice} /\ reg' = hand[Choice] /\ reg' \in Own(Choice)
    <3>1. CASE s = Choice
      BY <2>1, <2>2, <3>1, <1>2, <1>5 DEF Predicted
    <3>2. CASE s # Choice
      <4>1. reg' \notin Own(s)
        BY <2>2, <3>2 DEF Own
      <4> QED BY <2>1, <2>2, <3>2, <4>1, <1>2, <1>5 DEF Predicted
    <3> QED BY <3>1, <3>2
  <2>3. CASE Accepted = {} /\ reg' = NoItem
    <3>1. reg' \notin Own(s)
      BY <2>3, NoItemAssumption DEF Own
    <3> QED BY <1>2, <1>5, <2>1, <2>3, <3>1 DEF Predicted
  <2> QED BY <1>5, <2>2, <2>3, RegisterIs
<1>6. CASE ~Loadable
  <2>1. ~ready /\ Accepted = {} /\ reg' = reg /\ reg # NoItem
    BY <1>6, RegisterIs
  <2>2. refs'[s] = refs[s] \o <<>>
    BY <1>1, <2>1 DEF Capture, Predicted
  <2>3. refs[s] \o <<>> = refs[s]
    BY <1>1, ConcatEmpty
  <2> QED BY <1>1, <2>1, <2>2, <2>3
<1> QED BY <1>5, <1>6

\* The drivers go on with the heads of their queues.
LEMMA DriveNextData ==
    ASSUME DataInv, DriveNext
    PROVE  /\ hand' \in [Stream -> Item \cup {NoItem}]
           /\ \A s \in Stream : hand'[s] \in Own(s) \cup {NoItem}
           /\ queue' \in [Stream -> Seq(Item)]
           /\ \A s \in Stream : queue'[s] \in Seq(Own(s))
<1>1. \A s \in Stream : queue[s] # <<>> =>
        /\ Head(queue[s]) \in Own(s) /\ Tail(queue[s]) \in Seq(Own(s))
        /\ Head(queue[s]) \in Item /\ Tail(queue[s]) \in Seq(Item)
  BY DEF DataInv
<1> QED BY <1>1 DEF DataInv, DriveNext

LEMMA EdgeData == ASSUME DataInv, Edge PROVE DataInv'
<1>1. /\ hand' \in [Stream -> Item \cup {NoItem}]
      /\ \A s \in Stream : hand'[s] \in Own(s) \cup {NoItem}
      /\ queue' \in [Stream -> Seq(Item)]
      /\ \A s \in Stream : queue'[s] \in Seq(Own(s))
  BY DriveNextData DEF Edge
<1>2. refs' = [s \in Stream |-> IF reg' \in Own(s) THEN <<reg'>> ELSE <<>>]
  <2>1. refs' = [s \in Stream |-> refs'[s]]
    BY DEF Edge, Compare
  <2> QED BY <2>1, RefsAre
<1>3. count' = count /\ ready' \in BOOLEAN
  BY DEF Edge
<1>4. reg' \in Item \cup {NoItem} /\ choice' \in Stream
  BY RegisterIs
<1> QED BY <1>1, <1>2, <1>3, <1>4 DEF DataInv

\* Only a stream that was served last is overtaken, and the other one is then
\* the one that was served last.
LEMMA EdgePass == ASSUME DataInv, PassInv, Edge PROVE PassInv'
<1>1. passed' = [s \in Stream |-> IF s \in Accepted \/ ~Valid(s) THEN 0
                                  ELSE IF Other(s) \in Accepted THEN passed[s] + 1
                                  ELSE passed[s]]
  BY DEF Edge
<1>2. ASSUME NEW s \in Stream
      PROVE  passed'[s] \in {0, 1} /\ (passed'[s] = 1 => choice' = Other(s))
  <2>1. passed[s] \in {0, 1} /\ (passed[s] = 1 => choice = Other(s))
    BY DEF PassInv
  <2>2. CASE s \in Accepted \/ ~Valid(s)
    BY <1>1, <2>2
  <2>3. CASE Valid(s) /\ s \notin Accepted /\ Other(s) \in Accepted
    <3>1. Loadable /\ Choice = Other(s) /\ choice' = Other(s)
      BY <2>3, RegisterIs
    <3>2. Other(Other(s)) = s /\ Other(s) # s
      BY DEF Other, Stream
    <3>3. choice # Other(s)
      BY <2>3, <3>1, <3>2, ChoiceIs
    <3> QED BY <1>1, <2>1, <2>3, <3>1, <3>3
  <2>4. CASE Valid(s) /\ s \notin Accepted /\ Other(s) \notin Accepted
    <3>1. passed'[s] = passed[s]
      BY <1>1, <2>4
    <3>2. Choice \in Stream /\ (Choice = s \/ Choice = Other(s))
      BY RegisterIs DEF Stream, Other
    <3>3. choice' = choice
      BY <2>4, <3>2, RegisterIs
    <3> QED BY <2>1, <3>1, <3>3
  <2> QED BY <2>2, <2>3, <2>4
<1> QED BY <1>1, <1>2 DEF PassInv

-----------------------------------------------------------------------------
(* What follows for the arbiter and for the strict bench *)

StreamInv == DataInv /\ PassInv

LEMMA InitStream == BenchInit => StreamInv
<1> SUFFICES ASSUME BenchInit PROVE StreamInv
  OBVIOUS
<1>1. \A s \in Stream : NoItem \notin Own(s)
  BY NoItemAssumption DEF Own
<1>2. DataInv
  <2>1. <<>> \in Seq(Item) /\ \A s \in Stream : <<>> \in Seq(Own(s))
    OBVIOUS
  <2>2. count \in [Stream -> Nat] /\ queue \in [Stream -> Seq(Item)] /\ "b" \in Stream
    BY <2>1 DEF BenchInit, Stream
  <2> QED BY <1>1, <2>1, <2>2 DEF BenchInit, DataInv
<1>3. PassInv
  BY DEF BenchInit, PassInv
<1> QED BY <1>2, <1>3 DEF StreamInv

LEMMA StepStream == StreamInv /\ [BenchNext]_bvars => StreamInv'
<1> SUFFICES ASSUME DataInv, PassInv, [BenchNext]_bvars PROVE DataInv' /\ PassInv'
  BY DEF StreamInv
<1>1. CASE UNCHANGED bvars
  BY <1>1 DEF bvars, dut, lists, counts, DataInv, PassInv
<1>2. CASE Load \/ (\E s \in Stream : Offer(s)) \/ (\E c \in Ctx : SeqStep(c))
  <2>1. PassInv'
    BY <1>2, BetweenEdges DEF PassInv, dut
  <2> QED BY <1>2, <2>1, BetweenData
<1>3. CASE Edge
  BY <1>3, EdgeData, EdgePass
<1> QED BY <1>1, <1>2, <1>3 DEF BenchNext

\* The invariant of arbiter, drivers and reference queues.
THEOREM StreamInvariant == BenchSpec => []StreamInv
<1> QED BY InitStream, StepStream, PTL DEF BenchSpec

\* The arbiter of the examples is fair: a driver that offers an item is
\* overtaken once at most, whatever the traffic and the backpressure.
THEOREM ArbiterIsFair == BenchSpec => []NoStarvation
<1>1. StreamInv => NoStarvation
  BY DEF StreamInv, PassInv, NoStarvation
<1> QED BY <1>1, StreamInvariant, PTL

\* The strict bench never compares a capture before its prediction was pushed,
\* nor with the prediction of another item.
THEOREM CapturesArePredicted == BenchSpec => []CaptureIsPredicted
<1>1. StreamInv => CaptureIsPredicted
  <2> SUFFICES ASSUME DataInv, reg # NoItem
               PROVE  \E s \in Stream : refs[s] # <<>> /\ Head(refs[s]) = reg
    BY DEF StreamInv, CaptureIsPredicted
  <2>1. PICK s \in Stream : reg \in Own(s)
    BY DEF DataInv, Item, Own
  <2>2. refs[s] = <<reg>>
    BY <2>1 DEF DataInv
  <2> QED BY <2>2
<1> QED BY <1>1, StreamInvariant, PTL

-----------------------------------------------------------------------------
(* Drivers, arbiter and monitor merge the streams *)

InHand(s) == IF hand[s] = NoItem THEN <<>> ELSE <<hand[s]>>

LEMMA PendingParts ==
    ASSUME DataInv, NEW s \in Stream
    PROVE  /\ refs[s] \in Seq(Item) /\ InHand(s) \in Seq(Item) /\ queue[s] \in Seq(Item)
           /\ Pending[s] = refs[s] \o (InHand(s) \o queue[s])
           /\ Pending[s] \in Seq(Item)
<1>1. hand[s] # NoItem => hand[s] \in Item
  BY DEF DataInv
<1>2. reg \in Own(s) => reg \in Item
  BY DEF Own, Item
<1>3. refs[s] \in Seq(Item)
  BY <1>2 DEF DataInv
<1>4. InHand(s) \in Seq(Item)
  BY <1>1 DEF InHand
<1>5. queue[s] \in Seq(Item)
  BY DEF DataInv
<1>6. Pending[s] = refs[s] \o (InHand(s) \o queue[s])
  BY DEF Pending, InHand
<1>7. refs[s] \o (InHand(s) \o queue[s]) \in Seq(Item)
  BY <1>3, <1>4, <1>5
<1> QED BY <1>3, <1>4, <1>5, <1>6, <1>7

\* Concatenation is associative, in the one direction that is needed.
LEMMA ConcatRegroups ==
    ASSUME NEW h \in Seq(Item), NEW q \in Seq(Item), NEW f \in Seq(Item)
    PROVE  h \o (q \o f) = (h \o q) \o f
BY ONLY h \in Seq(Item), q \in Seq(Item), f \in Seq(Item)

\* What is enqueued goes in at the end of the stream.
LEMMA EnqueueMerges ==
    ASSUME DataInv, NEW s \in Stream, NEW n \in Nat, Enqueue(s, n),
           UNCHANGED <<hand, refs, captured>>
    PROVE  Merge!Put(s)
<1>1. PICK f \in Seq(Item) : queue'[s] = queue[s] \o f
  BY FreshItems DEF Enqueue, DataInv
<1>2. Pending'[s] = refs[s] \o (InHand(s) \o (queue[s] \o f))
  BY <1>1 DEF Pending, InHand
<1>3. refs[s] \in Seq(Item) /\ InHand(s) \in Seq(Item) /\ queue[s] \in Seq(Item)
  BY PendingParts
<1>4. refs[s] \o (InHand(s) \o (queue[s] \o f)) = (refs[s] \o (InHand(s) \o queue[s])) \o f
  <2>1. InHand(s) \o (queue[s] \o f) = (InHand(s) \o queue[s]) \o f
    BY ONLY <1>3, f \in Seq(Item), ConcatRegroups, Zenon
  <2>2. InHand(s) \o queue[s] \in Seq(Item)
    BY ONLY <1>3
  <2>3. PICK x : x = InHand(s) \o queue[s]
    OBVIOUS
  <2>4. refs[s] \o (x \o f) = (refs[s] \o x) \o f
    <3>1. x \in Seq(Item)
      BY ONLY <2>2, <2>3
    <3>2. refs[s] \in Seq(Item)
      BY ONLY <1>3
    <3> QED BY ONLY <3>1, <3>2, f \in Seq(Item), ConcatRegroups, Zenon
  <2> QED BY ONLY <2>1, <2>3, <2>4
<1>5. Pending'[s] \in Seq(Item) /\ IsPrefix(Pending[s], Pending'[s])
  <2>1. Pending'[s] = Pending[s] \o f /\ Pending[s] \in Seq(Item)
    BY <1>2, <1>4, PendingParts
  <2> QED BY <2>1, PrefixOfConcat
<1>6. Pending' = [Pending EXCEPT ![s] = Pending'[s]]
  BY DEF Enqueue, DataInv, Pending
<1>7. UNCHANGED captured
  OBVIOUS
<1> QED BY <1>5, <1>6, <1>7 DEF Merge!Put, IsPrefix, Merge!IsPrefix

\* What a driver takes from its queue stays in the stream.
LEMMA OfferMerges == ASSUME DataInv, NEW s \in Stream, Offer(s) PROVE UNCHANGED <<Pending, captured>>
<1>1. /\ hand[s] = NoItem /\ queue[s] # <<>> /\ queue[s] \in Seq(Item)
      /\ hand' = [hand EXCEPT ![s] = Head(queue[s])] /\ queue' = [queue EXCEPT ![s] = Tail(@)]
      /\ UNCHANGED <<refs, captured>>
  BY DEF Offer, DataInv, lists
<1>2. Head(queue[s]) # NoItem /\ <<Head(queue[s])>> \o Tail(queue[s]) = queue[s]
  <2>1. Head(queue[s]) \in Item
    BY <1>1
  <2> QED BY <1>1, <2>1, NoItemAssumption DEF Item
<1>3. <<>> \o queue[s] = queue[s]
  BY <1>1
<1>4. hand'[s] = Head(queue[s]) /\ queue'[s] = Tail(queue[s])
  BY <1>1 DEF DataInv
<1>5. Pending'[s] = Pending[s]
  <2>1. Pending'[s] = refs[s] \o (<<Head(queue[s])>> \o Tail(queue[s]))
    BY <1>1, <1>2, <1>4 DEF Pending
  <2>2. Pending[s] = refs[s] \o (<<>> \o queue[s])
    BY <1>1 DEF Pending
  <2> QED BY <1>2, <1>3, <2>1, <2>2
<1>6. \A r \in Stream \ {s} : Pending'[r] = Pending[r]
  BY <1>1 DEF Pending, DataInv
<1>7. Pending' = Pending
  BY <1>5, <1>6 DEF Pending
<1> QED BY <1>1, <1>7

\* What a stream has outside the design.
Rest(s) == InHand(s) \o queue[s]

LEMMA RestParts ==
    ASSUME DataInv, NEW s \in Stream
    PROVE  /\ Rest(s) \in Seq(Item) /\ <<>> \o Rest(s) = Rest(s)
           /\ Pending[s] = refs[s] \o Rest(s)
           /\ \A x \in Item : /\ <<x>> \o Rest(s) # <<>>
                              /\ Head(<<x>> \o Rest(s)) = x /\ Tail(<<x>> \o Rest(s)) = Rest(s)
<1>1. PICK q \in Seq(Item) : q = Rest(s)
  <2>1. InHand(s) \in Seq(Item) /\ queue[s] \in Seq(Item)
    BY PendingParts
  <2>2. InHand(s) \o queue[s] \in Seq(Item)
    BY <2>1
  <2> QED BY <2>2 DEF Rest
<1>2. <<>> \o q = q
  BY <1>1
<1>3. ASSUME NEW x \in Item
      PROVE  <<x>> \o q # <<>> /\ Head(<<x>> \o q) = x /\ Tail(<<x>> \o q) = q
  BY <1>1
<1>4. Pending[s] = refs[s] \o Rest(s)
  BY PendingParts DEF Rest
<1> QED BY <1>1, <1>2, <1>3, <1>4

\* An edge takes what is accepted from the hand, and nothing else.
LEMMA RestAfterEdge ==
    ASSUME DataInv, Edge, NEW s \in Stream
    PROVE  /\ s \notin Accepted => Rest(s)' = Rest(s)
           /\ s \in Accepted => Rest(s)' = queue[s] /\ Rest(s) = <<hand[s]>> \o queue[s]
<1>1. /\ hand'[s] = IF s \notin Accepted THEN hand[s]
                    ELSE IF queue[s] = <<>> THEN NoItem ELSE Head(queue[s])
      /\ queue'[s] = IF s \in Accepted /\ queue[s] # <<>> THEN Tail(queue[s]) ELSE queue[s]
  BY DEF Edge, DriveNext
<1>2. CASE s \notin Accepted
  BY <1>1, <1>2 DEF Rest, InHand
<1>3. CASE s \in Accepted
  <2>1. Rest(s) = <<hand[s]>> \o queue[s]
    BY <1>3 DEF Accepted, Valid, Rest, InHand
  <2>2. queue[s] \in Seq(Item)
    BY DEF DataInv
  <2>3. CASE queue[s] = <<>>
    <3>1. Rest(s)' = <<>> \o <<>>
      BY <1>1, <1>3, <2>3 DEF Rest, InHand
    <3> QED BY <1>3, <2>1, <2>3, <3>1
  <2>4. CASE queue[s] # <<>>
    <3>1. Head(queue[s]) \in Item /\ <<Head(queue[s])>> \o Tail(queue[s]) = queue[s]
      BY <2>2, <2>4
    <3>2. Rest(s)' = <<Head(queue[s])>> \o Tail(queue[s])
      BY <1>1, <1>3, <2>4, <3>1, NoItemAssumption DEF Rest, InHand, Item
    <3> QED BY <1>3, <2>1, <3>1, <3>2
  <2> QED BY <2>3, <2>4
<1> QED BY <1>2, <1>3

\* At an edge the oldest item of a stream comes out, or none does.
LEMMA EdgeMerges ==
    ASSUME DataInv, Edge
    PROVE  UNCHANGED <<Pending, captured>> \/ \E s \in Stream : Merge!Take(s)
<1>1. captured' = IF Capture THEN Append(captured, reg) ELSE captured
  BY DEF Edge, Compare
<1>2. DataInv'
  BY EdgeData
<1>3. ASSUME NEW s \in Stream PROVE Pending'[s] = refs'[s] \o Rest(s)'
  BY <1>2 DEF Pending, Rest, InHand
<1>4. CASE ~Loadable
  <2>1. ~ready /\ Accepted = {} /\ reg' = reg
    BY <1>4, RegisterIs
  <2>2. ASSUME NEW s \in Stream PROVE Pending'[s] = Pending[s]
    <3>1. refs'[s] = refs[s]
      BY <2>1, RefsAre DEF DataInv
    <3>2. Rest(s)' = Rest(s)
      BY <2>1, RestAfterEdge
    <3> QED BY <1>3, <3>1, <3>2, RestParts
  <2>3. Pending' = Pending
    BY <2>2 DEF Pending
  <2> QED BY <1>1, <2>1, <2>3 DEF Capture
<1>5. CASE Loadable
  <2>1. Capture <=> reg # NoItem
    BY <1>5 DEF Loadable, Capture
  <2>2. ASSUME NEW s \in Stream PROVE Pending'[s] = Rest(s)
    <3>1. CASE s \in Accepted
      <4>1. refs'[s] = <<hand[s]>>
        BY <1>5, <3>1, RegisterIs, RefsAre
      <4> QED BY <1>3, <3>1, <4>1, RestAfterEdge
    <3>2. CASE s \notin Accepted
      <4>1. reg' \notin Own(s)
        BY <1>5, <3>2, RegisterIs, NoItemAssumption DEF Own
      <4>2. refs'[s] = <<>>
        BY <4>1, RefsAre
      <4> QED BY <1>3, <3>2, <4>2, RestAfterEdge, RestParts
    <3> QED BY <3>1, <3>2
  <2>3. CASE reg = NoItem
    <3>1. ASSUME NEW s \in Stream PROVE Pending[s] = Rest(s)
      <4>1. refs[s] = <<>>
        BY <2>3, NoItemAssumption DEF DataInv, Own
      <4> QED BY <4>1, RestParts
    <3>2. Pending' = Pending
      BY <2>2, <3>1 DEF Pending
    <3> QED BY <1>1, <2>1, <2>3, <3>2
  <2>4. CASE reg # NoItem
    <3>1. PICK r \in Stream : reg \in Own(r)
      BY <2>4 DEF DataInv, Item, Own
    <3>2. refs[r] = <<reg>> /\ reg \in Item
      BY <2>4, <3>1 DEF DataInv
    <3>3. Pending[r] # <<>> /\ Head(Pending[r]) = reg /\ Tail(Pending[r]) = Rest(r)
      BY <3>1, <3>2, RestParts
    <3>4. ASSUME NEW s \in Stream, s # r PROVE Pending[s] = Rest(s)
      <4>1. refs[s] = <<>>
        BY <3>1, <3>4 DEF DataInv, Own
      <4> QED BY <4>1, RestParts
    <3>5. Pending' = [Pending EXCEPT ![r] = Tail(@)]
      BY <2>2, <3>1, <3>3, <3>4 DEF Pending
    <3>6. captured' = Append(captured, Head(Pending[r]))
      BY <1>1, <2>1, <2>4, <3>3
    <3>7. Merge!Take(r)
      BY <3>1, <3>3, <3>5, <3>6 DEF Merge!Take
    <3> QED BY <3>1, <3>7
  <2> QED BY <2>3, <2>4
<1> QED BY <1>4, <1>5

LEMMA StepMerges ==
    DataInv /\ [BenchNext]_bvars => [Merge!MergeNext]_<<Pending, captured>>
<1> SUFFICES ASSUME DataInv, [BenchNext]_bvars
             PROVE  UNCHANGED <<Pending, captured>> \/ Merge!MergeNext
  OBVIOUS
<1>1. CASE UNCHANGED bvars
  BY <1>1 DEF bvars, dut, lists, counts, Pending
<1>2. CASE Load
  <2>1. PICK s \in Stream : Enqueue(s, 1)
    BY <1>2, LoadEnqueues
  <2>2. UNCHANGED <<hand, refs, captured>>
    BY <1>2 DEF Load
  <2> QED BY <2>1, <2>2, EnqueueMerges DEF Merge!MergeNext
<1>3. CASE \E s \in Stream : Offer(s)
  BY <1>3, OfferMerges
<1>4. ASSUME NEW c \in Ctx, SeqStep(c)
      PROVE  UNCHANGED <<Pending, captured>> \/ Merge!MergeNext
  <2>1. UNCHANGED <<hand, refs, captured>>
    BY <1>4, BetweenEdges, SeqEnqueues
  <2>2. CASE UNCHANGED <<count, queue>>
    BY <2>1, <2>2 DEF Pending
  <2>3. CASE \E s \in Stream, n \in Nat : Enqueue(s, n)
    BY <2>1, <2>3, EnqueueMerges DEF Merge!MergeNext
  <2> QED BY <1>4, <2>2, <2>3, SeqEnqueues
<1>5. CASE Edge
  BY <1>5, EdgeMerges DEF Merge!MergeNext
<1> QED BY <1>1, <1>2, <1>3, <1>4, <1>5 DEF BenchNext

\* Two drivers, the arbiter and the monitor together are a merge of the two
\* streams: nothing that was enqueued is lost, repeated, changed or overtaken
\* within its stream, and the references are those of what is in the design.
THEOREM BenchMerges == BenchSpec => MergesStreams
<1>1. BenchInit => Merge!MergeInit
  <2> SUFFICES ASSUME BenchInit PROVE Merge!MergeInit
    OBVIOUS
  <2>1. \A s \in Stream : Pending[s] = <<>> \o (<<>> \o <<>>)
    BY DEF BenchInit, Pending
  <2>2. Pending = [s \in Stream |-> <<>>]
    BY <2>1 DEF Pending
  <2> QED BY <2>2 DEF BenchInit, Merge!MergeInit
<1>2. StreamInv /\ [BenchNext]_bvars => [Merge!MergeNext]_<<Pending, captured>>
  BY StepMerges DEF StreamInv
<1> QED BY <1>1, <1>2, StreamInvariant, PTL DEF BenchSpec, MergesStreams, Merge!MergeSpec

-----------------------------------------------------------------------------
(* Bursts *)

\* Who is in a lock context has the locks it needs, and a burst that is on its
\* way is in its lock context.
LockInv ==
    /\ holder \in [Stream -> Ctx \cup {NoCtx}]
    /\ stage \in [Ctx -> {"outside", "waiting", "inside"}]
    /\ wants \in [Ctx -> SUBSET Stream]
    /\ phase \in [Ctx -> Phases] /\ left \in [Ctx -> Nat]
    /\ \A c \in Ctx : stage[c] # "outside" => wants[c] = Needs(c)
    /\ \A c \in Ctx : stage[c] = "inside" => \A l \in Needs(c) : holder[l] = c
    /\ \A c \in Ctx : phase[c] # "off" => c \in Burst /\ stage[c] = "inside"
    /\ test = "random" => \A c \in Ctx : left[c] = 0 /\ stage[c] = "outside"

\* While a burst is on its way there is at most one item of the other stream
\* ahead of it, the one in the hand of the other driver.
BurstInv ==
    /\ intruders \in {0, 1}
    /\ \A c \in Burst :
          /\ phase[c] \in {"go", "burst"} => queue[Other(On[c])] = <<>>
          /\ phase[c] = "burst" /\ Valid(Other(On[c])) => intruders = 0

LEMMA NeedsLocks ==
    ASSUME NEW c \in Ctx
    PROVE  Needs(c) \subseteq Stream /\ On[c] \in Needs(c)
BY OnAssumption DEF Needs

LEMMA InitLocks == BenchInit => LockInv /\ BurstInv
<1> SUFFICES ASSUME BenchInit PROVE LockInv /\ BurstInv
  OBVIOUS
<1>1. /\ holder = [l \in Stream |-> NoCtx] /\ stage = [c \in Ctx |-> "outside"]
      /\ wants = [c \in Ctx |-> {}] /\ phase = [c \in Ctx |-> "off"] /\ intruders = 0
      /\ left = [c \in Ctx |-> IF test = "random" THEN 0
                                ELSE IF c \in Traffic THEN Length ELSE 1]
  BY LockAssumption DEF BenchInit, AtomicInit
<1>2. left \in [Ctx -> Nat]
  BY <1>1, LengthAssumption
<1>3. LockInv
  BY <1>1, <1>2 DEF LockInv, Phases
<1>4. BurstInv
  BY <1>1, CtxAssumption DEF BurstInv
<1> QED BY <1>3, <1>4

LEMMA RequestLocks == ASSUME LockInv, NEW c \in Ctx, Request(c) PROVE LockInv'
<1>1. /\ left[c] > 0 /\ stage[c] = "outside" /\ stage' = [stage EXCEPT ![c] = "waiting"]
      /\ wants' = [wants EXCEPT ![c] = Needs(c)] /\ left' = [left EXCEPT ![c] = @ - 1]
      /\ UNCHANGED <<holder, phase, test>>
  BY DEF Request, Ask
<1>2. left[c] \in Nat /\ left[c] - 1 \in Nat /\ left[c] # 0
  BY <1>1 DEF LockInv
<1>3. left' \in [Ctx -> Nat] /\ wants' \in [Ctx -> SUBSET Stream]
  BY <1>1, <1>2, NeedsLocks DEF LockInv
<1>4. test # "random"
  BY <1>2 DEF LockInv
<1> QED BY <1>1, <1>3, <1>4 DEF LockInv

LEMMA GrantedLocks == ASSUME LockInv, NEW c \in Ctx, Granted(c) PROVE LockInv'
<1>1. /\ stage[c] = "waiting" /\ stage' = [stage EXCEPT ![c] = "inside"]
      /\ \A l \in wants[c] : holder[l] = NoCtx
      /\ holder' = [l \in Stream |-> IF l \in wants[c] THEN c ELSE holder[l]]
      /\ phase' = IF c \in Burst THEN [phase EXCEPT ![c] = "idle1"] ELSE phase
      /\ UNCHANGED <<wants, left, test>>
  BY LockAssumption DEF Granted, Answer
<1>2. wants[c] = Needs(c) /\ test # "random" /\ phase[c] = "off"
  BY <1>1 DEF LockInv
<1>3. ASSUME NEW d \in Ctx, stage'[d] = "inside", NEW l \in Needs(d) PROVE holder'[l] = d
  <2>1. l \in Stream
    BY NeedsLocks
  <2>2. CASE d = c
    BY <1>1, <1>2, <2>1, <2>2
  <2>3. CASE d # c
    <3>1. holder[l] = d /\ d # NoCtx
      BY <1>1, <1>3, <2>3, HolderAssumption DEF LockInv
    <3> QED BY <1>1, <2>1, <3>1
  <2> QED BY <2>2, <2>3
<1>4. holder' \in [Stream -> Ctx \cup {NoCtx}] /\ phase' \in [Ctx -> Phases]
  BY <1>1 DEF LockInv, Phases
<1>5. \A d \in Ctx : phase'[d] # "off" => d \in Burst /\ stage'[d] = "inside"
  BY <1>1, <1>2 DEF LockInv
<1> QED BY <1>1, <1>2, <1>3, <1>4, <1>5 DEF LockInv

\* Leaving gives back the locks of one sequence only.
LEMMA LeaveLocks ==
    ASSUME LockInv, NEW c \in Ctx, Leave(c), UNCHANGED <<left, test>>,
           \/ phase[c] = "off" /\ UNCHANGED phase
           \/ phase' = [phase EXCEPT ![c] = "off"]
    PROVE  LockInv'
<1>1. /\ stage[c] = "inside" /\ stage' = [stage EXCEPT ![c] = "outside"]
      /\ holder' = [l \in Stream |-> IF holder[l] = c THEN NoCtx ELSE holder[l]]
      /\ UNCHANGED wants
  BY LockAssumption DEF Leave
<1>2. test # "random"
  BY <1>1 DEF LockInv
<1>3. ASSUME NEW d \in Ctx, stage'[d] = "inside", NEW l \in Needs(d) PROVE holder'[l] = d
  <2>1. l \in Stream /\ d # c /\ stage[d] = "inside"
    BY <1>1, <1>3, NeedsLocks DEF LockInv
  <2> QED BY <1>1, <2>1 DEF LockInv
<1>4. holder' \in [Stream -> Ctx \cup {NoCtx}] /\ phase' \in [Ctx -> Phases]
  BY <1>1 DEF LockInv, Phases
<1>5. \A d \in Ctx : phase'[d] # "off" => d \in Burst /\ stage'[d] = "inside" /\ phase[d] # "off"
  BY <1>1 DEF LockInv
<1> QED BY <1>1, <1>2, <1>3, <1>4, <1>5 DEF LockInv

\* The driver of s is idle before an edge or after it.
IdleAround(s) == ~Busy(queue[s], hand[s]) \/ ~Busy(queue'[s], hand'[s])

\* Of an edge a burst sees only that its driver is idle.
LEMMA EdgePhases ==
    ASSUME LockInv, Edge
    PROVE  /\ phase' \in [Ctx -> Phases]
           /\ \A c \in Ctx :
                /\ phase'[c] = "off" <=> phase[c] = "off"
                /\ phase'[c] = "burst" => phase[c] = "burst"
                /\ phase'[c] = "go" => phase[c] \in {"go", "idle2"}
                /\ phase'[c] = "go" /\ phase[c] = "idle2" => IdleAround(Other(On[c]))
<1>1. PICK first \in BOOLEAN :
        phase' = [c \in Ctx |->
            IF phase[c] \in DOMAIN AfterIdle
               /\ LET s == Awaited(c)
                  IN  ~(IF first THEN Busy(queue[s], hand[s]) ELSE Busy(queue'[s], hand'[s]))
            THEN AfterIdle[phase[c]] ELSE phase[c]]
  BY DEF Edge, Idle
<1>2. /\ DOMAIN AfterIdle = {"idle1", "idle2", "burst"}
      /\ AfterIdle["idle1"] = "idle2" /\ AfterIdle["idle2"] = "go" /\ AfterIdle["burst"] = "leave"
  BY DEF AfterIdle
<1>3. ASSUME NEW c \in Ctx
      PROVE  \/ phase'[c] = phase[c]
             \/ phase[c] = "idle1" /\ phase'[c] = "idle2"
             \/ phase[c] = "burst" /\ phase'[c] = "leave"
             \/ /\ phase[c] = "idle2" /\ phase'[c] = "go"
                /\ IdleAround(Other(On[c]))
  BY <1>1, <1>2 DEF Awaited, IdleAround
<1>4. phase \in [Ctx -> Phases]
  BY DEF LockInv
<1>5. phase' \in [Ctx -> Phases]
  <2>1. ASSUME NEW c \in Ctx PROVE phase'[c] \in Phases
    BY <1>3, <1>4 DEF Phases
  <2> QED BY <1>1, <2>1
<1> QED BY <1>3, <1>5

LEMMA StepLocks == ASSUME LockInv, [BenchNext]_bvars PROVE LockInv'
<1>1. CASE UNCHANGED bvars
  BY <1>1 DEF bvars, avars, LockInv
<1>2. CASE Load \/ \E s \in Stream : Offer(s)
  <2>1. UNCHANGED <<avars, test, left, phase>>
    BY <1>2 DEF Load, Offer
  <2> QED BY <2>1 DEF avars, LockInv
<1>3. CASE Edge
  <2>1. UNCHANGED <<avars, test, left>>
    BY <1>3 DEF Edge
  <2> QED BY <1>3, <2>1, EdgePhases DEF avars, LockInv
<1>4. ASSUME NEW c \in Ctx, SeqStep(c) PROVE LockInv'
  <2>1. CASE Request(c)
    BY <2>1, RequestLocks
  <2>2. CASE Granted(c)
    BY <2>2, GrantedLocks
  <2>3. CASE OnePacket(c)
    <3>1. phase[c] = "off"
      BY <2>3, CtxAssumption DEF OnePacket, LockInv
    <3> QED BY <2>3, <3>1, LeaveLocks DEF OnePacket
  <2>4. CASE WholeBurst(c)
    <3>1. /\ UNCHANGED <<avars, test, left>> /\ phase' = [phase EXCEPT ![c] = "burst"]
          /\ phase[c] # "off"
      BY <2>4 DEF WholeBurst
    <3> QED BY <3>1 DEF avars, LockInv, Phases
  <2>5. CASE BurstOver(c)
    BY <2>5, LeaveLocks DEF BurstOver
  <2> QED BY <1>4, <2>1, <2>2, <2>3, <2>4, <2>5 DEF SeqStep
<1> QED BY <1>1, <1>2, <1>3, <1>4 DEF BenchNext

\* Two bursts are never on their way together, and no traffic is in its lock
\* context while one is.
LEMMA BurstAlone ==
    ASSUME LockInv, NEW c \in Ctx, phase[c] # "off", NEW d \in Ctx, stage[d] = "inside"
    PROVE  c = d
<1>1. c \in Burst /\ stage[c] = "inside" /\ Needs(c) = Stream
  BY DEF LockInv, Needs
<1>2. On[d] \in Stream /\ On[d] \in Needs(d)
  BY OnAssumption, NeedsLocks
<1>3. holder[On[d]] = c /\ holder[On[d]] = d
  BY <1>1, <1>2 DEF LockInv
<1> QED BY <1>3

\* Steps that touch neither queue nor hand, nor start a burst.
LEMMA QuietBurst ==
    ASSUME BurstInv, UNCHANGED <<queue, hand, intruders>>,
           \A c \in Burst : phase'[c] \in {"go", "burst"} => phase'[c] = phase[c]
    PROVE  BurstInv'
BY DEF BurstInv, Valid

LEMMA OtherStream ==
    ASSUME NEW c \in Ctx
    PROVE  On[c] \in Stream /\ Other(On[c]) \in Stream /\ Other(On[c]) # On[c]
BY OnAssumption DEF Other, Stream

LEMMA SeqBurst ==
    ASSUME LockInv, DataInv, BurstInv, NEW c \in Ctx, SeqStep(c) PROVE BurstInv'
<1>1. CASE Request(c)
  <2>1. UNCHANGED <<queue, hand, intruders, phase>>
    BY <1>1 DEF Request, counts
  <2> QED BY <2>1, QuietBurst
<1>2. CASE Granted(c)
  <2>1. /\ UNCHANGED <<queue, hand, intruders>>
        /\ phase' = IF c \in Burst THEN [phase EXCEPT ![c] = "idle1"] ELSE phase
    BY <1>2 DEF Granted, counts
  <2>2. \A d \in Burst : phase'[d] \in {"go", "burst"} => phase'[d] = phase[d]
    BY <2>1, CtxAssumption DEF LockInv
  <2> QED BY <2>1, <2>2, QuietBurst
<1>3. CASE OnePacket(c)
  <2>1. UNCHANGED <<phase, intruders>> /\ stage[c] = "inside" /\ c \notin Burst
    BY <1>3, CtxAssumption DEF OnePacket, counts, Leave
  <2>2. \A d \in Burst : phase[d] = "off"
    BY <2>1, BurstAlone, CtxAssumption
  <2> QED BY <2>1, <2>2 DEF BurstInv
<1>4. CASE WholeBurst(c)
  <2>1. /\ phase[c] = "go" /\ Enqueue(On[c], Length) /\ UNCHANGED hand
        /\ phase' = [phase EXCEPT ![c] = "burst"] /\ intruders' = 0
    BY <1>4 DEF WholeBurst
  <2>2. c \in Burst /\ queue[Other(On[c])] = <<>>
    BY <2>1 DEF BurstInv, LockInv
  <2>3. queue'[Other(On[c])] = <<>>
    BY <2>1, <2>2, OtherStream DEF Enqueue, DataInv
  <2>4. ASSUME NEW d \in Burst, d # c PROVE phase'[d] = "off"
    <3>1. phase[d] = "off"
      BY <2>1, <2>4, BurstAlone, CtxAssumption DEF LockInv
    <3> QED BY <2>1, <2>4, <3>1, CtxAssumption DEF LockInv
  <2> QED BY <2>1, <2>3, <2>4 DEF BurstInv
<1>5. CASE BurstOver(c)
  <2>1. UNCHANGED <<queue, hand, intruders>> /\ phase' = [phase EXCEPT ![c] = "off"]
    BY <1>5 DEF BurstOver, counts
  <2>2. \A d \in Burst : phase'[d] \in {"go", "burst"} => phase'[d] = phase[d]
    BY <2>1, CtxAssumption DEF LockInv
  <2> QED BY <2>1, <2>2, QuietBurst
<1> QED BY <1>1, <1>2, <1>3, <1>4, <1>5 DEF SeqStep

\* An empty queue stays empty at an edge, and its hand becomes empty when the
\* item is accepted; an idle driver has an empty queue.
LEMMA EdgeQueues ==
    ASSUME DataInv, Edge, NEW s \in Stream
    PROVE  /\ queue[s] = <<>> => queue'[s] = <<>>
           /\ queue[s] = <<>> /\ s \in Accepted => ~Valid(s)'
           /\ s \notin Accepted => hand'[s] = hand[s]
           /\ IdleAround(s) => queue'[s] = <<>>
<1>1. /\ hand'[s] = IF s \notin Accepted THEN hand[s]
                    ELSE IF queue[s] = <<>> THEN NoItem ELSE Head(queue[s])
      /\ queue'[s] = IF s \in Accepted /\ queue[s] # <<>> THEN Tail(queue[s]) ELSE queue[s]
  BY DEF Edge, DriveNext
<1>2. hand[s] = NoItem => queue[s] = <<>>
  BY DEF Edge, Settled
<1>3. queue[s] # <<>> => Head(queue[s]) \in Item
  BY DEF DataInv
<1>4. queue[s] # <<>> => Head(queue[s]) # NoItem
  BY <1>3, NoItemAssumption DEF Item
<1> QED BY <1>1, <1>2, <1>4 DEF IdleAround, Busy, Valid

LEMMA EdgeBurst == ASSUME LockInv, DataInv, BurstInv, Edge PROVE BurstInv'
<1> DEFINE meets == \E c \in Burst : phase[c] = "burst" /\ Other(On[c]) \in Accepted
<1>1. intruders' = IF meets THEN intruders + 1 ELSE intruders
  BY DEF Edge
<1>2. ASSUME meets PROVE intruders = 0
  BY <1>2 DEF BurstInv, Accepted
<1>3. intruders' \in {0, 1}
  BY <1>1, <1>2 DEF BurstInv
<1>4. ASSUME NEW c \in Burst, phase'[c] \in {"go", "burst"}
      PROVE  queue'[Other(On[c])] = <<>>
  <2>1. c \in Ctx /\ Other(On[c]) \in Stream
    BY OtherStream, CtxAssumption
  <2>2. CASE phase[c] \in {"go", "burst"}
    BY <2>1, <2>2, EdgeQueues DEF BurstInv
  <2>3. CASE phase[c] \notin {"go", "burst"}
    BY <1>4, <2>1, <2>3, EdgePhases, EdgeQueues
  <2> QED BY <2>2, <2>3
<1>5. ASSUME NEW c \in Burst, phase'[c] = "burst", Valid(Other(On[c]))'
      PROVE  intruders' = 0
  <2>1. c \in Ctx /\ Other(On[c]) \in Stream /\ phase[c] = "burst"
    BY <1>5, OtherStream, EdgePhases, CtxAssumption
  <2>2. queue[Other(On[c])] = <<>>
    BY <2>1 DEF BurstInv
  <2>3. Other(On[c]) \notin Accepted
    BY <1>5, <2>1, <2>2, EdgeQueues
  <2>4. intruders = 0
    BY <1>5, <2>1, <2>3, EdgeQueues DEF BurstInv, Valid
  <2>5. ~meets
    <3> SUFFICES ASSUME NEW d \in Burst, phase[d] = "burst", Other(On[d]) \in Accepted
                 PROVE  FALSE
      OBVIOUS
    <3>1. d \in Ctx /\ stage[d] = "inside"
      BY CtxAssumption DEF LockInv
    <3>2. c = d
      BY <2>1, <3>1, BurstAlone
    <3> QED BY <2>3, <3>2
  <2> QED BY <1>1, <2>4, <2>5
<1> QED BY <1>3, <1>4, <1>5 DEF BurstInv

LEMMA StepBurst ==
    ASSUME LockInv, DataInv, BurstInv, [BenchNext]_bvars PROVE BurstInv'
<1>1. CASE UNCHANGED bvars
  BY <1>1, QuietBurst DEF bvars, counts
<1>2. CASE Load
  <2>1. test = "random" /\ UNCHANGED <<phase, intruders>>
    BY <1>2 DEF Load, Loaded, counts
  <2>2. \A c \in Burst : phase[c] = "off"
    BY <2>1, CtxAssumption DEF LockInv
  <2> QED BY <2>1, <2>2 DEF BurstInv
<1>3. ASSUME NEW s \in Stream, Offer(s) PROVE BurstInv'
  <2>1. /\ queue[s] # <<>> /\ hand' = [hand EXCEPT ![s] = Head(queue[s])]
        /\ queue' = [queue EXCEPT ![s] = Tail(@)] /\ UNCHANGED <<phase, intruders>>
    BY <1>3 DEF Offer, counts
  <2>2. ASSUME NEW c \in Burst, phase[c] \in {"go", "burst"}
        PROVE  queue'[Other(On[c])] = <<>> /\ hand'[Other(On[c])] = hand[Other(On[c])]
    <3>1. Other(On[c]) \in Stream /\ Other(On[c]) # s
      BY <2>1, <2>2, OtherStream, CtxAssumption DEF BurstInv
    <3> QED BY <2>1, <2>2, <3>1 DEF BurstInv, DataInv
  <2> QED BY <2>1, <2>2 DEF BurstInv, Valid
<1> QED BY <1>1, <1>2, <1>3, SeqBurst, EdgeBurst DEF BenchNext

\* A burst that locks both drivers and waits for them to be idle is disturbed
\* by one item of the other stream at most, however many sequences contend.
THEOREM BurstsNearlyAlone == BenchSpec => []BurstNearlyAlone
<1> DEFINE Inv == StreamInv /\ LockInv /\ BurstInv
<1>1. BenchInit => Inv
  BY InitStream, InitLocks
<1>2. Inv /\ [BenchNext]_bvars => Inv'
  BY StepStream, StepLocks, StepBurst DEF StreamInv
<1>3. Inv => BurstNearlyAlone
  BY DEF BurstInv, BurstNearlyAlone
<1> QED BY <1>1, <1>2, <1>3, PTL DEF BenchSpec
-----------------------------------------------------------------------------
(* The window bench: how far apart the streams get in its reference queue *)

LEMMA LeastOf ==
    ASSUME NEW S, S \subseteq Nat, S # {}
    PROVE  Min(S) \in S /\ \A y \in S : Min(S) <= y
<1>1. PICK x \in S : \A y \in S : ~ (<<y, x>> \in OpToRel(<, Nat))
  BY NatLessThanWellFounded, WFMin
<1>2. ASSUME NEW y \in S PROVE x <= y
  <2>1. x \in Nat /\ y \in Nat /\ ~ (y < x)
    BY <1>1, <1>2 DEF OpToRel
  <2> QED BY <2>1
<1> QED BY <1>2 DEF Min

\* One element less, and what is left then.
LEMMA Removed ==
    ASSUME NEW S, NEW s \in Seq(S), NEW i \in 1 .. Len(s)
    PROVE  RemoveAt(s, i) \in Seq(S) /\ Len(RemoveAt(s, i)) = Len(s) - 1
<1> DEFINE a == SubSeq(s, 1, i - 1)
           b == SubSeq(s, i + 1, Len(s))
<1>1. Len(s) \in Nat /\ i \in Nat /\ \A j \in 1 .. Len(s) : s[j] \in S
  OBVIOUS
<1>2. a \in Seq(S) /\ Len(a) = i - 1
  <2>1. \A j \in 1 .. i - 1 : s[j] \in S
    BY <1>1
  <2>2. a \in Seq(S) /\ Len(a) = IF 1 <= i - 1 THEN (i - 1) - 1 + 1 ELSE 0
    BY <1>1, <2>1, SubSeqProperties
  <2> QED BY <1>1, <2>2
<1>3. b \in Seq(S) /\ Len(b) = Len(s) - i
  <2>1. \A j \in i + 1 .. Len(s) : s[j] \in S
    BY <1>1
  <2>2. b \in Seq(S) /\ Len(b) = IF i + 1 <= Len(s) THEN Len(s) - (i + 1) + 1 ELSE 0
    BY <1>1, <2>1, SubSeqProperties
  <2> QED BY <1>1, <2>2
<1>4. a \o b \in Seq(S) /\ Len(a \o b) = Len(a) + Len(b)
  BY <1>2, <1>3, ConcatProperties
<1>5. RemoveAt(s, i) = a \o b
  BY DEF RemoveAt
<1> HIDE DEF a, b
<1>6. Len(a \o b) = Len(s) - 1
  BY <1>1, <1>2, <1>3, <1>4
<1> QED BY <1>4, <1>5, <1>6

LEMMA RemovedElements ==
    ASSUME NEW S, NEW s \in Seq(S), NEW i \in 1 .. Len(s)
    PROVE  \A j \in 1 .. Len(s) - 1 : RemoveAt(s, i)[j] = IF j < i THEN s[j] ELSE s[j + 1]
<1> DEFINE a == SubSeq(s, 1, i - 1)
           b == SubSeq(s, i + 1, Len(s))
           n == Len(s)
<1>1. n \in Nat /\ i \in Nat /\ i >= 1 /\ i <= n /\ \A j \in 1 .. n : s[j] \in S
  OBVIOUS
<1>2. a \in Seq(S) /\ Len(a) = i - 1 /\ \A j \in 1 .. i - 1 : a[j] = s[j]
  <2>1. \A j \in 1 .. i - 1 : s[j] \in S
    BY <1>1
  <2>2. /\ a \in Seq(S) /\ Len(a) = IF 1 <= i - 1 THEN (i - 1) - 1 + 1 ELSE 0
        /\ \A j \in 1 .. (i - 1) - 1 + 1 : a[j] = s[1 + j - 1]
    BY <1>1, <2>1, SubSeqProperties
  <2> HIDE DEF a
  <2>3. Len(a) = i - 1 /\ (i - 1) - 1 + 1 = i - 1
    BY ONLY <1>1, <2>2
  <2>4. \A j \in 1 .. i - 1 : 1 + j - 1 = j
    BY ONLY <1>1
  <2> QED BY ONLY <2>2, <2>3, <2>4
<1>3. b \in Seq(S) /\ Len(b) = n - i /\ \A j \in 1 .. n - i : b[j] = s[i + j]
  <2>1. \A j \in i + 1 .. n : s[j] \in S
    BY <1>1
  <2>2. /\ b \in Seq(S) /\ Len(b) = IF i + 1 <= n THEN n - (i + 1) + 1 ELSE 0
        /\ \A j \in 1 .. n - (i + 1) + 1 : b[j] = s[(i + 1) + j - 1]
    BY <1>1, <2>1, SubSeqProperties
  <2> HIDE DEF b, n
  <2>3. Len(b) = n - i /\ n - (i + 1) + 1 = n - i
    BY ONLY <1>1, <2>2
  <2>4. \A j \in 1 .. n - i : (i + 1) + j - 1 = i + j
    BY ONLY <1>1
  <2> QED BY ONLY <2>2, <2>3, <2>4
<1>4. RemoveAt(s, i) = a \o b
  BY DEF RemoveAt
<1> HIDE DEF a, b, n
<1>5. \A j \in 1 .. Len(a) + Len(b) : (a \o b)[j] = IF j <= Len(a) THEN a[j] ELSE b[j - Len(a)]
  BY ONLY <1>2, <1>3, ConcatProperties
<1>6. ASSUME NEW j \in 1 .. n - 1
      PROVE  (a \o b)[j] = IF j < i THEN s[j] ELSE s[j + 1]
  <2>1. j \in 1 .. Len(a) + Len(b)
    BY ONLY <1>1, <1>2, <1>3, <1>6
  <2>2. CASE j < i
    <3>1. j \in 1 .. i - 1 /\ j <= Len(a)
      BY ONLY <1>1, <1>2, <1>6, <2>2
    <3> QED BY ONLY <1>2, <1>5, <2>1, <2>2, <3>1
  <2>3. CASE ~ (j < i)
    <3>1. ~ (j <= Len(a)) /\ j - Len(a) \in 1 .. n - i /\ i + (j - Len(a)) = j + 1
      BY ONLY <1>1, <1>2, <1>6, <2>3
    <3> QED BY ONLY <1>3, <1>5, <2>1, <2>3, <3>1
  <2> QED BY ONLY <2>2, <2>3
<1> QED BY ONLY <1>4, <1>6 DEF n

\* What the testcase random allows two items in the reference queue to be, the
\* first one before the second one.
InOrder(x, y) ==
    IF x[1] = y[1] THEN x[2] < y[2]
    ELSE IF x[1] = "a" THEN x[2] <= y[2] + 1 ELSE x[2] <= y[2] + 2

\* The reference queue has the items low[s] to high[s] of each stream.
Listed(e, low, high) ==
    /\ e \in Seq(Item)
    /\ \A i \in DOMAIN e : low[e[i][1]] <= e[i][2] /\ e[i][2] <= high[e[i][1]]
    /\ \A s \in Stream : \A n \in low[s] .. high[s] : \E i \in DOMAIN e : e[i] = <<s, n>>
    /\ \A i, j \in DOMAIN e : i < j => InOrder(e[i], e[j])

LEMMA ItemIs ==
    ASSUME NEW x \in Item
    PROVE  x[1] \in Stream /\ x[2] \in Nat \ {0} /\ x = <<x[1], x[2]>>
BY DEF Item

\* One more item of stream s.
LEMMA ListedMore ==
    ASSUME NEW low \in [Stream -> Nat], NEW high \in [Stream -> Nat], NEW e,
           Listed(e, low, high), NEW s \in Stream, low[s] <= high[s] + 1,
           \A r \in Stream : \A n \in low[r] .. high[r] :
              InOrder(<<r, n>>, <<s, high[s] + 1>>)
    PROVE  Listed(Append(e, <<s, high[s] + 1>>), low, [high EXCEPT ![s] = @ + 1])
<1> DEFINE x == <<s, high[s] + 1>>
           f == Append(e, x)
           up == [high EXCEPT ![s] = @ + 1]
<1>1. e \in Seq(Item) /\ Len(e) \in Nat /\ DOMAIN e = 1 .. Len(e) /\ \A i \in DOMAIN e : e[i] \in Item
  BY DEF Listed
<1>2. high[s] \in Nat /\ x \in Item /\ x[1] = s /\ x[2] = high[s] + 1
  BY DEF Item
<1>3. /\ f \in Seq(Item) /\ DOMAIN f = 1 .. Len(e) + 1 /\ f[Len(e) + 1] = x
      /\ \A i \in 1 .. Len(e) : f[i] = e[i]
  BY <1>1, <1>2
<1>4. up[s] = high[s] + 1 /\ \A r \in Stream \ {s} : up[r] = high[r]
  OBVIOUS
<1>5. \A r \in Stream : high[r] <= up[r]
  BY <1>2, <1>4
<1> HIDE DEF f, up, x
<1>6. ASSUME NEW i \in DOMAIN f PROVE low[f[i][1]] <= f[i][2] /\ f[i][2] <= up[f[i][1]]
  <2>1. CASE i \in DOMAIN e
    <3>1. e[i][1] \in Stream /\ e[i][2] \in Nat /\ f[i] = e[i]
      BY <1>1, <1>3, <2>1 DEF Item
    <3>2. low[e[i][1]] <= e[i][2] /\ e[i][2] <= high[e[i][1]]
      BY <2>1 DEF Listed
    <3>3. /\ high[e[i][1]] \in Nat /\ up[e[i][1]] \in Nat
          /\ high[e[i][1]] <= up[e[i][1]]
      BY <1>2, <1>4, <1>5, <3>1
    <3>4. e[i][2] <= up[e[i][1]]
      BY ONLY <3>1, <3>2, <3>3
    <3> QED BY <3>1, <3>2, <3>4
  <2>2. CASE i = Len(e) + 1
    BY <1>2, <1>3, <1>4, <2>2
  <2> QED BY <1>1, <1>3, <2>1, <2>2
<1>7. ASSUME NEW r \in Stream, NEW n \in low[r] .. up[r]
      PROVE  \E i \in DOMAIN f : f[i] = <<r, n>>
  <2>1. CASE n \in low[r] .. high[r]
    <3>1. PICK i \in DOMAIN e : e[i] = <<r, n>>
      BY <2>1 DEF Listed
    <3>2. i \in DOMAIN f /\ f[i] = <<r, n>>
      BY <1>1, <1>3, <3>1
    <3> QED BY <3>2
  <2>2. CASE n \notin low[r] .. high[r]
    <3>1. r = s
      BY <1>4, <2>2
    <3>2. n = high[s] + 1
      BY <1>2, <1>4, <2>2, <3>1
    <3>3. f[Len(e) + 1] = <<r, n>> /\ Len(e) + 1 \in DOMAIN f
      BY <1>1, <1>3, <3>1, <3>2 DEF x
    <3> QED BY <3>3
  <2> QED BY <2>1, <2>2
<1>8. ASSUME NEW i \in DOMAIN f, NEW j \in DOMAIN f, i < j PROVE InOrder(f[i], f[j])
  <2>1. i \in DOMAIN e /\ f[i] = e[i]
    BY <1>1, <1>3, <1>8
  <2>2. CASE j \in DOMAIN e
    BY <1>1, <1>3, <1>8, <2>1, <2>2 DEF Listed
  <2>3. CASE j = Len(e) + 1
    <3>1. PICK r \in Stream, n \in Nat \ {0} : e[i] = <<r, n>>
      <4>1. e[i] \in Item
        BY <1>1, <2>1
      <4> QED BY <4>1, ItemIs
    <3>2. n \in low[r] .. high[r]
      BY <2>1, <3>1 DEF Listed
    <3>3. InOrder(<<r, n>>, x)
      BY <3>2 DEF x
    <3> QED BY <1>3, <2>1, <2>3, <3>1, <3>3
  <2> QED BY <1>1, <1>3, <2>2, <2>3
<1>9. Listed(f, low, up)
  BY <1>3, <1>6, <1>7, <1>8 DEF Listed
<1> QED BY <1>9 DEF f, up, x

\* The first item of stream s is taken out.
LEMMA ListedLess ==
    ASSUME NEW low \in [Stream -> Nat], NEW high \in [Stream -> Nat], NEW e,
           Listed(e, low, high), NEW s \in Stream, NEW p \in 1 .. Len(e),
           e[p] = <<s, low[s]>>
    PROVE  Listed(RemoveAt(e, p), [low EXCEPT ![s] = @ + 1], high)
<1> DEFINE f == RemoveAt(e, p)
           up == [low EXCEPT ![s] = @ + 1]
<1>1. e \in Seq(Item) /\ Len(e) \in Nat /\ DOMAIN e = 1 .. Len(e) /\ \A i \in DOMAIN e : e[i] \in Item
  BY DEF Listed
<1>2. f \in Seq(Item) /\ Len(f) = Len(e) - 1
  BY <1>1, Removed
<1>3. \A j \in 1 .. Len(e) - 1 : f[j] = IF j < p THEN e[j] ELSE e[j + 1]
  BY <1>1, RemovedElements
<1>4. up[s] = low[s] + 1 /\ \A r \in Stream \ {s} : up[r] = low[r]
  OBVIOUS
<1> HIDE DEF f, up
<1>5. DOMAIN f = 1 .. Len(e) - 1
  BY <1>1, <1>2
<1> DEFINE old(j) == IF j < p THEN j ELSE j + 1
<1>6. ASSUME NEW j \in DOMAIN f
      PROVE  old(j) \in DOMAIN e /\ old(j) # p /\ f[j] = e[old(j)]
  <2>1. j \in 1 .. Len(e) - 1
    BY <1>5
  <2>2. p \in Nat /\ old(j) \in 1 .. Len(e) /\ old(j) # p
    BY <1>1, <2>1
  <2> QED BY <1>1, <1>3, <2>1, <2>2
<1>7. \A i \in DOMAIN e \ {p} : \E j \in DOMAIN f : old(j) = i
  <2> SUFFICES ASSUME NEW i \in DOMAIN e \ {p} PROVE \E j \in DOMAIN f : old(j) = i
    OBVIOUS
  <2>1. CASE i < p
    <3>1. i \in DOMAIN f /\ old(i) = i
      BY <1>1, <1>5, <2>1
    <3> QED BY <3>1
  <2>2. CASE ~ (i < p)
    <3>1. i - 1 \in DOMAIN f /\ old(i - 1) = i
      BY <1>1, <1>5, <2>2
    <3> QED BY <3>1
  <2> QED BY <2>1, <2>2
<1>8. \A i, j \in DOMAIN f : i < j => old(i) < old(j)
  BY <1>1, <1>5
<1> HIDE DEF old
<1>9. \A i \in DOMAIN e \ {p} : e[i] # <<s, low[s]>>
  <2> SUFFICES ASSUME NEW i \in DOMAIN e \ {p}, e[i] = e[p] PROVE FALSE
    OBVIOUS
  <2>1. \A j, k \in DOMAIN e : j < k => InOrder(e[j], e[k])
    BY DEF Listed
  <2>2. ~ InOrder(e[p], e[p])
    <3>1. e[p][2] \in Nat
      BY <1>1, ItemIs
    <3> QED BY <3>1 DEF InOrder
  <2>3. i \in Nat /\ p \in Nat /\ i # p
    BY <1>1
  <2>4. i < p \/ p < i
    BY ONLY <2>3
  <2>5. p \in DOMAIN e
    BY <1>1
  <2> QED BY <2>1, <2>2, <2>4, <2>5
<1>10. ASSUME NEW j \in DOMAIN f PROVE up[f[j][1]] <= f[j][2] /\ f[j][2] <= high[f[j][1]]
  <2>1. PICK i \in DOMAIN e \ {p} : f[j] = e[i]
    BY <1>6
  <2>2. PICK r \in Stream, n \in Nat : e[i] = <<r, n>>
    <3>1. e[i] \in Item
      BY <1>1
    <3> QED BY <3>1, ItemIs
  <2>3. low[r] <= n /\ n <= high[r]
    BY <2>2 DEF Listed
  <2>4. CASE r = s
    <3>1. n # low[s]
      BY <1>9, <2>2, <2>4
    <3>2. low[s] \in Nat
      OBVIOUS
    <3>3. low[s] + 1 <= n
      BY ONLY <2>2, <2>3, <2>4, <3>1, <3>2
    <3> QED BY <1>4, <2>1, <2>2, <2>3, <2>4, <3>3
  <2>5. CASE r # s
    BY <1>4, <2>1, <2>2, <2>3, <2>5
  <2> QED BY <2>4, <2>5
<1>11. ASSUME NEW r \in Stream, NEW n \in up[r] .. high[r]
       PROVE  \E j \in DOMAIN f : f[j] = <<r, n>>
  <2>1. n \in low[r] .. high[r] /\ <<r, n>> # <<s, low[s]>>
    <3>1. low[r] \in Nat /\ low[s] \in Nat /\ high[r] \in Nat
      OBVIOUS
    <3>2. CASE r = s
      BY <1>4, <3>1, <3>2
    <3>3. CASE r # s
      BY <1>4, <3>1, <3>3
    <3> QED BY <3>2, <3>3
  <2>2. PICK i \in DOMAIN e : e[i] = <<r, n>>
    BY <2>1 DEF Listed
  <2>3. i # p
    BY <2>1, <2>2
  <2>4. PICK j \in DOMAIN f : old(j) = i
    BY <1>7, <2>3
  <2>5. f[j] = <<r, n>>
    BY <1>6, <2>2, <2>4
  <2> QED BY <2>5
<1>12. \A i, j \in DOMAIN f : i < j => InOrder(f[i], f[j])
  BY <1>6, <1>8 DEF Listed
<1>13. Listed(f, up, high)
  BY <1>2, <1>10, <1>11, <1>12 DEF Listed
<1> QED BY <1>13 DEF f, up

\* Where the first item of a stream is, if the arbiter serves it in its turn.
LEMMA ListedNear ==
    ASSUME NEW low \in [Stream -> Nat], NEW high \in [Stream -> Nat], NEW e,
           Listed(e, low, high), NEW s \in Stream, low[s] <= high[s],
           \/ low[Other(s)] > high[Other(s)]
           \/ s = "a" /\ low["b"] >= low["a"]
           \/ s = "b" /\ low["a"] >= low["b"] + 1
    PROVE  \E i \in 1 .. 4 : i <= Len(e) /\ e[i] = <<s, low[s]>>
<1>1. e \in Seq(Item) /\ Len(e) \in Nat /\ DOMAIN e = 1 .. Len(e) /\ \A i \in DOMAIN e : e[i] \in Item
  BY DEF Listed
<1>2. PICK i \in DOMAIN e : e[i] = <<s, low[s]>>
  <2>1. low[s] \in low[s] .. high[s]
    OBVIOUS
  <2> QED BY <2>1 DEF Listed
<1> DEFINE o == Other(s)
<1>3. Stream = {s, o} /\ o # s /\ o \in Stream
  BY DEF Stream, Other
<1>4. ASSUME NEW j \in DOMAIN e, j < i
      PROVE  /\ e[j][1] = o /\ e[j][2] \in Nat
             /\ low[o] <= e[j][2] /\ e[j][2] <= high[o]
             /\ e[j][2] <= low[s] + (IF s = "a" THEN 2 ELSE 1)
  <2>1. PICK r \in Stream, n \in Nat : e[j] = <<r, n>>
    <3>1. e[j] \in Item
      BY <1>1
    <3> QED BY <3>1, ItemIs
  <2>2. low[r] <= n /\ n <= high[r] /\ InOrder(<<r, n>>, <<s, low[s]>>)
    <3>1. low[e[j][1]] <= e[j][2] /\ e[j][2] <= high[e[j][1]]
      BY DEF Listed
    <3>2. InOrder(e[j], e[i])
      BY <1>4 DEF Listed
    <3>3. e[j][1] = r /\ e[j][2] = n
      BY <2>1
    <3>4. InOrder(<<r, n>>, <<s, low[s]>>)
      BY <1>2, <2>1, <3>2
    <3> QED BY <3>1, <3>3, <3>4
  <2>3. r # s
    <3>1. low[s] \in Nat
      OBVIOUS
    <3> QED BY <2>1, <2>2, <3>1 DEF InOrder
  <2>4. r = o
    BY <1>3, <2>3
  <2>5. n <= low[s] + (IF s = "a" THEN 2 ELSE 1)
    BY <2>2, <2>3 DEF InOrder, Stream
  <2> QED BY <2>1, <2>2, <2>4, <2>5
<1>5. ASSUME i > 4 PROVE FALSE
  <2>1. 1 \in DOMAIN e /\ 2 \in DOMAIN e /\ 3 \in DOMAIN e /\ 4 \in DOMAIN e
    BY <1>1, <1>5
  <2>2. 1 < i /\ 2 < i /\ 3 < i /\ 4 < i
    BY <1>1, <1>5
  <2>3. InOrder(e[1], e[2]) /\ InOrder(e[2], e[3]) /\ InOrder(e[3], e[4])
    BY <2>1 DEF Listed
  <2>4. /\ e[1][1] = o /\ e[2][1] = o /\ e[3][1] = o /\ e[4][1] = o
        /\ e[1][2] \in Nat /\ e[2][2] \in Nat /\ e[3][2] \in Nat /\ e[4][2] \in Nat
        /\ low[o] <= e[1][2] /\ e[1][2] <= high[o]
        /\ e[4][2] <= low[s] + (IF s = "a" THEN 2 ELSE 1)
    BY <1>4, <2>1, <2>2
  <2>5. e[1][2] < e[2][2] /\ e[2][2] < e[3][2] /\ e[3][2] < e[4][2]
    BY <2>3, <2>4 DEF InOrder
  <2>6. PICK x, y, z, w \in Nat : x = e[1][2] /\ y = e[2][2] /\ z = e[3][2] /\ w = e[4][2]
    BY <2>4
  <2>7. x < y /\ y < z /\ z < w
    BY ONLY <2>5, <2>6
  <2>8. PICK ls, lo, h \in Nat : ls = low[s] /\ lo = low[o] /\ h = high[o]
    BY <1>3
  <2>9. lo <= x /\ x <= h /\ w <= ls + (IF s = "a" THEN 2 ELSE 1)
    BY ONLY <2>4, <2>6, <2>8
  <2>10. lo <= h
    BY ONLY <2>6, <2>8, <2>9
  <2>11. CASE s = "a"
    <3>1. lo >= ls
      BY <2>8, <2>10, <2>11 DEF Other
    <3> QED BY ONLY <2>6, <2>7, <2>8, <2>9, <2>11, <3>1
  <2>12. CASE s = "b"
    <3>1. lo >= ls + 1
      BY <2>8, <2>10, <2>12 DEF Other
    <3> QED BY ONLY <2>6, <2>7, <2>8, <2>9, <2>12, <3>1
  <2> QED BY <2>11, <2>12 DEF Stream
<1>6. i \in 1 .. 4 /\ i <= Len(e)
  BY <1>1, <1>5
<1> QED BY <1>2, <1>6

Held(s) == IF hand[s] = NoItem THEN 0 ELSE 1

\* How many items of stream s the arbiter has accepted.
Served(s) == count[s] - Len(queue[s]) - Held(s)

\* The items have their numbers, from the queue to the register.
NumberInv ==
    \A s \in Stream :
        /\ Served(s) \in Nat
        /\ \A i \in DOMAIN queue[s] : queue[s][i] = <<s, count[s] - Len(queue[s]) + i>>
        /\ hand[s] # NoItem => hand[s] = <<s, count[s] - Len(queue[s])>>
        /\ reg \in Own(s) => reg = <<s, Served(s)>>

\* Nothing moves before the whole traffic is enqueued, and the streams are
\* enqueued at about the same rate.
LoadInv ==
    /\ ~Loaded => /\ reg = NoItem /\ choice = "b"
                  /\ \A s \in Stream : hand[s] = NoItem /\ Served(s) = 0
    /\ count["b"] <= count["a"] + 3 /\ count["a"] <= count["b"] + 2

\* The streams take turns, as long as neither has ended.
TurnInv ==
    (\A s \in Stream : Served(s) < count[s]) =>
        \/ choice = "b" /\ Served("a") = Served("b")
        \/ choice = "a" /\ Served("a") = Served("b") + 1

\* The first item of each stream that has not been captured.
First == [s \in Stream |-> IF reg \in Own(s) THEN Served(s) ELSE Served(s) + 1]

WindowInv ==
    test = "random" =>
        /\ NumberInv /\ LoadInv /\ TurnInv
        /\ Listed(expected, First, count)
        /\ reg # NoItem => Matches # {}

\* The numbers are numbers.
LEMMA ServedIs ==
    ASSUME DataInv, NumberInv, NEW s \in Stream
    PROVE  /\ count[s] \in Nat /\ Len(queue[s]) \in Nat /\ Served(s) \in Nat
           /\ DOMAIN queue[s] = 1 .. Len(queue[s])
           /\ Served(s) <= count[s]
           /\ Valid(s) => Served(s) = count[s] - Len(queue[s]) - 1
           /\ ~Valid(s) => Served(s) = count[s] - Len(queue[s])
           /\ First \in [Stream -> Nat]
<1>1. count[s] \in Nat /\ queue[s] \in Seq(Item)
  BY DEF DataInv
<1>2. Len(queue[s]) \in Nat /\ DOMAIN queue[s] = 1 .. Len(queue[s])
  BY <1>1
<1>3. /\ Valid(s) => Served(s) = count[s] - Len(queue[s]) - 1
      /\ ~Valid(s) => Served(s) = count[s] - Len(queue[s]) - 0
  BY DEF Served, Held, Valid
<1>4. \A r \in Stream : Served(r) \in Nat
  BY DEF NumberInv
<1>5. PICK n \in Nat : n = Served(s)
  BY <1>4
<1>6. n <= count[s] /\ (~Valid(s) => n = count[s] - Len(queue[s]))
  BY ONLY <1>1, <1>2, <1>3, <1>5
<1>7. First \in [Stream -> Nat]
  BY <1>4 DEF First
<1> QED BY <1>1, <1>2, <1>3, <1>4, <1>5, <1>6, <1>7

LEMMA InitWindow == BenchInit => WindowInv
<1> SUFFICES ASSUME BenchInit, test = "random" PROVE WindowInv
  BY DEF WindowInv
<1>1. /\ count = [s \in Stream |-> 0] /\ queue = [s \in Stream |-> <<>>]
      /\ hand = [s \in Stream |-> NoItem] /\ choice = "b" /\ reg = NoItem /\ expected = <<>>
  BY DEF BenchInit
<1>2. \A s \in Stream : Served(s) = 0 /\ queue[s] = <<>> /\ hand[s] = NoItem /\ count[s] = 0
  BY <1>1 DEF Served, Held
<1>3. \A s \in Stream : reg \notin Own(s)
  BY <1>1, NoItemAssumption DEF Own
<1>4. NumberInv
  BY <1>2, <1>3 DEF NumberInv
<1>5. LoadInv
  BY <1>1, <1>2 DEF LoadInv, Stream
<1>6. TurnInv
  BY <1>2 DEF TurnInv, Stream
<1>7. Listed(expected, First, count)
  <2>1. \A s \in Stream : First[s] = 1
    BY <1>2, <1>3 DEF First
  <2>2. expected \in Seq(Item) /\ DOMAIN expected = {}
    BY <1>1
  <2>3. \A s \in Stream : First[s] .. count[s] = {}
    BY <1>2, <2>1
  <2> QED BY <2>2, <2>3 DEF Listed
<1> QED BY <1>1, <1>4, <1>5, <1>6, <1>7 DEF WindowInv

\* One turn of the testcase's loop.
LEMMA LoadWindow == ASSUME DataInv, WindowInv, Load PROVE WindowInv'
<1>1. PICK x \in TakeA(count["a"], count["b"]), s \in Stream :
        /\ s = (IF x THEN "a" ELSE "b")
        /\ Enqueue(s, 1) /\ expected' = expected \o Fresh(s, 1)
  BY DEF Load, Stream
<1>2. test = "random" /\ ~Loaded /\ UNCHANGED <<test, hand, choice, reg, ready>>
  BY DEF Load, Loaded, dut
<1>3. /\ NumberInv /\ LoadInv /\ TurnInv /\ Listed(expected, First, count)
      /\ reg = NoItem /\ choice = "b" /\ \A r \in Stream : hand[r] = NoItem /\ Served(r) = 0
  BY <1>2 DEF WindowInv, LoadInv
<1>4. PICK na, nb \in Nat : na = count["a"] /\ nb = count["b"]
  BY DEF DataInv, Stream
<1>5. count[s] \in Nat /\ Fresh(s, 1) = <<<<s, count[s] + 1>>>>
  BY DEF Fresh, DataInv
<1> DEFINE new == <<s, count[s] + 1>>
<1>6. new \in Item /\ expected \in Seq(Item)
  BY <1>3, <1>5 DEF Listed, Item
<1>7. expected' = Append(expected, new)
  <2>1. expected \o <<new>> = Append(expected, new)
    BY <1>6
  <2> QED BY <1>1, <1>5, <2>1
<1>8. /\ count' = [count EXCEPT ![s] = @ + 1]
      /\ queue' = [queue EXCEPT ![s] = Append(@, new)]
  <2>1. queue[s] \in Seq(Item)
    BY DEF DataInv
  <2>2. queue[s] \o <<new>> = Append(queue[s], new)
    BY <1>6, <2>1
  <2> QED BY <1>1, <1>5, <2>2 DEF Enqueue
<1>9. /\ s = "a" => na <= nb + 1
      /\ s = "b" => nb <= na + 2
  BY <1>1, <1>4 DEF TakeA
<1>10. na <= nb + 2 /\ nb <= na + 3
  BY <1>3, <1>4 DEF LoadInv
<1>11. \A r \in Stream : reg \notin Own(r)
  BY <1>3, NoItemAssumption DEF Own
<1>12. ASSUME NEW r \in Stream
       PROVE  /\ Served(r)' = 0
              /\ \A i \in DOMAIN queue'[r] : queue'[r][i] = <<r, count'[r] - Len(queue'[r]) + i>>
  <2>1. count[r] \in Nat /\ Len(queue[r]) \in Nat /\ count[r] = Len(queue[r])
    <3>1. PICK n, m \in Nat : n = count[r] /\ m = Len(queue[r])
      BY <1>3, ServedIs
    <3>2. n - m - 0 = 0
      BY <1>3, <3>1 DEF Served, Held
    <3> QED BY ONLY <3>1, <3>2
  <2>2. queue[r] \in Seq(Item) /\ \A i \in DOMAIN queue[r] : queue[r][i] = <<r, count[r] - Len(queue[r]) + i>>
    BY <1>3 DEF NumberInv, DataInv
  <2>3. \A i \in DOMAIN queue[r] : queue[r][i] = <<r, i>>
    BY <2>1, <2>2
  <2>4. /\ Len(queue'[r]) = count'[r] /\ count'[r] \in Nat
        /\ \A i \in DOMAIN queue'[r] : queue'[r][i] = <<r, i>>
    <3>1. CASE r = s
      <4>1. queue'[r] = Append(queue[r], new) /\ count'[r] = count[r] + 1
        BY <1>8, <3>1 DEF DataInv
      <4>2. /\ Len(queue'[r]) = Len(queue[r]) + 1 /\ DOMAIN queue'[r] = 1 .. Len(queue[r]) + 1
            /\ queue'[r][Len(queue[r]) + 1] = new
            /\ \A i \in 1 .. Len(queue[r]) : queue'[r][i] = queue[r][i]
        BY <1>6, <2>2, <4>1
      <4>3. new = <<r, Len(queue[r]) + 1>> /\ DOMAIN queue[r] = 1 .. Len(queue[r])
        BY <2>1, <2>2, <3>1
      <4> QED BY <2>1, <2>3, <4>1, <4>2, <4>3
    <3>2. CASE r # s
      <4>1. queue'[r] = queue[r] /\ count'[r] = count[r]
        BY <1>8, <3>2 DEF DataInv
      <4> QED BY <2>1, <2>3, <4>1
    <3> QED BY <3>1, <3>2
  <2>5. hand'[r] = NoItem
    BY <1>2, <1>3
  <2> QED BY <2>4, <2>5 DEF Served, Held
<1>13. NumberInv'
  BY <1>2, <1>3, <1>11, <1>12 DEF NumberInv
<1>14. LoadInv'
  <2>1. /\ count'["a"] = (IF s = "a" THEN na + 1 ELSE na)
        /\ count'["b"] = (IF s = "b" THEN nb + 1 ELSE nb)
    BY <1>4, <1>8 DEF DataInv, Stream
  <2>2. count'["b"] <= count'["a"] + 3 /\ count'["a"] <= count'["b"] + 2
    <3>1. s = "a" \/ s = "b"
      BY DEF Stream
    <3> QED BY ONLY <1>4, <1>9, <1>10, <2>1, <3>1
  <2> QED BY <1>2, <1>3, <1>12, <2>2 DEF LoadInv
<1>15. TurnInv'
  BY <1>2, <1>3, <1>12 DEF TurnInv, Stream
<1>16. Listed(expected', First', count')
  <2>1. First = [r \in Stream |-> 1] /\ First' = [r \in Stream |-> 1]
    BY <1>2, <1>3, <1>11, <1>12 DEF First
  <2>2. \A r \in Stream : \A n \in First[r] .. count[r] : InOrder(<<r, n>>, <<s, count[s] + 1>>)
    <3> SUFFICES ASSUME NEW r \in Stream, NEW n \in First[r] .. count[r]
                 PROVE  InOrder(<<r, n>>, <<s, count[s] + 1>>)
      OBVIOUS
    <3>1. n \in Nat /\ n <= count[r] /\ count[r] \in Nat
      BY <2>1 DEF DataInv
    <3>2. CASE r = s
      BY <3>1, <3>2 DEF InOrder
    <3>3. CASE r = "a" /\ s = "b"
      BY <1>4, <1>9, <1>10, <3>1, <3>3 DEF InOrder
    <3>4. CASE r = "b" /\ s = "a"
      BY <1>4, <1>9, <1>10, <3>1, <3>4 DEF InOrder
    <3> QED BY <3>2, <3>3, <3>4 DEF Stream
  <2>3. First \in [Stream -> Nat] /\ count \in [Stream -> Nat] /\ First[s] <= count[s] + 1
    BY <1>5, <2>1 DEF DataInv
  <2>4. Listed(Append(expected, new), First, [count EXCEPT ![s] = @ + 1])
    BY <1>3, <2>2, <2>3, ListedMore
  <2> QED BY <1>7, <1>8, <2>1, <2>4
<1> QED BY <1>2, <1>3, <1>13, <1>14, <1>15, <1>16 DEF WindowInv

\* A driver takes up its next transaction.
LEMMA OfferWindow ==
    ASSUME DataInv, WindowInv, NEW s \in Stream, Offer(s) PROVE WindowInv'
<1>1. /\ Loaded /\ hand[s] = NoItem /\ queue[s] # <<>> /\ queue[s] \in Seq(Item)
      /\ hand' = [hand EXCEPT ![s] = Head(queue[s])]
      /\ queue' = [queue EXCEPT ![s] = Tail(@)]
      /\ UNCHANGED <<test, count, choice, reg, expected>>
  BY DEF Offer, DataInv, dut, lists
<1> SUFFICES ASSUME test = "random" PROVE WindowInv'
  BY <1>1 DEF WindowInv
<1>2. /\ NumberInv /\ LoadInv /\ TurnInv /\ Listed(expected, First, count)
      /\ reg # NoItem => Matches # {}
  BY DEF WindowInv
<1>3. count[s] \in Nat /\ Len(queue[s]) \in Nat /\ Served(s) = count[s] - Len(queue[s])
  BY <1>1, <1>2, ServedIs DEF Valid
<1>4. /\ hand'[s] = Head(queue[s]) /\ queue'[s] = Tail(queue[s])
      /\ Head(queue[s]) = <<s, count[s] - Len(queue[s]) + 1>>
      /\ Head(queue[s]) # NoItem /\ Len(queue'[s]) = Len(queue[s]) - 1
      /\ DOMAIN queue'[s] = 1 .. Len(queue[s]) - 1
      /\ \A i \in 1 .. Len(queue[s]) - 1 : queue'[s][i] = queue[s][i + 1]
  <2>1. /\ Head(queue[s]) = queue[s][1] /\ 1 \in DOMAIN queue[s] /\ Head(queue[s]) \in Item
        /\ Len(Tail(queue[s])) = Len(queue[s]) - 1
        /\ DOMAIN Tail(queue[s]) = 1 .. Len(queue[s]) - 1
        /\ \A i \in 1 .. Len(queue[s]) - 1 : Tail(queue[s])[i] = queue[s][i + 1]
    BY <1>1
  <2>2. hand'[s] = Head(queue[s]) /\ queue'[s] = Tail(queue[s])
    BY <1>1 DEF DataInv
  <2>3. Head(queue[s]) = <<s, count[s] - Len(queue[s]) + 1>>
    BY <1>2, <2>1 DEF NumberInv
  <2>4. Head(queue[s]) # NoItem
    BY <2>1, NoItemAssumption DEF Item
  <2> QED BY <2>1, <2>2, <2>3, <2>4
<1>5. \A r \in Stream \ {s} : hand'[r] = hand[r] /\ queue'[r] = queue[r]
  BY <1>1 DEF DataInv
<1>6. Served(s)' = Served(s)
  <2>1. Served(s)' = count[s] - (Len(queue[s]) - 1) - 1
    BY <1>1, <1>4 DEF Served, Held
  <2> QED BY ONLY <1>3, <2>1
<1>7. \A r \in Stream : Served(r)' = Served(r)
  <2>1. ASSUME NEW r \in Stream \ {s} PROVE Served(r)' = Served(r)
    BY <1>1, <1>5 DEF Served, Held
  <2> QED BY <1>6, <2>1
<1>8. NumberInv'
  <2>1. hand'[s] = <<s, count'[s] - Len(queue'[s])>>
    BY <1>1, <1>3, <1>4
  <2>2. ASSUME NEW i \in DOMAIN queue'[s]
        PROVE  queue'[s][i] = <<s, count'[s] - Len(queue'[s]) + i>>
    <3>1. i \in 1 .. Len(queue[s]) - 1 /\ i + 1 \in DOMAIN queue[s]
      BY <1>1, <1>3, <1>4
    <3>2. queue'[s][i] = <<s, count[s] - Len(queue[s]) + (i + 1)>>
      BY <1>2, <1>4, <3>1 DEF NumberInv
    <3>3. count[s] - Len(queue[s]) + (i + 1) = count[s] - (Len(queue[s]) - 1) + i
      <4>1. \A m, n, j \in Int : m - n + (j + 1) = m - (n - 1) + j
        OBVIOUS
      <4>2. count[s] \in Int /\ Len(queue[s]) \in Int /\ i \in Int
        BY ONLY <1>3, <3>1
      <4> QED BY ONLY <4>1, <4>2
    <3> QED BY <1>1, <1>4, <3>2, <3>3
  <2>3. ASSUME NEW r \in Stream \ {s}
        PROVE  /\ \A i \in DOMAIN queue'[r] :
                    queue'[r][i] = <<r, count'[r] - Len(queue'[r]) + i>>
               /\ hand'[r] # NoItem => hand'[r] = <<r, count'[r] - Len(queue'[r])>>
    BY <1>1, <1>2, <1>5 DEF NumberInv
  <2>4. \A r \in Stream : Served(r)' \in Nat /\ (reg' \in Own(r) => reg' = <<r, Served(r)'>>)
    BY <1>1, <1>2, <1>7 DEF NumberInv
  <2> QED BY <2>1, <2>2, <2>3, <2>4 DEF NumberInv
<1>9. LoadInv' /\ TurnInv'
  BY <1>1, <1>2, <1>7 DEF LoadInv, TurnInv, Loaded, Stream
<1>10. First' = First /\ Matches' = Matches
  BY <1>1, <1>7 DEF First, Matches
<1> QED BY <1>1, <1>2, <1>8, <1>9, <1>10 DEF WindowInv

\* What an edge does to the numbers.
LEMMA EdgeServes ==
    ASSUME DataInv, NumberInv, Edge, NEW s \in Stream
    PROVE  /\ Served(s)' = IF s \in Accepted THEN Served(s) + 1 ELSE Served(s)
           /\ \A i \in DOMAIN queue'[s] : queue'[s][i] = <<s, count'[s] - Len(queue'[s]) + i>>
           /\ hand'[s] # NoItem => hand'[s] = <<s, count'[s] - Len(queue'[s])>>
           /\ s \in Accepted => hand[s] = <<s, Served(s) + 1>> /\ Served(s) < count[s]
<1>1. /\ hand'[s] = IF s \notin Accepted THEN hand[s]
                    ELSE IF queue[s] = <<>> THEN NoItem ELSE Head(queue[s])
      /\ queue'[s] = IF s \in Accepted /\ queue[s] # <<>> THEN Tail(queue[s]) ELSE queue[s]
      /\ count' = count
  BY DEF Edge, DriveNext
<1>2. /\ \A i \in DOMAIN queue[s] : queue[s][i] = <<s, count[s] - Len(queue[s]) + i>>
      /\ hand[s] # NoItem => hand[s] = <<s, count[s] - Len(queue[s])>>
  BY DEF NumberInv
<1>3. CASE s \notin Accepted
  BY <1>1, <1>2, <1>3 DEF Served, Held
<1>4. CASE s \in Accepted
  <2>1. /\ count[s] \in Nat /\ Len(queue[s]) \in Nat /\ hand[s] # NoItem /\ Served(s) \in Nat
        /\ Served(s) = count[s] - Len(queue[s]) - 1
    BY <1>4, ServedIs DEF Accepted, Valid
  <2>2. PICK c, n \in Nat, k \in Nat : c = count[s] /\ n = Len(queue[s]) /\ k = Served(s)
    BY <2>1
  <2>3. k + 1 = c - n /\ k < c
    BY ONLY <2>1, <2>2
  <2>4. hand[s] = <<s, k + 1>>
    BY <1>2, <2>1, <2>2, <2>3
  <2>5. CASE queue[s] = <<>>
    <3>1. hand'[s] = NoItem /\ queue'[s] = <<>> /\ n = 0
      BY <1>1, <1>4, <2>2, <2>5
    <3>2. Served(s)' = c - 0 - 0
      BY <1>1, <2>2, <3>1 DEF Served, Held
    <3> QED BY <1>4, <2>2, <2>3, <2>4, <3>1, <3>2
  <2>6. CASE queue[s] # <<>>
    <3>1. queue[s] \in Seq(Item)
      BY DEF DataInv
    <3>2. /\ Head(queue[s]) = queue[s][1] /\ 1 \in DOMAIN queue[s] /\ Head(queue[s]) \in Item
          /\ Len(Tail(queue[s])) = n - 1 /\ DOMAIN Tail(queue[s]) = 1 .. n - 1
          /\ \A i \in 1 .. n - 1 : i + 1 \in DOMAIN queue[s] /\ Tail(queue[s])[i] = queue[s][i + 1]
      BY <2>2, <2>6, <3>1
    <3>3. /\ hand'[s] = Head(queue[s]) /\ queue'[s] = Tail(queue[s])
      BY <1>1, <1>4, <2>6
    <3>4. Head(queue[s]) # NoItem /\ Head(queue[s]) = <<s, c - n + 1>>
      BY <1>2, <2>2, <3>2, NoItemAssumption DEF Item
    <3>5. Served(s)' = c - (n - 1) - 1
      BY <1>1, <2>2, <3>2, <3>3, <3>4 DEF Served, Held
    <3>6. c - (n - 1) - 1 = k + 1 /\ c - n + 1 = c - (n - 1)
      <4>1. c \in Int /\ n \in Int /\ k \in Int /\ k + 1 = c - n
        BY ONLY <2>3, c \in Nat, n \in Nat, k \in Nat
      <4> QED BY ONLY <4>1
    <3>7. ASSUME NEW i \in DOMAIN queue'[s]
          PROVE  queue'[s][i] = <<s, count'[s] - Len(queue'[s]) + i>>
      <4>1. i \in 1 .. n - 1
        BY <3>2, <3>3
      <4>2. queue'[s][i] = <<s, c - n + (i + 1)>>
        BY <1>2, <2>2, <3>2, <3>3, <4>1
      <4>3. c - n + (i + 1) = c - (n - 1) + i
        BY ONLY c \in Nat, n \in Nat, <4>1
      <4> QED BY <1>1, <2>2, <3>2, <3>3, <4>2, <4>3
    <3>8. hand'[s] = <<s, count'[s] - Len(queue'[s])>>
      BY <1>1, <2>2, <3>2, <3>3, <3>4, <3>6
    <3> QED BY <1>4, <2>2, <2>3, <2>4, <3>5, <3>6, <3>7, <3>8
  <2> QED BY <2>5, <2>6
<1> QED BY <1>3, <1>4

\* At an edge a driver offers an item exactly if its stream has not ended.
LEMMA EdgeOffers ==
    ASSUME DataInv, NumberInv, Edge, NEW s \in Stream
    PROVE  Served(s) \in Nat /\ count[s] \in Nat /\ (Valid(s) <=> Served(s) < count[s])
<1>1. hand[s] = NoItem => queue[s] = <<>>
  BY DEF Edge, Settled
<1>2. PICK c, n, k \in Nat : c = count[s] /\ n = Len(queue[s]) /\ k = Served(s)
  BY ServedIs
<1>3. CASE Valid(s)
  <2>1. k = c - n - 1
    BY <1>2, <1>3, ServedIs
  <2> QED BY <1>2, <1>3, <2>1
<1>4. CASE ~Valid(s)
  <2>1. k = c - n /\ n = 0
    BY <1>1, <1>2, <1>4, ServedIs DEF Valid
  <2> QED BY <1>2, <1>4, <2>1
<1> QED BY <1>3, <1>4

\* If the register is loaded, what was accepted before has been captured.
LEMMA EdgeFirst ==
    ASSUME DataInv, NumberInv, Edge
    PROVE  /\ Loadable => First' = [s \in Stream |-> Served(s) + 1]
           /\ ~Loadable => First' = First
<1>1. \A s \in Stream : Served(s)' = IF s \in Accepted THEN Served(s) + 1 ELSE Served(s)
  BY EdgeServes
<1>2. CASE Loadable
  <2>1. ASSUME NEW s \in Stream
        PROVE  (IF reg' \in Own(s) THEN Served(s)' ELSE Served(s)' + 1) = Served(s) + 1
    <3>1. CASE Accepted = {Choice} /\ reg' \in Own(Choice)
      <4>1. reg' \in Own(s) <=> s = Choice
        BY <3>1 DEF Own
      <4> QED BY <1>1, <3>1, <4>1
    <3>2. CASE Accepted = {} /\ reg' = NoItem
      <4>1. reg' \notin Own(s)
        BY <3>2, NoItemAssumption DEF Own
      <4> QED BY <1>1, <3>2, <4>1
    <3> QED BY <1>2, <3>1, <3>2, RegisterIs
  <2> QED BY <1>2, <2>1 DEF First
<1>3. CASE ~Loadable
  <2>1. Accepted = {} /\ reg' = reg
    BY <1>3, RegisterIs
  <2> QED BY <1>1, <1>3, <2>1 DEF First
<1> QED BY <1>2, <1>3

\* The capture takes out what was in the register, and leaves all that is
\* outside the design in the order in which it was enqueued.
LEMMA EdgeLists ==
    ASSUME DataInv, NumberInv, Listed(expected, First, count), reg # NoItem => Matches # {},
           Edge, Loadable
    PROVE  Listed(expected', [s \in Stream |-> Served(s) + 1], count)
<1> DEFINE next == [s \in Stream |-> Served(s) + 1]
<1>1. Capture <=> reg # NoItem
  BY DEF Loadable, Capture
<1>2. expected' = IF Capture /\ expected # <<>> THEN RemoveAt(expected, Matched) ELSE expected
  BY DEF Edge, Compare
<1>3. CASE reg = NoItem
  <2>1. First = next
    BY <1>3, NoItemAssumption DEF First, Own
  <2> QED BY <1>1, <1>2, <1>3, <2>1
<1>4. CASE reg # NoItem
  <2>1. PICK s \in Stream : reg \in Own(s)
    BY <1>4 DEF DataInv, Item, Own
  <2>2. reg = <<s, First[s]>> /\ First[s] = Served(s)
    BY <2>1 DEF NumberInv, First
  <2>3. Matched \in Matches
    <3>1. Matches \subseteq Nat
      BY DEF Matches
    <3> QED BY <1>4, <3>1, LeastOf DEF Matched
  <2>4. /\ expected \in Seq(Item) /\ Matched \in 1 .. Len(expected)
        /\ expected[Matched] = reg /\ expected # <<>>
    BY <2>3 DEF Matches, Listed
  <2>5. First \in [Stream -> Nat] /\ count \in [Stream -> Nat]
    BY <2>1, ServedIs DEF DataInv
  <2>6. Listed(RemoveAt(expected, Matched), [First EXCEPT ![s] = @ + 1], count)
    BY <2>1, <2>2, <2>4, <2>5, ListedLess
  <2>7. [First EXCEPT ![s] = @ + 1] = next
    <3>1. \A r \in Stream \ {s} : reg \notin Own(r)
      BY <2>1 DEF Own
    <3> QED BY <2>1, <2>2, <3>1 DEF First
  <2> QED BY <1>1, <1>2, <1>4, <2>4, <2>6, <2>7
<1> QED BY <1>3, <1>4

LEMMA EdgeWindow == ASSUME DataInv, WindowInv, Edge PROVE WindowInv'
<1>1. /\ Settled /\ Loaded /\ UNCHANGED <<test, count>>
      /\ \A s \in Stream : hand[s] = NoItem => queue[s] = <<>>
  BY DEF Edge, Settled
<1> SUFFICES ASSUME test = "random" PROVE WindowInv'
  BY <1>1 DEF WindowInv
<1>2. /\ NumberInv /\ LoadInv /\ TurnInv /\ Listed(expected, First, count)
      /\ reg # NoItem => Matches # {}
  BY DEF WindowInv
<1>3. \A s \in Stream :
        /\ Served(s)' = IF s \in Accepted THEN Served(s) + 1 ELSE Served(s)
        /\ \A i \in DOMAIN queue'[s] : queue'[s][i] = <<s, count'[s] - Len(queue'[s]) + i>>
        /\ hand'[s] # NoItem => hand'[s] = <<s, count'[s] - Len(queue'[s])>>
        /\ s \in Accepted => hand[s] = <<s, Served(s) + 1>> /\ Served(s) < count[s]
  BY <1>2, EdgeServes
<1>4. \A s \in Stream : Served(s) \in Nat /\ count[s] \in Nat /\ (Valid(s) <=> Served(s) < count[s])
  BY <1>2, EdgeOffers
<1>5. \/ /\ Loadable /\ Valid(Choice) /\ Accepted = {Choice}
         /\ reg' = hand[Choice] /\ reg' \in Own(Choice) /\ choice' = Choice
      \/ /\ Loadable /\ Accepted = {} /\ ~Valid(Choice)
         /\ reg' = NoItem /\ choice' = choice
      \/ /\ ~Loadable /\ ~ready /\ Accepted = {}
         /\ reg # NoItem /\ reg' = reg /\ choice' = choice
  BY RegisterIs
<1>6. Choice \in Stream /\ choice \in Stream
  BY RegisterIs DEF DataInv
<1>7. NumberInv'
  <2>1. ASSUME NEW s \in Stream, reg' \in Own(s) PROVE reg' = <<s, Served(s)'>>
    <3>1. reg' # NoItem
      BY <2>1, NoItemAssumption DEF Own
    <3>2. CASE Accepted = {Choice} /\ reg' = hand[Choice] /\ reg' \in Own(Choice)
      <4>1. s = Choice
        BY <2>1, <3>2 DEF Own
      <4> QED BY <1>3, <3>2, <4>1
    <3>3. CASE Accepted = {} /\ reg' = reg
      BY <1>2, <1>3, <2>1, <3>3 DEF NumberInv
    <3> QED BY <1>5, <3>1, <3>2, <3>3
  <2>2. \A s \in Stream : Served(s)' \in Nat
    BY <1>3, <1>4
  <2> QED BY <1>3, <2>1, <2>2 DEF NumberInv
<1>8. LoadInv'
  BY <1>1, <1>2 DEF LoadInv, Loaded
<1>9. Stream = {"a", "b"} /\ Other("a") = "b" /\ Other("b") = "a"
  BY DEF Stream, Other
<1>10. TurnInv'
  <2> SUFFICES ASSUME \A s \in Stream : Served(s)' < count'[s]
               PROVE  \/ choice' = "b" /\ Served("a")' = Served("b")'
                      \/ choice' = "a" /\ Served("a")' = Served("b")' + 1
    BY DEF TurnInv
  <2>1. PICK na, nb, ca, cb \in Nat :
          na = Served("a") /\ nb = Served("b") /\ ca = count["a"] /\ cb = count["b"]
    BY <1>4, <1>9
  <2>2. /\ Served("a")' = (IF "a" \in Accepted THEN na + 1 ELSE na)
        /\ Served("b")' = (IF "b" \in Accepted THEN nb + 1 ELSE nb)
    BY <1>3, <1>9, <2>1
  <2>3. na < ca /\ nb < cb
    <3>1. Served("a")' < ca /\ Served("b")' < cb
      BY <1>1, <1>9, <2>1
    <3> QED BY ONLY <2>1, <2>2, <3>1
  <2>4. Valid("a") /\ Valid("b")
    BY <1>4, <1>9, <2>1, <2>3
  <2>5. (choice = "b" /\ na = nb) \/ (choice = "a" /\ na = nb + 1)
    <3>1. \A s \in Stream : Served(s) < count[s]
      BY <1>9, <2>1, <2>3
    <3>2. \/ choice = "b" /\ Served("a") = Served("b")
          \/ choice = "a" /\ Served("a") = Served("b") + 1
      BY <1>2, <3>1 DEF TurnInv
    <3> QED BY ONLY <2>1, <3>2
  <2>6. CASE Loadable
    <3>1. Choice = Other(choice) /\ Accepted = {Other(choice)} /\ choice' = Other(choice)
      <4>1. Choice = Other(choice)
        BY <1>6, <1>9, <2>4, <2>6, ChoiceIs
      <4> QED BY <1>5, <1>6, <1>9, <2>4, <2>6, <4>1
    <3>2. CASE choice = "b" /\ na = nb
      <4>1. Served("a")' = na + 1 /\ Served("b")' = nb /\ choice' = "a"
        BY <1>9, <2>2, <3>1, <3>2
      <4> QED BY ONLY <3>2, <4>1
    <3>3. CASE choice = "a" /\ na = nb + 1
      <4>1. Served("a")' = na /\ Served("b")' = nb + 1 /\ choice' = "b"
        BY <1>9, <2>2, <3>1, <3>3
      <4> QED BY ONLY <3>3, <4>1
    <3> QED BY <2>5, <3>2, <3>3
  <2>7. CASE ~Loadable
    <3>1. Accepted = {} /\ choice' = choice
      BY <1>5, <2>7
    <3>2. Served("a")' = na /\ Served("b")' = nb
      BY ONLY <2>2, <3>1
    <3> QED BY ONLY <2>5, <3>1, <3>2
  <2> QED BY <2>6, <2>7
<1>11. CASE ~Loadable
  <2>1. Accepted = {} /\ reg' = reg /\ expected' = expected
    BY <1>5, <1>11 DEF Edge, Compare, Capture
  <2>2. First' = First /\ Matches' = Matches
    BY <1>3, <2>1 DEF First, Matches
  <2> QED BY <1>1, <1>2, <1>7, <1>8, <1>10, <2>1, <2>2 DEF WindowInv
<1>12. CASE Loadable
  <2> DEFINE next == [s \in Stream |-> Served(s) + 1]
  <2>1. Listed(expected', next, count)
    BY <1>2, <1>12, EdgeLists
  <2>2. First' = next
    BY <1>2, <1>12, EdgeFirst
  <2>3. ASSUME reg' # NoItem PROVE Matches' # {}
    <3>1. /\ Valid(Choice) /\ reg' = <<Choice, next[Choice]>> /\ next[Choice] <= count[Choice]
      <4>1. Choice \in Accepted /\ reg' = hand[Choice] /\ Valid(Choice)
        BY <1>5, <1>12, <2>3
      <4>2. Served(Choice) \in Nat /\ count[Choice] \in Nat
        BY <1>4, <1>6
      <4> QED BY <1>3, <1>6, <4>1, <4>2
    <3>2. next \in [Stream -> Nat] /\ count \in [Stream -> Nat]
      BY <1>4 DEF DataInv
    <3>3. \/ next[Other(Choice)] > count[Other(Choice)]
          \/ Choice = "a" /\ next["b"] >= next["a"]
          \/ Choice = "b" /\ next["a"] >= next["b"] + 1
      <4>1. PICK na, nb, ca, cb \in Nat :
              na = Served("a") /\ nb = Served("b") /\ ca = count["a"] /\ cb = count["b"]
        BY <1>4, <1>9
      <4>2. next["a"] = na + 1 /\ next["b"] = nb + 1
        BY <1>9, <4>1
      <4>3. CASE Valid(Other(Choice))
        <5>1. na < ca /\ nb < cb /\ Valid("a") /\ Valid("b")
          BY <1>4, <1>6, <1>9, <3>1, <4>1, <4>3
        <5>2. (choice = "b" /\ na = nb) \/ (choice = "a" /\ na = nb + 1)
          <6>1. \A s \in Stream : Served(s) < count[s]
            BY <1>9, <4>1, <5>1
          <6>2. \/ choice = "b" /\ Served("a") = Served("b")
                \/ choice = "a" /\ Served("a") = Served("b") + 1
            BY <1>2, <6>1 DEF TurnInv
          <6> QED BY ONLY <4>1, <6>2
        <5>3. Choice = Other(choice)
          BY <1>6, <1>9, <1>12, <5>1, ChoiceIs
        <5>4. (Choice = "a" /\ na = nb) \/ (Choice = "b" /\ na = nb + 1)
          BY <1>9, <5>2, <5>3
        <5>5. CASE Choice = "a" /\ na = nb
          BY ONLY <4>1, <4>2, <5>5
        <5>6. CASE Choice = "b" /\ na = nb + 1
          BY ONLY <4>1, <4>2, <5>6
        <5> QED BY <5>4, <5>5, <5>6
      <4>4. CASE ~Valid(Other(Choice))
        <5>1. Other(Choice) \in Stream
          BY <1>6, <1>9
        <5> QED BY <1>4, <4>4, <5>1
      <4> QED BY <4>3, <4>4
    <3>4. \E i \in 1 .. 4 : i <= Len(expected') /\ expected'[i] = <<Choice, next[Choice]>>
      <4> HIDE DEF next
      <4>1. PICK e, s : e = expected' /\ s = Choice
        OBVIOUS
      <4>2. \E i \in 1 .. 4 : i <= Len(e) /\ e[i] = <<s, next[s]>>
        <5>1. Listed(e, next, count) /\ s \in Stream /\ next[s] <= count[s]
          BY <1>6, <2>1, <3>1, <4>1
        <5>2. \/ next[Other(s)] > count[Other(s)]
              \/ s = "a" /\ next["b"] >= next["a"]
              \/ s = "b" /\ next["a"] >= next["b"] + 1
          BY <3>3, <4>1
        <5> QED BY <3>2, <5>1, <5>2, ListedNear
      <4> QED BY <4>1, <4>2
    <3> QED BY <3>1, <3>4 DEF Matches
  <2> QED BY <1>1, <1>7, <1>8, <1>10, <2>1, <2>2, <2>3 DEF WindowInv
<1> QED BY <1>11, <1>12

LEMMA StepWindow ==
    ASSUME LockInv, DataInv, WindowInv, [BenchNext]_bvars PROVE WindowInv'
<1>1. ASSUME UNCHANGED <<test, count, queue, hand, choice, reg, expected>> PROVE WindowInv'
  <2>1. \A s \in Stream : Served(s)' = Served(s)
    BY <1>1 DEF Served, Held
  <2>2. First' = First /\ Matches' = Matches /\ Loaded' = Loaded
    BY <1>1, <2>1 DEF First, Matches, Loaded
  <2>3. NumberInv => NumberInv'
    BY <1>1, <2>1 DEF NumberInv
  <2>4. (LoadInv => LoadInv') /\ (TurnInv => TurnInv')
    BY <1>1, <2>1, <2>2 DEF LoadInv, TurnInv, Stream
  <2> QED BY <1>1, <2>2, <2>3, <2>4 DEF WindowInv
<1>2. CASE UNCHANGED bvars
  BY <1>1, <1>2 DEF bvars, dut, lists
<1>3. CASE \E c \in Ctx : SeqStep(c)
  <2>1. UNCHANGED test /\ test # "random"
    BY <1>3 DEF SeqStep, Request, Granted, OnePacket, WholeBurst, BurstOver, Ask, Answer,
        Leave, LockInv
  <2> QED BY <2>1 DEF WindowInv
<1> QED BY <1>2, <1>3, LoadWindow, OfferWindow, EdgeWindow DEF BenchNext

-----------------------------------------------------------------------------
(* How long a prediction stays in the window *)

\* How far an item of stream s may be, by its number, behind an item of the
\* other stream that was enqueued after it.
Slack(s) == IF s = "a" THEN 1 ELSE 2

\* An item was visited by captures of the other stream only, by those that
\* were enqueued after it.
VisitInv ==
    /\ residence \in Seq(Nat) /\ Len(residence) = Len(expected)
    /\ \A i \in DOMAIN expected :
          \/ residence[i] = 0
          \/ residence[i] + expected[i][2]
                <= First[Other(expected[i][1])] + Slack(expected[i][1])

\* As long as a stream has not ended, the other one is not far ahead: in what
\* the arbiter accepted, and in what was captured.
Turns(ahead, behind, end, slack) == behind < end => ahead + 1 <= behind + slack

LagInv ==
    /\ Turns(Served("b"), Served("a"), count["a"], 1)
    /\ Turns(Served("a"), Served("b"), count["b"], 2)
    /\ First["a"] <= count["a"] => First["b"] + 1 <= First["a"] + 1
    /\ First["b"] <= count["b"] => First["a"] + 1 <= First["b"] + 2

StayInv == test = "random" => VisitInv /\ LagInv

LEMMA InitStay == BenchInit => StayInv
<1> SUFFICES ASSUME BenchInit PROVE VisitInv /\ LagInv
  BY DEF StayInv
<1>1. /\ count = [s \in Stream |-> 0] /\ queue = [s \in Stream |-> <<>>]
      /\ hand = [s \in Stream |-> NoItem] /\ reg = NoItem /\ expected = <<>> /\ residence = <<>>
  BY DEF BenchInit
<1>2. \A s \in Stream : Served(s) = 0 /\ count[s] = 0 /\ reg \notin Own(s)
  BY <1>1, NoItemAssumption DEF Served, Held, Own
<1>3. \A s \in Stream : First[s] = 1
  BY <1>2 DEF First
<1>4. LagInv
  BY <1>2, <1>3 DEF LagInv, Turns, Stream
<1>5. VisitInv
  BY <1>1, EmptySeq DEF VisitInv
<1> QED BY <1>4, <1>5

\* The streams keep their pace.
LEMMA EdgeLag ==
    ASSUME DataInv, WindowInv, LagInv, Edge, test = "random" PROVE LagInv'
<1>1. NumberInv /\ TurnInv /\ count' = count
  BY DEF WindowInv, Edge
<1>2. Stream = {"a", "b"} /\ Other("a") = "b" /\ Other("b") = "a"
  BY DEF Stream, Other
<1>3. PICK na, nb, ca, cb \in Nat :
        na = Served("a") /\ nb = Served("b") /\ ca = count["a"] /\ cb = count["b"]
  BY <1>1, <1>2, EdgeOffers
<1>4. /\ Served("a")' = (IF "a" \in Accepted THEN na + 1 ELSE na)
      /\ Served("b")' = (IF "b" \in Accepted THEN nb + 1 ELSE nb)
      /\ "a" \in Accepted => na < ca
      /\ "b" \in Accepted => nb < cb
  BY <1>1, <1>2, <1>3, EdgeServes
<1>5. na < ca => nb + 1 <= na + 1
  BY ONLY LagInv, <1>3 DEF LagInv, Turns
<1>6. nb < cb => na + 1 <= nb + 2
  BY ONLY LagInv, <1>3 DEF LagInv, Turns
<1>7. /\ (First["a"] <= count["a"] => First["b"] + 1 <= First["a"] + 1)'
      /\ (First["b"] <= count["b"] => First["a"] + 1 <= First["b"] + 2)'
  <2>1. CASE Loadable
    <3>1. First'["a"] = na + 1 /\ First'["b"] = nb + 1
      BY <1>1, <1>2, <1>3, <2>1, EdgeFirst
    <3>2. (First["a"] <= count["a"] => First["b"] + 1 <= First["a"] + 1)'
      BY ONLY <1>1, <1>3, <1>5, <3>1
    <3>3. (First["b"] <= count["b"] => First["a"] + 1 <= First["b"] + 2)'
      BY ONLY <1>1, <1>3, <1>6, <3>1
    <3> QED BY ONLY <3>2, <3>3
  <2>2. CASE ~Loadable
    <3>1. First' = First
      BY <1>1, <2>2, EdgeFirst
    <3> QED BY ONLY LagInv, <1>1, <3>1 DEF LagInv
  <2> QED BY <2>1, <2>2
<1>8. CASE Accepted = {}
  <2>1. Served("a")' = na /\ Served("b")' = nb
    BY ONLY <1>4, <1>8
  <2>2. Turns(Served("b"), Served("a"), count["a"], 1)'
    BY ONLY <1>1, <1>3, <1>5, <2>1 DEF Turns
  <2>3. Turns(Served("a"), Served("b"), count["b"], 2)'
    BY ONLY <1>1, <1>3, <1>6, <2>1 DEF Turns
  <2> QED BY <1>7, <2>2, <2>3 DEF LagInv
<1>9. CASE Accepted = {Choice} /\ Loadable /\ Valid(Choice)
  <2>1. ASSUME na < ca, nb < cb
        PROVE  (Choice = "a" /\ na = nb) \/ (Choice = "b" /\ na = nb + 1)
    <3>1. (choice = "b" /\ na = nb) \/ (choice = "a" /\ na = nb + 1)
      <4>1. \A s \in Stream : Served(s) < count[s]
        BY <1>2, <1>3, <2>1
      <4>2. \/ choice = "b" /\ Served("a") = Served("b")
            \/ choice = "a" /\ Served("a") = Served("b") + 1
        BY <1>1, <4>1 DEF TurnInv
      <4> QED BY ONLY <1>3, <4>2
    <3>2. Valid("a") /\ Valid("b")
      BY <1>1, <1>2, <1>3, <2>1, EdgeOffers
    <3>3. Choice = Other(choice)
      <4>1. choice \in Stream
        BY DEF DataInv
      <4> QED BY <1>2, <1>9, <3>2, <4>1, ChoiceIs
    <3> QED BY <1>2, <3>1, <3>3
  <2>2. CASE Choice = "a"
    <3>1. Served("a")' = na + 1 /\ Served("b")' = nb /\ na < ca
      BY <1>4, <1>9, <2>2
    <3>2. Turns(Served("b"), Served("a"), count["a"], 1)'
      BY ONLY <1>1, <1>3, <1>5, <3>1 DEF Turns
    <3>3. nb < cb => na = nb
      BY <2>1, <2>2, <3>1
    <3>4. Turns(Served("a"), Served("b"), count["b"], 2)'
      BY ONLY <1>1, <1>3, <3>1, <3>3 DEF Turns
    <3> QED BY <1>7, <3>2, <3>4 DEF LagInv
  <2>3. CASE Choice = "b"
    <3>1. Served("a")' = na /\ Served("b")' = nb + 1 /\ nb < cb
      BY <1>4, <1>9, <2>3
    <3>2. na < ca => na = nb + 1
      BY <2>1, <2>3, <3>1
    <3>3. Turns(Served("b"), Served("a"), count["a"], 1)'
      BY ONLY <1>1, <1>3, <3>1, <3>2 DEF Turns
    <3>4. Turns(Served("a"), Served("b"), count["b"], 2)'
      BY ONLY <1>1, <1>3, <1>6, <3>1 DEF Turns
    <3> QED BY <1>7, <3>3, <3>4 DEF LagInv
  <2>4. Choice \in Stream
    BY RegisterIs DEF DataInv
  <2> QED BY <1>2, <2>2, <2>3, <2>4
<1> QED BY <1>8, <1>9, RegisterIs

LEMMA CountList ==
    ASSUME NEW n \in Nat, NEW f \in [1 .. n -> Nat] PROVE f \in Seq(Nat) /\ Len(f) = n
OBVIOUS

\* A capture visits the items of the other stream that were enqueued before it.
LEMMA EdgeVisits ==
    ASSUME DataInv, WindowInv, VisitInv, Edge, test = "random" PROVE VisitInv'
<1>1. NumberInv /\ Listed(expected, First, count) /\ (reg # NoItem => Matches # {})
  BY DEF WindowInv
<1>2. /\ residence \in Seq(Nat) /\ Len(residence) = Len(expected)
      /\ expected \in Seq(Item) /\ Len(expected) \in Nat /\ DOMAIN expected = 1 .. Len(expected)
      /\ DOMAIN residence = DOMAIN expected
      /\ \A i \in DOMAIN expected : expected[i] \in Item /\ residence[i] \in Nat
  BY <1>1 DEF VisitInv, Listed
<1>3. CASE ~Capture
  <2>1. expected' = expected /\ residence' = residence
    BY <1>3 DEF Edge, Compare
  <2>2. First' = First
    <3>1. CASE Loadable
      <4>1. reg = NoItem
        BY <1>3, <3>1 DEF Loadable, Capture
      <4>2. \A s \in Stream : reg \notin Own(s)
        BY <4>1, NoItemAssumption DEF Own
      <4>3. First = [s \in Stream |-> Served(s) + 1]
        BY <4>2 DEF First
      <4> QED BY <1>1, <3>1, <4>3, EdgeFirst
    <3>2. CASE ~Loadable
      BY <1>1, <3>2, EdgeFirst
    <3> QED BY <3>1, <3>2
  <2> QED BY <2>1, <2>2 DEF VisitInv
<1>4. CASE Capture
  <2>1. reg # NoItem /\ Loadable
    BY <1>4 DEF Capture, Loadable
  <2>2. PICK q \in Stream : reg \in Own(q)
    BY <2>1 DEF DataInv, Item, Own
  <2>3. reg = <<q, First[q]>> /\ First[q] = Served(q)
    BY <1>1, <2>2 DEF NumberInv, First
  <2>4. Matched \in Matches
    <3>1. Matches \subseteq Nat
      BY DEF Matches
    <3> QED BY <1>1, <2>1, <3>1, LeastOf DEF Matched
  <2>5. PICK p \in DOMAIN expected : p = Matched /\ expected[p] = reg
    BY <1>2, <2>4 DEF Matches
  <2>6. /\ expected' = RemoveAt(expected, p) /\ residence' = RemoveAt(Visits, p)
    BY <1>2, <1>4, <2>5 DEF Edge, Compare
  <2>7. \A s \in Stream : First[s] \in Nat /\ First'[s] = IF s = q THEN First[s] + 1 ELSE First[s]
    <3>1. \A s \in Stream \ {q} : reg \notin Own(s)
      BY <2>2 DEF Own
    <3>2. \A s \in Stream : Served(s) \in Nat
      BY <1>1 DEF NumberInv
    <3>3. First' = [s \in Stream |-> Served(s) + 1]
      BY <1>1, <2>1, EdgeFirst
    <3>4. \A s \in Stream : First[s] = IF s = q THEN Served(s) ELSE Served(s) + 1
      BY <2>2, <3>1 DEF First
    <3> QED BY <3>2, <3>3, <3>4
  <2>8. /\ Visits \in Seq(Nat) /\ Len(Visits) = Len(expected)
        /\ \A i \in DOMAIN expected : Visits[i] = residence[i] + (IF i <= p THEN 1 ELSE 0)
    <3>1. Visits = [i \in 1 .. Len(expected) |-> residence[i] + (IF i <= p THEN 1 ELSE 0)]
      BY <1>2, <2>5 DEF Visits
    <3>2. \A i \in 1 .. Len(expected) : residence[i] + (IF i <= p THEN 1 ELSE 0) \in Nat
      BY <1>2
    <3> HIDE DEF Visits
    <3>3. Visits \in [1 .. Len(expected) -> Nat]
      BY ONLY <3>1, <3>2
    <3>4. Visits \in Seq(Nat) /\ Len(Visits) = Len(expected)
      BY ONLY Len(expected) \in Nat, <3>3, CountList
    <3> QED BY ONLY <1>2, <3>1, <3>4
  <2>9. /\ expected' \in Seq(Item) /\ Len(expected') = Len(expected) - 1
        /\ residence' \in Seq(Nat) /\ Len(residence') = Len(expected) - 1
        /\ \A j \in 1 .. Len(expected) - 1 :
             /\ expected'[j] = IF j < p THEN expected[j] ELSE expected[j + 1]
             /\ residence'[j] = IF j < p THEN Visits[j] ELSE Visits[j + 1]
    <3>1. p \in 1 .. Len(expected) /\ p \in 1 .. Len(Visits)
      BY ONLY <1>2, <2>8, p \in DOMAIN expected
    <3>2. /\ RemoveAt(expected, p) \in Seq(Item) /\ Len(RemoveAt(expected, p)) = Len(expected) - 1
          /\ \A j \in 1 .. Len(expected) - 1 :
               RemoveAt(expected, p)[j] = IF j < p THEN expected[j] ELSE expected[j + 1]
      BY ONLY <1>2, <3>1, Removed, RemovedElements
    <3>3. /\ RemoveAt(Visits, p) \in Seq(Nat) /\ Len(RemoveAt(Visits, p)) = Len(Visits) - 1
          /\ \A j \in 1 .. Len(Visits) - 1 :
               RemoveAt(Visits, p)[j] = IF j < p THEN Visits[j] ELSE Visits[j + 1]
      BY ONLY <2>8, <3>1, Removed, RemovedElements
    <3> QED BY ONLY <2>6, <2>8, <3>2, <3>3
  <2>10. ASSUME NEW j \in DOMAIN expected'
         PROVE  \/ residence'[j] = 0
                \/ residence'[j] + expected'[j][2]
                      <= First'[Other(expected'[j][1])] + Slack(expected'[j][1])
    <3>1. PICK i \in DOMAIN expected :
            i # p /\ expected'[j] = expected[i] /\ residence'[j] = Visits[i]
      <4>1. j \in 1 .. Len(expected) - 1 /\ p \in 1 .. Len(expected)
        <5>1. expected' \in Seq(Item) /\ Len(expected') = Len(expected) - 1
          BY <2>9
        <5>2. j \in 1 .. Len(expected')
          BY ONLY <5>1, j \in DOMAIN expected'
        <5>3. p \in 1 .. Len(expected)
          BY ONLY <2>5, <1>2
        <5> QED BY ONLY <5>1, <5>2, <5>3
      <4>2. CASE j < p
        <5>1. j \in DOMAIN expected /\ j # p
          BY ONLY <1>2, <4>1, <4>2
        <5> QED BY <2>9, <4>1, <4>2, <5>1
      <4>3. CASE ~ (j < p)
        <5>1. j + 1 \in DOMAIN expected /\ j + 1 # p
          BY ONLY <1>2, <4>1, <4>3
        <5> QED BY <2>9, <4>1, <4>3, <5>1
      <4> QED BY <4>2, <4>3
    <3>2. PICK s \in Stream, n \in Nat : expected[i] = <<s, n>>
      BY <1>2, ItemIs
    <3>3. residence[i] = 0 \/ residence[i] + n <= First[Other(s)] + Slack(s)
      BY <3>2 DEF VisitInv
    <3>4. First[s] <= n /\ Other(s) \in Stream /\ Slack(s) \in Nat
      BY <1>1, <3>2 DEF Listed, Other, Stream, Slack
    <3>5. PICK r, f, g, k \in Nat : /\ r = residence[i] /\ f = First[Other(s)]
                                    /\ g = First'[Other(s)] /\ k = Slack(s)
      <4>1. residence[i] \in Nat /\ First[Other(s)] \in Nat /\ First'[Other(s)] \in Nat
        <5>1. First[Other(s)] \in Nat /\ First[Other(s)] + 1 \in Nat
          BY <2>7, <3>4
        <5> QED BY <1>2, <2>7, <3>4, <5>1
      <4> QED BY ONLY <3>4, <4>1
    <3>6. g = f \/ (g = f + 1 /\ Other(s) = q)
      BY <2>7, <3>4, <3>5
    <3>7. ASSUME i < p PROVE Other(s) = q /\ n <= f + k
      <4>1. InOrder(<<s, n>>, <<q, First[q]>>)
        <5>1. InOrder(expected[i], expected[p])
          BY <1>1, <3>7 DEF Listed
        <5> QED BY <2>3, <2>5, <3>2, <5>1
      <4>2. s # q
        <5>1. s = q => n < First[s]
          BY <4>1 DEF InOrder
        <5>2. First[s] \in Nat
          BY <2>7
        <5> QED BY <3>4, <5>1, <5>2
      <4>3. Other(s) = q
        BY <4>2 DEF Other, Stream
      <4>4. n <= First[q] + Slack(s)
        BY <4>1, <4>2 DEF InOrder, Slack
      <4> QED BY <3>5, <4>3, <4>4
    <3>8. residence'[j] = r + (IF i <= p THEN 1 ELSE 0)
      BY <2>8, <3>1, <3>5
    <3>9. CASE i < p
      <4>1. g = f + 1 /\ n <= f + k
        BY <2>7, <3>4, <3>5, <3>7, <3>9
      <4>2. residence'[j] = r + 1
        BY ONLY <1>2, <3>8, <3>9, i \in DOMAIN expected, p \in DOMAIN expected
      <4>3. r + 1 + n <= g + k
        BY ONLY <3>3, <3>5, <4>1, n \in Nat
      <4> QED BY <3>1, <3>2, <3>5, <4>2, <4>3
    <3>10. CASE ~ (i < p)
      <4>1. residence'[j] = r
        BY ONLY <1>2, <3>1, <3>5, <3>8, <3>10, i \in DOMAIN expected, p \in DOMAIN expected
      <4>2. r = 0 \/ r + n <= g + k
        BY ONLY <3>3, <3>5, <3>6, n \in Nat
      <4> QED BY <3>1, <3>2, <3>5, <4>1, <4>2
    <3> QED BY <3>9, <3>10
  <2> QED BY <2>9, <2>10 DEF VisitInv
<1> QED BY <1>3, <1>4

\* Before the load is complete nothing is captured.
LEMMA LoadStay == ASSUME DataInv, WindowInv, StayInv, Load PROVE StayInv'
<1>1. PICK s \in Stream : /\ Enqueue(s, 1) /\ expected' = expected \o Fresh(s, 1)
                          /\ residence' = Append(residence, 0)
  BY DEF Load, Stream
<1>2. /\ test = "random" /\ ~Loaded /\ UNCHANGED <<test, hand, choice, reg>>
  BY DEF Load, Loaded, dut
<1>3. /\ NumberInv /\ LoadInv /\ Listed(expected, First, count) /\ VisitInv
      /\ reg = NoItem /\ \A r \in Stream : hand[r] = NoItem /\ Served(r) = 0
  BY <1>2 DEF WindowInv, LoadInv, StayInv
<1>4. WindowInv'
  BY LoadWindow
<1>5. \A r \in Stream : reg \notin Own(r) /\ reg' \notin Own(r)
  BY <1>2, <1>3, NoItemAssumption DEF Own
<1>6. \A r \in Stream : Served(r)' = 0
  <2> SUFFICES ASSUME NEW r \in Stream PROVE Served(r)' = 0
    OBVIOUS
  <2>1. count[r] \in Nat /\ queue[r] \in Seq(Item) /\ Len(queue[r]) \in Nat
    BY DEF DataInv
  <2>2. count[r] - Len(queue[r]) - 0 = 0 /\ hand'[r] = NoItem
    BY <1>2, <1>3 DEF Served, Held
  <2>3. CASE r = s
    <3>1. Fresh(s, 1) \in Seq(Item) /\ Len(Fresh(s, 1)) = 1
      <4>1. Fresh(s, 1) \in Seq(Item)
        BY FreshItems
      <4>2. Len(Fresh(s, 1)) = 1
        BY DEF Fresh
      <4> QED BY <4>1, <4>2
    <3>2. queue'[r] = queue[r] \o Fresh(s, 1) /\ count'[r] = count[r] + 1
      BY <1>1, <2>3 DEF Enqueue, DataInv
    <3>3. Len(queue'[r]) = Len(queue[r]) + 1
      BY <2>1, <3>1, <3>2, ConcatProperties
    <3>4. Served(r)' = (count[r] + 1) - (Len(queue[r]) + 1) - 0
      BY <2>2, <3>2, <3>3 DEF Served, Held
    <3> QED BY ONLY <2>1, <2>2, <3>4
  <2>4. CASE r # s
    <3>1. queue'[r] = queue[r] /\ count'[r] = count[r]
      BY <1>1, <2>4 DEF Enqueue, DataInv
    <3> QED BY <2>2, <3>1 DEF Served, Held
  <2> QED BY <2>3, <2>4
<1>7. First = [r \in Stream |-> 1] /\ First' = [r \in Stream |-> 1]
  BY <1>3, <1>5, <1>6 DEF First
<1>8. LagInv'
  BY <1>6, <1>7 DEF LagInv, Turns, Stream
<1>9. VisitInv'
  <2>1. /\ residence \in Seq(Nat) /\ Len(residence) = Len(expected) /\ expected \in Seq(Item)
        /\ Len(expected) \in Nat
    BY <1>3 DEF VisitInv, Listed
  <2>2. PICK x \in Item : expected' = Append(expected, x)
    <3>1. Fresh(s, 1) = <<<<s, count[s] + 1>>>> /\ <<s, count[s] + 1>> \in Item
      BY DEF Fresh, Item, DataInv
    <3>2. expected \o <<<<s, count[s] + 1>>>> = Append(expected, <<s, count[s] + 1>>)
      BY <2>1, <3>1
    <3> QED BY <1>1, <3>1, <3>2
  <2>3. /\ residence' \in Seq(Nat) /\ Len(residence') = Len(expected')
        /\ DOMAIN expected' = 1 .. Len(expected) + 1
        /\ residence'[Len(expected) + 1] = 0
        /\ \A i \in 1 .. Len(expected) : expected'[i] = expected[i] /\ residence'[i] = residence[i]
    BY <1>1, <2>1, <2>2, AppendProperties
  <2>4. ASSUME NEW i \in DOMAIN expected'
        PROVE  \/ residence'[i] = 0
               \/ residence'[i] + expected'[i][2]
                     <= First'[Other(expected'[i][1])] + Slack(expected'[i][1])
    <3>1. CASE i = Len(expected) + 1
      BY <2>3, <3>1
    <3>2. CASE i # Len(expected) + 1
      <4>1. i \in 1 .. Len(expected) /\ i \in DOMAIN expected
        BY <2>1, <2>3, <3>2
      <4>2. First' = First
        BY <1>7
      <4> QED BY <1>3, <2>3, <4>1, <4>2 DEF VisitInv
    <3> QED BY <3>1, <3>2
  <2> QED BY <2>3, <2>4 DEF VisitInv
<1> QED BY <1>8, <1>9 DEF StayInv

\* A driver that takes up its next transaction has not served more.
LEMMA OfferServes ==
    ASSUME DataInv, NumberInv, NEW s \in Stream, Offer(s), NEW r \in Stream
    PROVE  Served(r)' = Served(r)
<1>1. /\ hand[s] = NoItem /\ queue[s] # <<>> /\ queue[s] \in Seq(Item) /\ count' = count
      /\ hand' = [hand EXCEPT ![s] = Head(queue[s])]
      /\ queue' = [queue EXCEPT ![s] = Tail(@)]
  BY DEF Offer, DataInv
<1>2. CASE r = s
  <2>1. PICK c, n \in Nat : c = count[s] /\ n = Len(queue[s])
    BY ServedIs
  <2>2. /\ Head(queue[s]) \in Item /\ Len(Tail(queue[s])) = n - 1
    BY <1>1, <2>1
  <2>3. hand'[s] # NoItem /\ Len(queue'[s]) = n - 1
    BY <1>1, <2>2, NoItemAssumption DEF DataInv, Item
  <2>4. Served(s)' = c - (n - 1) - 1 /\ Served(s) = c - n - 0
    BY <1>1, <2>1, <2>3 DEF Served, Held
  <2> QED BY ONLY <1>2, <2>1, <2>4
<1>3. CASE r # s
  BY <1>1, <1>3 DEF Served, Held, DataInv
<1> QED BY <1>2, <1>3

LEMMA StepStay ==
    ASSUME LockInv, DataInv, WindowInv, StayInv, [BenchNext]_bvars PROVE StayInv'
<1>1. ASSUME UNCHANGED <<test, count, reg, expected, residence>>,
             \A s \in Stream : Served(s)' = Served(s)
      PROVE  StayInv'
  <2>1. First' = First
    BY <1>1 DEF First
  <2> QED BY <1>1, <2>1 DEF StayInv, VisitInv, LagInv, Turns, Stream
<1>2. CASE UNCHANGED bvars
  <2>1. \A s \in Stream : Served(s)' = Served(s)
    BY <1>2 DEF bvars, Served, Held
  <2> QED BY <1>1, <1>2, <2>1 DEF bvars, dut, lists
<1>3. CASE \E c \in Ctx : SeqStep(c)
  <2>1. UNCHANGED test /\ test # "random"
    BY <1>3 DEF SeqStep, Request, Granted, OnePacket, WholeBurst, BurstOver, Ask, Answer,
        Leave, LockInv
  <2> QED BY <2>1 DEF StayInv
<1>4. ASSUME NEW s \in Stream, Offer(s) PROVE StayInv'
  <2>1. UNCHANGED <<test, count, reg, expected, residence>>
    BY <1>4 DEF Offer, dut, lists
  <2>2. CASE test = "random"
    <3>1. NumberInv
      BY <2>2 DEF WindowInv
    <3> QED BY <1>1, <1>4, <2>1, <3>1, OfferServes
  <2>3. CASE test # "random"
    BY <2>1, <2>3 DEF StayInv
  <2> QED BY <2>2, <2>3
<1>5. CASE Edge
  <2>1. UNCHANGED test
    BY <1>5 DEF Edge
  <2> QED BY <1>5, <2>1, EdgeLag, EdgeVisits DEF StayInv
<1> QED BY <1>2, <1>3, <1>4, <1>5, LoadStay DEF BenchNext

\* What is in the window has been passed over three times at most.
LEMMA StayIsShort ==
    ASSUME DataInv, WindowInv, StayInv, test = "random", reg # NoItem,
           NEW i \in 1 .. Matched
    PROVE  residence[i] < 4
<1>1. /\ NumberInv /\ Listed(expected, First, count) /\ VisitInv /\ LagInv
  BY DEF WindowInv, StayInv
<1>2. Matched \in Matches
  <2>1. Matches \subseteq Nat /\ Matches # {}
    BY DEF Matches, WindowInv
  <2> QED BY <2>1, LeastOf DEF Matched
<1>3. i \in DOMAIN expected /\ residence[i] \in Nat /\ expected[i] \in Item
  <2>1. expected \in Seq(Item) /\ Matched \in 1 .. Len(expected)
    BY <1>1, <1>2 DEF Matches, Listed
  <2>2. i \in 1 .. Len(expected)
    BY ONLY <2>1, i \in 1 .. Matched
  <2> QED BY <1>1, <2>1, <2>2 DEF VisitInv
<1>4. PICK s \in Stream, n \in Nat : expected[i] = <<s, n>>
  BY <1>3, ItemIs
<1>5. First[s] <= n /\ n <= count[s]
  BY <1>1, <1>3, <1>4 DEF Listed
<1>6. residence[i] = 0 \/ residence[i] + n <= First[Other(s)] + Slack(s)
  BY <1>1, <1>3, <1>4 DEF VisitInv
<1>7. Stream = {"a", "b"} /\ Other("a") = "b" /\ Other("b") = "a"
  BY DEF Stream, Other
<1>8. PICK fa, fb, ca, cb, r \in Nat : /\ fa = First["a"] /\ fb = First["b"]
                                       /\ ca = count["a"] /\ cb = count["b"] /\ r = residence[i]
  BY <1>1, <1>3, <1>7, ServedIs DEF DataInv
<1>9. (fa <= ca => fb <= fa) /\ (fb <= cb => fa <= fb + 1)
  <2>1. (fa <= ca => fb + 1 <= fa + 1) /\ (fb <= cb => fa + 1 <= fb + 2)
    BY <1>1, <1>8 DEF LagInv
  <2> QED BY ONLY <1>8, <2>1
<1>10. CASE s = "a"
  <2>1. fa <= n /\ n <= ca /\ (r = 0 \/ r + n <= fb + 1)
    BY <1>5, <1>6, <1>7, <1>8, <1>10 DEF Slack
  <2> QED BY ONLY <1>8, <1>9, <2>1, n \in Nat
<1>11. CASE s = "b"
  <2>1. fb <= n /\ n <= cb /\ (r = 0 \/ r + n <= fa + 2)
    BY <1>5, <1>6, <1>7, <1>8, <1>11 DEF Slack
  <2> QED BY ONLY <1>8, <1>9, <2>1, n \in Nat
<1> QED BY <1>7, <1>10, <1>11

\* However many packets the testcase random sends and whatever the
\* backpressure: a captured item equals one of the next four references, so
\* that the match window of the bench never gives a false mismatch, and no
\* reference is passed over so often that it raises.
THEOREM WindowIsWideEnough == BenchSpec => []WindowSuffices
<1> DEFINE Inv == StreamInv /\ LockInv /\ WindowInv /\ StayInv
<1>1. BenchInit => Inv
  BY InitStream, InitLocks, InitWindow, InitStay
<1>2. Inv /\ [BenchNext]_bvars => Inv'
  BY StepStream, StepLocks, StepWindow, StepStay DEF StreamInv
<1>3. Inv => WindowSuffices
  BY StayIsShort DEF WindowInv, WindowSuffices, StreamInv
<1> QED BY <1>1, <1>2, <1>3, PTL DEF BenchSpec

=============================================================================
