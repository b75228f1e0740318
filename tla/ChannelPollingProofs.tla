------------------------- MODULE ChannelPollingProofs -------------------------
(***************************************************************************)
(* A scoreboard channel with several reference queues and its timeout:     *)
(* theorems about ChannelPolling, and so about FunnelChannel, for every    *)
(* timeout, polling period, number of streams and amount of traffic.       *)
(***************************************************************************)
EXTENDS ChannelPolling, FiniteSetTheorems, SequenceTheorems,
        WellFoundedInduction, TLAPS

USE NamesAssumption, StreamAssumption, FunnelBoundAssumption, LimitsAssumption,
    PeriodAssumption

-----------------------------------------------------------------------------
(* The inductive invariant *)

FunnelType ==
    /\ mon \in Seq(Data)
    /\ refs \in [QueueName -> Seq(Data)]
    /\ loop \in {"await_mon", "match", "await_ref"}
    /\ refPushed \in BOOLEAN

\* A loop that waits for a prediction and has not been woken has looked at
\* the front of every queue, and nothing has come since.
WaitInv ==
    /\ loop \in {"match", "await_ref"} => mon # <<>>
    /\ loop = "await_ref" /\ ~refPushed => Candidates = {} /\ AnyEmpty

TimeType ==
    /\ limit \in Limits /\ due \in 0 .. Period
    /\ age \in Seq(Nat) /\ Len(age) = Len(mon)

\* The front is the oldest, and what was not too old at the last look has
\* grown older by no more than the time since.
AgeInv ==
    /\ \A i, j \in 1 .. Len(age) : i <= j => age[j] <= age[i]
    /\ limit # NoLimit =>
         \A i \in 1 .. Len(age) : age[i] <= limit + (Period - due)

PollInv == FunnelType /\ WaitInv /\ TimeType /\ AgeInv

LEMMA InitPoll == PollInit => PollInv
<1> SUFFICES ASSUME PollInit PROVE PollInv
  OBVIOUS
<1>1. FunnelType /\ WaitInv
  <2>1. mon = <<>> /\ refs = [q \in QueueName |-> <<>>] /\ loop = "await_mon"
        /\ refPushed = FALSE /\ <<>> \in Seq(Data)
    BY DEF PollInit, Init
  <2> QED BY ONLY <2>1 DEF FunnelType, WaitInv
<1>2. age = <<>> /\ mon = <<>> /\ Len(<<>>) = 0 /\ <<>> \in Seq(Nat)
  BY DEF PollInit, Init
<1>3. TimeType /\ AgeInv
  BY <1>2 DEF PollInit, TimeType, AgeInv
<1> QED BY <1>1, <1>3 DEF PollInv

-----------------------------------------------------------------------------
(* The channel *)

\* A set of naturals has a least member, which is the one that Min chooses.
LEMMA LeastMember ==
    ASSUME NEW S, S \subseteq Nat, S # {}
    PROVE  Min(S) \in S /\ \A y \in S : Min(S) <= y
<1>1. \E x \in S : \A y \in S : ~ (<<y, x>> \in OpToRel(<, Nat))
  BY NatLessThanWellFounded, WFMin
<1>2. PICK x \in S : \A y \in S : ~ (<<y, x>> \in OpToRel(<, Nat))
  BY <1>1
<1>3. \A y \in S : x <= y
  <2> TAKE y \in S
  <2>1. x \in Nat /\ y \in Nat /\ ~ (y < x)
    BY <1>2 DEF OpToRel
  <2> QED BY <2>1
<1> QED BY <1>2, <1>3 DEF Min

\* A step of the channel takes at most one transaction off the front or adds
\* one at the end.
LEMMA MonStep ==
    ASSUME FunnelType, WaitInv, Next
    PROVE  /\ FunnelType'
           /\ \/ mon' = mon
              \/ \E d \in Data : mon' = Append(mon, d)
              \/ mon # <<>> /\ mon' = Tail(mon)
<1> USE DEF FunnelType
<1>1. ASSUME NEW d \in Data, Capture(d)
      PROVE  FunnelType' /\ mon' = Append(mon, d)
  BY <1>1 DEF Capture
<1>2. ASSUME NEW d \in Data, NEW q \in QueueName, PushReference(q, d)
      PROVE  FunnelType' /\ mon' = mon
  <2>1. Append(refs[q], d) \in Seq(Data)
    OBVIOUS
  <2> QED BY <1>2, <2>1 DEF PushReference, Notify
<1>3. ASSUME NEW q \in QueueName, refs[q] # <<>>, loop = "match", Compare(q)
      PROVE  FunnelType' /\ mon # <<>> /\ mon' = Tail(mon)
  <2>1. Tail(refs[q]) \in Seq(Data) /\ mon # <<>>
    BY <1>3 DEF WaitInv
  <2>2. Tail(mon) \in Seq(Data)
    BY <2>1
  <2> QED BY <1>3, <2>1, <2>2 DEF Compare
<1>4. CASE TakeCandidate
  <2>1. Min(Candidates) \in Candidates
    <3>1. Candidates \subseteq Nat
      BY DEF Candidates
    <3> QED BY <1>4, <3>1, LeastMember DEF TakeCandidate
  <2>2. Names[Min(Candidates)] \in QueueName /\ refs[Names[Min(Candidates)]] # <<>>
    BY <2>1 DEF Candidates
  <2> QED BY <1>3, <1>4, <2>2 DEF TakeCandidate
<1>5. CASE ReportMismatch
  <2>1. Names[Len(Names)] \in QueueName
    OBVIOUS
  <2> QED BY <1>3, <1>5, <2>1 DEF ReportMismatch
<1>6. CASE StartMatch \/ AwaitReference \/ ReferenceArrived \/ StartDrain \/ FinishDrain
  BY <1>6 DEF StartMatch, AwaitReference, ReferenceArrived, StartDrain, FinishDrain, tbVars
<1> QED BY <1>1, <1>2, <1>4, <1>5, <1>6 DEF Next, LoopStep

\* A loop that has gone to sleep with nothing to match is woken by whatever
\* could change that.
LEMMA WaitStep ==
    ASSUME FunnelType, WaitInv, Next
    PROVE  WaitInv'
<1> USE DEF FunnelType, WaitInv
<1>1. ASSUME NEW d \in Data, Capture(d) PROVE WaitInv'
  <2>1. mon' # <<>> /\ (mon # <<>> => Head(mon') = Head(mon))
    <3>1. mon' = Append(mon, d) /\ Len(mon) \in Nat
      BY <1>1 DEF Capture
    <3>2. Len(mon') = Len(mon) + 1 /\ mon' \in Seq(Data)
      BY <3>1
    <3>3. mon # <<>> => 1 \in 1 .. Len(mon) /\ mon'[1] = mon[1]
      BY <3>1
    <3>4. mon' # <<>>
      BY ONLY <3>1, <3>2
    <3>5. mon # <<>> => Head(mon') = mon'[1] /\ Head(mon) = mon[1]
      BY ONLY <3>2, <3>4
    <3> QED BY ONLY <3>3, <3>4, <3>5
  <2>2. loop' = loop /\ refs' = refs /\ refPushed' = refPushed
    BY <1>1 DEF Capture
  <2>3. mon # <<>> => Candidates' = Candidates
    BY <2>1, <2>2 DEF Candidates
  <2>4. AnyEmpty' = AnyEmpty
    BY <2>2 DEF AnyEmpty
  <2> QED BY <2>1, <2>2, <2>3, <2>4
<1>2. ASSUME NEW d \in Data, NEW q \in QueueName, PushReference(q, d) PROVE WaitInv'
  BY <1>2 DEF PushReference, Notify
<1>3. CASE TakeCandidate \/ ReportMismatch
  BY <1>3 DEF TakeCandidate, ReportMismatch, Compare
<1>4. CASE StartMatch
  BY <1>4 DEF StartMatch
<1>5. CASE AwaitReference
  <2>1. mon' = mon /\ refs' = refs /\ mon # <<>>
    BY <1>5 DEF AwaitReference
  <2>2. Candidates' = Candidates /\ AnyEmpty' = AnyEmpty
    BY <2>1 DEF Candidates, AnyEmpty
  <2> QED BY <1>5, <2>1, <2>2 DEF AwaitReference
<1>6. CASE ReferenceArrived
  BY <1>6 DEF ReferenceArrived
<1>7. CASE StartDrain \/ FinishDrain
  <2>1. UNCHANGED <<mon, refs, loop, refPushed>>
    BY <1>7 DEF StartDrain, FinishDrain
  <2>2. Candidates' = Candidates /\ AnyEmpty' = AnyEmpty
    BY <2>1 DEF Candidates, AnyEmpty
  <2> QED BY <2>1, <2>2
<1> QED BY <1>1, <1>2, <1>3, <1>4, <1>5, <1>6, <1>7 DEF Next, LoopStep

-----------------------------------------------------------------------------
(* Time *)

\* The ages go with the transactions of the queue.
LEMMA StampedAges ==
    ASSUME PollInv, Stamped,
           \/ mon' = mon
           \/ \E d \in Data : mon' = Append(mon, d)
           \/ mon # <<>> /\ mon' = Tail(mon)
    PROVE  TimeType' /\ AgeInv'
<1> USE DEF PollInv, FunnelType, TimeType, AgeInv
<1>1. Len(mon) \in Nat /\ age \in Seq(Nat) /\ Len(age) = Len(mon)
      /\ limit' = limit /\ due' = due /\ due \in 0 .. Period
      /\ (limit # NoLimit => limit \in Nat)
  BY DEF Stamped
<1>2. CASE mon' = mon
  <2>1. age' = SubSeq(age, 1, Len(age))
    BY <1>1, <1>2 DEF Stamped
  <2>2. age' = age
    BY <1>1, <2>1
  <2> QED BY <1>1, <1>2, <2>2
<1>3. CASE \E d \in Data : mon' = Append(mon, d)
  <2>1. Len(mon') = Len(mon) + 1
    BY <1>3
  <2>2. age' = Append(age, 0)
    BY <1>1, <2>1 DEF Stamped
  <2>3. /\ age' \in Seq(Nat) /\ Len(age') = Len(age) + 1
        /\ \A i \in 1 .. Len(age) : age'[i] = age[i]
        /\ age'[Len(age) + 1] = 0
    BY <1>1, <2>2, AppendProperties
  <2>4. \A i \in 1 .. Len(age') : i \in 1 .. Len(age) \/ i = Len(age) + 1
    BY <1>1, <2>3
  <2>5. \A i \in 1 .. Len(age) : age[i] \in Nat
    BY <1>1
  <2>6. ASSUME NEW i \in 1 .. Len(age'), NEW j \in 1 .. Len(age'), i <= j
        PROVE  age'[j] <= age'[i]
    <3>1. CASE j \in 1 .. Len(age)
      <4>1. i \in 1 .. Len(age)
        BY <1>1, <2>6, <3>1
      <4> QED BY <2>3, <2>6, <3>1, <4>1
    <3>2. CASE j = Len(age) + 1
      <4>1. age'[j] = 0
        BY <2>3, <3>2
      <4>2. age'[i] \in Nat
        BY ONLY <2>3, i \in 1 .. Len(age')
      <4> QED BY <4>1, <4>2
    <3> QED BY <2>4, <3>1, <3>2
  <2>7. ASSUME limit # NoLimit, NEW i \in 1 .. Len(age')
        PROVE  age'[i] <= limit + (Period - due)
    <3>1. CASE i \in 1 .. Len(age)
      BY <2>3, <2>7, <3>1
    <3>2. CASE i = Len(age) + 1
      <4>1. age'[i] = 0 /\ limit \in Nat /\ Period - due >= 0 /\ Period - due \in Int
        BY <1>1, <2>3, <2>7, <3>2
      <4> QED BY <4>1
    <3> QED BY <2>4, <3>1, <3>2
  <2> QED BY <1>1, <2>1, <2>3, <2>6, <2>7
<1>4. CASE mon # <<>> /\ mon' = Tail(mon)
  <2>1. Len(mon') = Len(mon) - 1
    BY <1>4
  <2>2. age' = SubSeq(age, 2, Len(age))
    BY <1>1, <2>1 DEF Stamped
  <2>3. age' = Tail(age) /\ age # <<>>
    <3>1. age \in Seq(Nat) /\ Len(age) > 0
      BY <1>1, <1>4
    <3> QED BY ONLY <2>2, <3>1
  <2>4. /\ age' \in Seq(Nat) /\ Len(age') = Len(age) - 1
        /\ \A i \in 1 .. Len(age') : age'[i] = age[i + 1] /\ i + 1 \in 1 .. Len(age)
    BY <1>1, <2>3
  <2>5. \A i, j \in 1 .. Len(age') : i <= j => age'[j] <= age'[i]
    BY <2>4
  <2>6. limit # NoLimit => \A i \in 1 .. Len(age') : age'[i] <= limit + (Period - due)
    BY <2>4
  <2> QED BY <1>1, <2>1, <2>4, <2>5, <2>6
<1> QED BY <1>2, <1>3, <1>4

\* Ageing respects the order of ages, and adds one at most.
LEMMA OlderStep ==
    ASSUME limit \in Limits, NEW a \in Nat
    PROVE  /\ Older(a) \in Nat
           /\ limit # NoLimit => Older(a) <= a + 1
           /\ \A b \in Nat : b <= a => Older(b) <= Older(a)
<1>1. CASE limit = NoLimit
  BY <1>1 DEF Older
<1>2. CASE limit # NoLimit
  <2>1. limit \in Nat /\ Period \in Nat
    BY <1>2
  <2> DEFINE top == limit + Period + 1
  <2>2. ASSUME NEW n \in Nat
        PROVE  Older(n) = IF n + 1 <= top THEN n + 1 ELSE top
    <3> DEFINE S == {n + 1, top}
    <3>1. S \subseteq Nat /\ S # {}
      BY <2>1
    <3>2. Older(n) = Min(S)
      BY <1>2 DEF Older
    <3> HIDE DEF top
    <3>3. Min(S) \in S /\ \A y \in S : Min(S) <= y
      BY <3>1, LeastMember
    <3>4. top \in Nat
      BY <2>1 DEF top
    <3> QED BY <3>2, <3>3, <3>4
  <2>3. top \in Nat
    BY <2>1
  <2> HIDE DEF top
  <2> QED BY <1>2, <2>2, <2>3
<1> QED BY <1>1, <1>2

LEMMA TickAges == ASSUME PollInv, Tick PROVE TimeType' /\ AgeInv'
<1> USE DEF PollInv, TimeType, AgeInv
<1>1. /\ age \in Seq(Nat) /\ limit' = limit /\ mon' = mon /\ due' = due - 1
      /\ due > 0 /\ due \in 0 .. Period /\ Len(age) \in Nat
      /\ age' = [i \in 1 .. Len(age) |-> Older(age[i])]
      /\ (limit # NoLimit => limit \in Nat)
      /\ \A i \in 1 .. Len(age) : age[i] \in Nat
  BY DEF Tick, vars
<1>2. /\ \A i \in 1 .. Len(age) : Older(age[i]) \in Nat
      /\ \A i \in 1 .. Len(age) : limit # NoLimit => Older(age[i]) <= age[i] + 1
      /\ \A i, j \in 1 .. Len(age) : age[j] <= age[i] => Older(age[j]) <= Older(age[i])
  BY <1>1, OlderStep
<1>3. age' \in Seq(Nat) /\ Len(age') = Len(age)
  BY <1>1, <1>2
<1>4. due' \in 0 .. Period
  BY <1>1
<1>5. \A i, j \in 1 .. Len(age') : i <= j => age'[j] <= age'[i]
  BY <1>1, <1>2, <1>3
<1>6. ASSUME limit # NoLimit, NEW i \in 1 .. Len(age')
      PROVE  age'[i] <= limit + (Period - due')
  <2>1. age'[i] = Older(age[i]) /\ i \in 1 .. Len(age)
    BY <1>1, <1>3, <1>6
  <2>2. age[i] <= limit + (Period - due) /\ age[i] \in Nat /\ Older(age[i]) \in Nat
        /\ Older(age[i]) <= age[i] + 1
    BY <1>1, <1>2, <1>6, <2>1
  <2> QED BY <1>1, <1>6, <2>1, <2>2
<1> QED BY <1>1, <1>3, <1>4, <1>5, <1>6

\* After a look that finds nothing too old, the ages start from the timeout.
LEMMA LookAges == ASSUME PollInv, PollAgain PROVE TimeType' /\ AgeInv'
<1> USE DEF PollInv, TimeType, AgeInv
<1>1. /\ age \in Seq(Nat) /\ limit' = limit /\ mon' = mon /\ due' = Period
      /\ age' = age /\ Len(age) \in Nat /\ ~TimedOut /\ Len(age) = Len(mon)
      /\ (limit # NoLimit => limit \in Nat)
      /\ \A i \in 1 .. Len(age) : age[i] \in Nat
  BY DEF PollAgain, vars
<1>2. ASSUME limit # NoLimit, NEW i \in 1 .. Len(age) PROVE age[i] <= limit
  <2>1. mon # <<>> /\ 1 \in 1 .. Len(age) /\ Head(age) = age[1]
    BY <1>1, <1>2 DEF FunnelType
  <2>2. age[1] <= limit
    BY <1>1, <1>2, <2>1 DEF TimedOut
  <2>3. age[i] <= age[1]
    BY <1>1, <2>1
  <2> QED BY <1>1, <1>2, <2>1, <2>2, <2>3
<1> QED BY <1>1, <1>2

LEMMA PollStep == PollInv /\ [PollNext]_pvars => PollInv'
<1> SUFFICES ASSUME PollInv, [PollNext]_pvars PROVE PollInv'
  OBVIOUS
<1>1. CASE ChannelStep
  <2>1. FunnelType /\ WaitInv /\ Next /\ Stamped
    BY <1>1 DEF PollInv, ChannelStep
  <2> QED BY <2>1, MonStep, WaitStep, StampedAges DEF PollInv
<1>2. ASSUME UNCHANGED vars PROVE FunnelType' /\ WaitInv'
  BY <1>2 DEF vars, PollInv, FunnelType, WaitInv, Candidates, AnyEmpty
<1>3. CASE Tick
  BY <1>2, <1>3, TickAges DEF Tick, PollInv
<1>4. CASE PollAgain
  BY <1>2, <1>4, LookAges DEF PollAgain, PollInv
<1>5. CASE RaiseTimeout \/ UNCHANGED pvars
  <2>1. UNCHANGED <<vars, limit, age, due>>
    BY <1>5 DEF RaiseTimeout, pvars, timeVars
  <2>2. TimeType' /\ AgeInv'
    BY <2>1 DEF PollInv, TimeType, AgeInv, vars
  <2> QED BY <1>2, <2>1, <2>2 DEF PollInv
<1> QED BY <1>1, <1>3, <1>4, <1>5 DEF PollNext, Polling

\* The invariant of a channel that is polled.
THEOREM PollInvariant == PollSpec => []PollInv
BY InitPoll, PollStep, PTL DEF PollSpec

-----------------------------------------------------------------------------
(* What has been paired *)

PairsType ==
    /\ pairs \in Seq(Data \X Data \X QueueName)
    /\ captured \in Seq(Data)
    /\ pushed \in [QueueName -> Seq(Data)]
    /\ \A q \in QueueName : \A i \in 1 .. Len(pushed[q]) : pushed[q][i] \in Stream[q]

\* The queue holds what is left of the whole when n have been taken.
Rest(whole, n, queue) ==
    /\ Len(whole) = n + Len(queue)
    /\ \A i \in 1 .. Len(queue) : queue[i] = whole[n + i]

\* A capture is in a pair or in the monitor's queue, in the order of capture.
CapturesKept == Rest(captured, Len(pairs), mon)

\* A prediction is in a pair or in its queue, in the order of prediction.
ReferencesKept ==
    \A q \in QueueName : Rest(pushed[q], Taken(q, Len(pairs)), refs[q])

\* The k-th pair holds the k-th capture and the next prediction of its queue.
PairInOrder(k) ==
    LET q == pairs[k][3] IN
    /\ pairs[k][1] = captured[k]
    /\ Taken(q, k) <= Len(pushed[q])
    /\ pairs[k][2] = pushed[q][Taken(q, k)]

\* A mismatch was reported when the next prediction of every stream was there
\* and was not the capture.
MismatchSeen(k) ==
    pairs[k][1] # pairs[k][2] =>
      \A q \in QueueName :
          /\ Taken(q, k - 1) + 1 <= Len(pushed[q])
          /\ pushed[q][Taken(q, k - 1) + 1] # captured[k]

PairsInv ==
    /\ PairsType /\ CapturesKept /\ ReferencesKept
    /\ \A k \in 1 .. Len(pairs) : PairInOrder(k) /\ MismatchSeen(k)

LEMMA RestPop ==
    ASSUME NEW D, NEW whole, NEW n \in Nat, NEW queue \in Seq(D), queue # <<>>,
           Rest(whole, n, queue)
    PROVE  /\ Rest(whole, n + 1, Tail(queue))
           /\ n + 1 <= Len(whole) /\ Head(queue) = whole[n + 1]
<1>0. /\ Len(queue) \in Nat /\ Len(queue) >= 1 /\ Len(Tail(queue)) = Len(queue) - 1
      /\ Head(queue) = queue[1]
  BY ONLY queue \in Seq(D), queue # <<>>, HeadTailProperties
<1>1. /\ Len(queue) \in Nat /\ Len(queue) >= 1 /\ Len(Tail(queue)) = Len(queue) - 1
      /\ Head(queue) = queue[1]
      /\ \A i \in 1 .. Len(Tail(queue)) : Tail(queue)[i] = queue[i + 1]
  BY ONLY <1>0, queue \in Seq(D), queue # <<>>, HeadTailProperties
<1>2. ASSUME NEW i \in 1 .. Len(Tail(queue)) PROVE Tail(queue)[i] = whole[(n + 1) + i]
  <2>1. i + 1 \in 1 .. Len(queue) /\ n + (i + 1) = (n + 1) + i
    BY ONLY <1>1, <1>2, n \in Nat
  <2>2. Tail(queue)[i] = queue[i + 1]
    BY ONLY <1>1, <1>2
  <2>3. queue[i + 1] = whole[n + (i + 1)]
    BY ONLY <2>1, Rest(whole, n, queue) DEF Rest
  <2> QED BY ONLY <2>1, <2>2, <2>3
<1>3. Len(whole) = n + Len(queue) /\ \A i \in 1 .. Len(queue) : queue[i] = whole[n + i]
  BY ONLY Rest(whole, n, queue) DEF Rest
<1>4. 1 \in 1 .. Len(queue)
  BY ONLY <1>1
<1>5. Len(whole) = (n + 1) + Len(Tail(queue)) /\ n + 1 <= Len(whole)
  <2>1. Len(whole) = n + Len(queue)
    BY ONLY Rest(whole, n, queue) DEF Rest
  <2>2. PICK a \in Nat, b \in Int, c \in Int :
            /\ a = Len(queue) /\ b = Len(Tail(queue)) /\ c = Len(whole)
            /\ c = n + a /\ b = a - 1 /\ a >= 1
    <3>1. Len(Tail(queue)) \in Int /\ Len(whole) \in Int
      BY ONLY <1>0, <2>1, n \in Nat
    <3> QED BY ONLY <1>0, <2>1, <3>1
  <2>3. c = (n + 1) + b /\ n + 1 <= c
    <3>1. c = n + a /\ b = a - 1 /\ a >= 1
      BY ONLY <2>2
    <3> QED BY ONLY <3>1, n \in Nat, a \in Nat, b \in Int, c \in Int
  <2> QED BY ONLY <2>2, <2>3
<1>6. Head(queue) = whole[n + 1]
  BY ONLY <1>1, <1>3, <1>4
<1> QED BY ONLY <1>2, <1>5, <1>6 DEF Rest

LEMMA RestPush ==
    ASSUME NEW D, NEW whole \in Seq(D), NEW n \in Nat, NEW queue \in Seq(D),
           NEW d \in D, Rest(whole, n, queue)
    PROVE  Rest(Append(whole, d), n, Append(queue, d))
<1>1. /\ Len(queue) \in Nat /\ Len(whole) \in Nat
      /\ Len(Append(queue, d)) = Len(queue) + 1
      /\ Len(Append(whole, d)) = Len(whole) + 1
      /\ \A i \in 1 .. Len(queue) : Append(queue, d)[i] = queue[i]
      /\ \A i \in 1 .. Len(whole) : Append(whole, d)[i] = whole[i]
      /\ Append(queue, d)[Len(queue) + 1] = d /\ Append(whole, d)[Len(whole) + 1] = d
  BY ONLY whole \in Seq(D), queue \in Seq(D), d \in D, AppendProperties
<1>2. Len(whole) = n + Len(queue) /\ \A i \in 1 .. Len(queue) : queue[i] = whole[n + i]
  BY ONLY Rest(whole, n, queue) DEF Rest
<1>3. ASSUME NEW i \in 1 .. Len(queue) + 1
      PROVE  Append(queue, d)[i] = Append(whole, d)[n + i]
  <2>1. CASE i \in 1 .. Len(queue)
    <3>1. n + i \in 1 .. Len(whole)
      BY ONLY <1>1, <1>2, <2>1, n \in Nat
    <3> QED BY ONLY <1>1, <1>2, <2>1, <3>1
  <2>2. CASE i = Len(queue) + 1
    <3>1. n + i = Len(whole) + 1
      BY ONLY <1>1, <1>2, <2>2, n \in Nat
    <3> QED BY ONLY <1>1, <2>2, <3>1
  <2>3. i \in 1 .. Len(queue) \/ i = Len(queue) + 1
    <3>1. Len(queue) \in Nat
      BY ONLY <1>1
    <3> QED BY ONLY <1>3, <3>1
  <2> QED BY ONLY <2>1, <2>2, <2>3
<1>4. Len(Append(whole, d)) = n + Len(Append(queue, d))
  BY ONLY <1>1, <1>2, n \in Nat
<1> QED BY ONLY <1>1, <1>3, <1>4 DEF Rest

UpTo(T, k) == {j \in 1 .. k : j \in T}

\* Counting the members of a set up to k, one number further.
LEMMA CountOneMore ==
    ASSUME NEW k \in Nat, NEW T
    PROVE  /\ Cardinality(UpTo(T, k)) \in Nat
           /\ Cardinality(UpTo(T, k + 1)) =
                IF k + 1 \in T THEN Cardinality(UpTo(T, k)) + 1
                ELSE Cardinality(UpTo(T, k))
           /\ Cardinality(UpTo(T, 0)) = 0
<1>1. IsFiniteSet(UpTo(T, k)) /\ Cardinality(UpTo(T, k)) \in Nat
  <2>1. IsFiniteSet(1 .. k)
    <3>1. 1 \in Int /\ k \in Int
      OBVIOUS
    <3> QED BY ONLY <3>1, FS_Interval
  <2>2. UpTo(T, k) \in SUBSET (1 .. k)
    BY ONLY DEF UpTo
  <2> QED BY ONLY <2>1, <2>2, FS_Subset, FS_CardinalityType
<1>2. Cardinality(UpTo(T, 0)) = 0
  <2>1. UpTo(T, 0) = {}
    BY ONLY DEF UpTo
  <2> QED BY ONLY <2>1, FS_EmptySet
<1>3. CASE k + 1 \in T
  <2>1. UpTo(T, k + 1) = UpTo(T, k) \cup {k + 1} /\ k + 1 \notin UpTo(T, k)
    BY ONLY k \in Nat, <1>3 DEF UpTo
  <2> QED BY ONLY <1>1, <1>2, <1>3, <2>1, FS_AddElement
<1>4. CASE k + 1 \notin T
  <2>1. UpTo(T, k + 1) = UpTo(T, k)
    BY ONLY k \in Nat, <1>4 DEF UpTo
  <2> QED BY ONLY <1>1, <1>2, <1>4, <2>1
<1> QED BY ONLY <1>3, <1>4

\* How many of the first k members of p name q.
From(p, q, k) == Cardinality({j \in 1 .. k : p[j][3] = q})

\* What is taken from a queue grows by the pairs that take from it.
LEMMA PairsCounted ==
    ASSUME NEW p, NEW k \in Nat, NEW q
    PROVE  /\ From(p, q, k) \in Nat
           /\ From(p, q, k + 1) =
                IF p[k + 1][3] = q THEN From(p, q, k) + 1 ELSE From(p, q, k)
           /\ From(p, q, 0) = 0
<1> DEFINE T == {j \in Nat : p[j][3] = q}
<1>1. \A n \in Nat : From(p, q, n) = Cardinality(UpTo(T, n))
  <2> TAKE n \in Nat
  <2>1. {j \in 1 .. n : p[j][3] = q} = UpTo(T, n)
    BY ONLY DEF UpTo
  <2> QED BY ONLY <2>1 DEF From
<1>2. k + 1 \in T <=> p[k + 1][3] = q
  BY ONLY k \in Nat
<1> HIDE DEF T
<1>3. k + 1 \in Nat /\ 0 \in Nat
  BY ONLY k \in Nat
<1> QED BY ONLY k \in Nat, <1>1, <1>2, <1>3, CountOneMore

LEMMA TakenFrom == \A q, k : Taken(q, k) = From(pairs, q, k)
BY DEF Taken, Quantify, From

LEMMA TakenOneMore ==
    ASSUME NEW k \in Nat, NEW q
    PROVE  /\ Taken(q, k) \in Nat
           /\ Taken(q, k + 1) =
                IF pairs[k + 1][3] = q THEN Taken(q, k) + 1 ELSE Taken(q, k)
           /\ Taken(q, 0) = 0
<1>1. /\ Taken(q, k) = From(pairs, q, k) /\ Taken(q, 0) = From(pairs, q, 0)
      /\ Taken(q, k + 1) = From(pairs, q, k + 1)
  BY ONLY TakenFrom
<1>2. /\ From(pairs, q, k) \in Nat
      /\ From(pairs, q, k + 1) =
           IF pairs[k + 1][3] = q THEN From(pairs, q, k) + 1 ELSE From(pairs, q, k)
      /\ From(pairs, q, 0) = 0
  <2>1. PICK p : p = pairs
    OBVIOUS
  <2>2. /\ From(p, q, k) \in Nat
        /\ From(p, q, k + 1) = IF p[k + 1][3] = q THEN From(p, q, k) + 1 ELSE From(p, q, k)
        /\ From(p, q, 0) = 0
    BY ONLY k \in Nat, PairsCounted
  <2> QED BY ONLY <2>1, <2>2
<1> QED BY ONLY <1>1, <1>2

\* A pair counts itself.
LEMMA TakenPositive ==
    ASSUME NEW k \in Nat, k > 0
    PROVE  Taken(pairs[k][3], k) >= 1
<1> DEFINE m == k - 1
<1>1. m \in Nat /\ m + 1 = k
  BY ONLY k \in Nat, k > 0
<1> HIDE DEF m
<1>2. /\ Taken(pairs[k][3], m) \in Nat
      /\ Taken(pairs[k][3], m + 1) =
           IF pairs[m + 1][3] = pairs[k][3] THEN Taken(pairs[k][3], m) + 1
           ELSE Taken(pairs[k][3], m)
  BY ONLY <1>1, TakenOneMore
<1> QED BY ONLY <1>1, <1>2

\* A pair that is there counts as it did.
LEMMA TakenKept ==
    ASSUME PairsType, NEW q, NEW k \in 0 .. Len(pairs),
           pairs' = pairs \/ \E p : pairs' = Append(pairs, p)
    PROVE  Taken(q, k)' = Taken(q, k)
<1>1. \A j \in 1 .. k : pairs'[j] = pairs[j]
  <2>1. pairs \in Seq(Data \X Data \X QueueName) /\ k \in Nat /\ k <= Len(pairs)
    BY DEF PairsType
  <2>2. CASE pairs' = pairs
    BY ONLY <2>2
  <2>3. ASSUME NEW p, pairs' = Append(pairs, p) PROVE \A j \in 1 .. k : pairs'[j] = pairs[j]
    <3>1. \A j \in 1 .. k : j \in 1 .. Len(pairs)
      BY ONLY <2>1
    <3> QED BY ONLY <2>1, <2>3, <3>1
  <2> QED BY <2>2, <2>3
<1>2. {j \in 1 .. k : pairs'[j][3] = q} = {j \in 1 .. k : pairs[j][3] = q}
  BY ONLY <1>1
<1> QED BY ONLY <1>2 DEF Taken, Quantify

\* The pairs say the same as before when no pair is added.
LEMMA PairsUntouched ==
    ASSUME PairsInv, PairsType', pairs' = pairs,
           \A k \in 1 .. Len(pairs) : captured'[k] = captured[k],
           \A q \in QueueName :
               /\ Len(pushed'[q]) >= Len(pushed[q])
               /\ \A i \in 1 .. Len(pushed[q]) : pushed'[q][i] = pushed[q][i]
    PROVE  \A k \in 1 .. Len(pairs') : (PairInOrder(k) /\ MismatchSeen(k))'
<1> SUFFICES ASSUME NEW k \in 1 .. Len(pairs')
             PROVE  PairInOrder(k)' /\ MismatchSeen(k)'
  OBVIOUS
<1>1. /\ Len(pairs) \in Nat /\ k \in 1 .. Len(pairs) /\ k \in Nat /\ k - 1 \in Nat
      /\ pairs[k][3] \in QueueName
      /\ \A q \in QueueName : Len(pushed[q]) \in Nat /\ Len(pushed'[q]) \in Nat
  <2>1. pairs \in Seq(Data \X Data \X QueueName) /\ pairs' = pairs
    BY DEF PairsInv, PairsType
  <2>2. Len(pairs) \in Nat /\ k \in 1 .. Len(pairs) /\ k \in Nat /\ k - 1 \in Nat
    BY ONLY <2>1, k \in 1 .. Len(pairs')
  <2>3. pairs[k] \in Data \X Data \X QueueName
    BY ONLY <2>1, <2>2
  <2>4. pairs[k][3] \in QueueName
    BY ONLY <2>3
  <2>5. \A q \in QueueName : pushed[q] \in Seq(Data) /\ pushed'[q] \in Seq(Data)
    BY DEF PairsInv, PairsType
  <2> QED BY ONLY <2>2, <2>4, <2>5, LenProperties
<1>2. \A q \in QueueName : \A j \in 0 .. Len(pairs) : Taken(q, j)' = Taken(q, j)
  BY TakenKept DEF PairsInv
<1>3. k - 1 \in 0 .. Len(pairs) /\ k \in 0 .. Len(pairs)
  BY ONLY <1>1
<1>4. PairInOrder(k) /\ MismatchSeen(k)
  BY <1>1 DEF PairsInv
<1>5. \A q \in QueueName : Taken(q, k - 1) \in Nat /\ Taken(q, k) \in Nat
  BY <1>1, TakenOneMore
<1>6. Taken(pairs[k][3], k) >= 1
  <2>1. k > 0
    BY ONLY <1>1
  <2> QED BY ONLY <1>1, <2>1, TakenPositive
<1>7. PairInOrder(k)'
  <2> DEFINE q == pairs[k][3]  t == Taken(q, k)
  <2>1. q \in QueueName /\ t \in Nat /\ t >= 1 /\ t <= Len(pushed[q])
        /\ pairs[k][1] = captured[k] /\ pairs[k][2] = pushed[q][t]
    BY <1>1, <1>4, <1>5, <1>6 DEF PairInOrder
  <2>2. t \in 1 .. Len(pushed[q]) /\ t <= Len(pushed'[q])
    BY ONLY <1>1, <2>1, Len(pushed'[q]) >= Len(pushed[q])
  <2>3. pushed'[q][t] = pushed[q][t] /\ captured'[k] = captured[k]
    BY <1>1, <2>1, <2>2
  <2>4. pairs'[k][3] = q /\ Taken(q, k)' = t
    BY <1>2, <1>3, <2>1
  <2> QED BY <2>1, <2>2, <2>3, <2>4 DEF PairInOrder
<1>8. MismatchSeen(k)'
  <2> SUFFICES ASSUME pairs[k][1] # pairs[k][2], NEW q \in QueueName
               PROVE  /\ Taken(q, k - 1) + 1 <= Len(pushed'[q])
                      /\ pushed'[q][Taken(q, k - 1) + 1] # captured'[k]
    BY <1>2, <1>3 DEF MismatchSeen
  <2>1. /\ Taken(q, k - 1) \in Nat /\ Taken(q, k - 1) + 1 <= Len(pushed[q])
        /\ pushed[q][Taken(q, k - 1) + 1] # captured[k]
    BY <1>4, <1>5 DEF MismatchSeen
  <2> DEFINE t == Taken(q, k - 1) + 1
  <2>2. t \in 1 .. Len(pushed[q]) /\ t <= Len(pushed[q]) /\ pushed[q][t] # captured[k]
    BY ONLY <1>1, <2>1
  <2> HIDE DEF t
  <2>3. pushed'[q][t] = pushed[q][t] /\ captured'[k] = captured[k]
    BY <1>1, <2>2
  <2>4. t <= Len(pushed'[q])
    BY ONLY <1>1, <2>2, Len(pushed'[q]) >= Len(pushed[q]), t \in 1 .. Len(pushed[q])
  <2> QED BY ONLY <2>2, <2>3, <2>4 DEF t
<1> QED BY <1>7, <1>8

\* Comparing the front of the monitor's queue with the front of q.
LEMMA CompareKeeps ==
    ASSUME FunnelType, PairsInv, NEW q \in QueueName, mon # <<>>, refs[q] # <<>>,
           Compare(q),
           Head(mon) # Head(refs[q]) =>
             \A r \in QueueName : refs[r] # <<>> /\ Head(refs[r]) # Head(mon)
    PROVE  PairsInv'
<1>n. PICK n \in Nat : n = Len(pairs)
  BY DEF PairsInv, PairsType
<1>1. /\ pairs \in Seq(Data \X Data \X QueueName) /\ mon \in Seq(Data)
      /\ \A r \in QueueName : refs[r] \in Seq(Data)
      /\ n \in Nat /\ n = Len(pairs)
      /\ captured' = captured /\ pushed' = pushed /\ mon' = Tail(mon)
      /\ refs'[q] = Tail(refs[q])
      /\ \A r \in QueueName \ {q} : refs'[r] = refs[r]
      /\ pairs' = Append(pairs, <<Head(mon), Head(refs[q]), q>>)
  BY <1>n DEF FunnelType, PairsInv, PairsType, Compare, tbVars
<1>2. /\ pairs' \in Seq(Data \X Data \X QueueName) /\ Len(pairs') = n + 1
      /\ \A k \in 1 .. n : pairs'[k] = pairs[k]
      /\ pairs'[n + 1] = <<Head(mon), Head(refs[q]), q>>
  <2>1. Head(mon) \in Data /\ Head(refs[q]) \in Data
    BY ONLY <1>1, mon # <<>>, refs[q] # <<>>, q \in QueueName, HeadTailProperties
  <2>2. <<Head(mon), Head(refs[q]), q>> \in Data \X Data \X QueueName
    BY ONLY <2>1, q \in QueueName
  <2> QED BY ONLY <1>1, <2>2, AppendProperties
<1>3. \A r \in QueueName : \A k \in 0 .. n :
        Taken(r, k)' = Taken(r, k) /\ Taken(r, k) \in Nat
  <2>1. \A k \in 0 .. n : k \in Nat
    BY ONLY <1>1
  <2>2. \E p : pairs' = Append(pairs, p)
    BY ONLY <1>1
  <2> QED BY <1>1, <2>1, <2>2, TakenKept, TakenOneMore DEF PairsInv
<1>4. \A r \in QueueName :
        Taken(r, n + 1)' = IF r = q THEN Taken(r, n) + 1 ELSE Taken(r, n)
  <2> TAKE r \in QueueName
  <2>1. Taken(r, n + 1)' = IF pairs'[n + 1][3] = r THEN Taken(r, n)' + 1 ELSE Taken(r, n)'
    <3>1. \A k : Taken(r, k)' = From(pairs', r, k)
      BY ONLY DEF Taken, Quantify, From
    <3>2. From(pairs', r, n + 1) =
            IF pairs'[n + 1][3] = r THEN From(pairs', r, n) + 1 ELSE From(pairs', r, n)
      BY ONLY n \in Nat, PairsCounted
    <3> QED BY ONLY <3>1, <3>2
  <2>2. pairs'[n + 1][3] = q
    BY ONLY <1>2
  <2>3. n \in 0 .. n
    BY ONLY <1>1
  <2> QED BY ONLY <1>3, <2>1, <2>2, <2>3
<1>5. /\ Rest(captured, n, mon)
      /\ \A r \in QueueName : Rest(pushed[r], Taken(r, n), refs[r])
      /\ \A k \in 1 .. n : PairInOrder(k) /\ MismatchSeen(k)
  BY <1>1 DEF PairsInv, CapturesKept, ReferencesKept
<1>6. PairsType'
  BY <1>1, <1>2 DEF PairsInv, PairsType
<1>7. /\ Rest(captured, n + 1, Tail(mon)) /\ Head(mon) = captured[n + 1]
  BY ONLY <1>1, <1>5, mon # <<>>, RestPop
<1>8. \A r \in QueueName : Taken(r, n) \in Nat
  <2>1. n \in 0 .. n
    BY ONLY <1>1
  <2> QED BY ONLY <1>3, <2>1
<1>9. \A r \in QueueName : refs[r] # <<>> =>
        /\ Rest(pushed[r], Taken(r, n) + 1, Tail(refs[r]))
        /\ Taken(r, n) + 1 <= Len(pushed[r])
        /\ Head(refs[r]) = pushed[r][Taken(r, n) + 1]
  <2> TAKE r \in QueueName
  <2>1. Taken(r, n) \in Nat /\ refs[r] \in Seq(Data) /\ Rest(pushed[r], Taken(r, n), refs[r])
    BY ONLY <1>1, <1>5, <1>8, r \in QueueName
  <2> QED BY ONLY <2>1, RestPop
<1>10. CapturesKept'
  BY ONLY <1>1, <1>2, <1>7 DEF CapturesKept
<1>11. ReferencesKept'
  <2> SUFFICES ASSUME NEW r \in QueueName
               PROVE  Rest(pushed[r], Taken(r, n + 1)', refs'[r])
    BY ONLY <1>1, <1>2, \A r \in QueueName : Rest(pushed[r], Taken(r, n + 1)', refs'[r])
       DEF ReferencesKept
  <2>1. CASE r = q
    BY ONLY <1>1, <1>4, <1>9, <2>1, r \in QueueName, refs[q] # <<>>
  <2>2. CASE r # q
    BY ONLY <1>1, <1>4, <1>5, <2>2, r \in QueueName
  <2> QED BY ONLY <2>1, <2>2
<1>12. ASSUME NEW k \in 1 .. n PROVE PairInOrder(k)' /\ MismatchSeen(k)'
  <2>1. k \in 0 .. n /\ k - 1 \in 0 .. n /\ pairs'[k] = pairs[k]
    BY ONLY <1>1, <1>2, <1>12
  <2>2. pairs[k][3] \in QueueName
    <3>1. pairs[k] \in Data \X Data \X QueueName
      BY ONLY <1>1, <1>12
    <3> QED BY ONLY <3>1
  <2>3. PairInOrder(k) /\ MismatchSeen(k)
    BY ONLY <1>5, <1>12
  <2>4. /\ \A r \in QueueName : Taken(r, k)' = Taken(r, k)
        /\ \A r \in QueueName : Taken(r, k - 1)' = Taken(r, k - 1)
    BY ONLY <1>3, <2>1
  <2>5. PairInOrder(k)'
    BY ONLY <1>1, <2>1, <2>2, <2>3, <2>4 DEF PairInOrder
  <2>6. MismatchSeen(k)'
    BY ONLY <1>1, <2>1, <2>3, <2>4 DEF MismatchSeen
  <2> QED BY ONLY <2>5, <2>6
<1>13. PairInOrder(n + 1)'
  <2>1. /\ pairs'[n + 1][1] = captured[n + 1] /\ pairs'[n + 1][2] = Head(refs[q])
        /\ pairs'[n + 1][3] = q
    BY ONLY <1>2, <1>7
  <2>2. Taken(q, n + 1)' = Taken(q, n) + 1
    BY ONLY <1>4, q \in QueueName
  <2>3. Taken(q, n) + 1 <= Len(pushed[q]) /\ Head(refs[q]) = pushed[q][Taken(q, n) + 1]
    BY ONLY <1>9, q \in QueueName, refs[q] # <<>>
  <2>4. Taken(pairs[n + 1][3], n + 1)' = Taken(q, n) + 1
    BY ONLY <2>1, <2>2
  <2> QED BY ONLY <1>1, <2>1, <2>3, <2>4 DEF PairInOrder
<1>14. MismatchSeen(n + 1)'
  <2>1. (n + 1) - 1 = n /\ n \in 0 .. n
    BY ONLY <1>1
  <2>2. ASSUME Head(mon) # Head(refs[q]), NEW r \in QueueName
        PROVE  /\ Taken(r, n)' + 1 <= Len(pushed[r])
               /\ pushed[r][Taken(r, n)' + 1] # captured[n + 1]
    <3>1. refs[r] # <<>> /\ Head(refs[r]) # Head(mon)
      BY <2>2
    <3>2. Taken(r, n)' = Taken(r, n)
      BY ONLY <1>3, <2>1, r \in QueueName
    <3> QED BY ONLY <1>7, <1>9, <3>1, <3>2, r \in QueueName
  <2> QED BY ONLY <1>1, <1>2, <2>1, <2>2 DEF MismatchSeen
<1>15. \A k \in 1 .. Len(pairs') : k \in 1 .. n \/ k = n + 1
  BY ONLY <1>1, <1>2
<1> QED BY <1>6, <1>10, <1>11, <1>12, <1>13, <1>14, <1>15 DEF PairsInv

LEMMA PairsStutter ==
    ASSUME PairsInv, UNCHANGED <<captured, pushed, mon, refs, pairs>>
    PROVE  PairsInv'
<1>1. /\ captured' = captured /\ pushed' = pushed /\ mon' = mon /\ refs' = refs
      /\ pairs' = pairs
  OBVIOUS
<1>2. \A q, k : Taken(q, k)' = Taken(q, k)
  BY ONLY <1>1 DEF Taken, Quantify
<1>3. PairsType' = PairsType /\ CapturesKept' = CapturesKept
  BY ONLY <1>1 DEF PairsType, CapturesKept, Rest
<1>4. ReferencesKept'
  BY ONLY <1>1, <1>2, PairsInv DEF PairsInv, ReferencesKept, Rest
<1>5. ASSUME NEW k \in 1 .. Len(pairs') PROVE PairInOrder(k)' /\ MismatchSeen(k)'
  <2>1. PairInOrder(k) /\ MismatchSeen(k)
    BY ONLY <1>1, <1>5, PairsInv DEF PairsInv
  <2> QED BY ONLY <1>1, <1>2, <2>1 DEF PairInOrder, MismatchSeen
<1> QED BY ONLY <1>3, <1>4, <1>5, PairsInv DEF PairsInv

\* A step of the channel keeps account of what it pairs.
LEMMA PairsStep ==
    ASSUME FunnelType, WaitInv, PairsInv, Next
    PROVE  PairsInv'
<1>1. ASSUME NEW d \in Data, Capture(d) PROVE PairsInv'
  <2>1. /\ captured \in Seq(Data) /\ mon \in Seq(Data) /\ Len(pairs) \in Nat
        /\ captured' = Append(captured, d) /\ mon' = Append(mon, d)
        /\ pushed' = pushed /\ refs' = refs /\ pairs' = pairs
        /\ Rest(captured, Len(pairs), mon)
    BY <1>1 DEF Capture, FunnelType, PairsInv, PairsType, CapturesKept
  <2>2. Rest(captured', Len(pairs'), mon')
    BY ONLY <2>1, d \in Data, RestPush
  <2>3. PairsType' /\ CapturesKept' /\ ReferencesKept'
    <3>1. captured' \in Seq(Data)
      BY ONLY <2>1, d \in Data
    <3>2. PairsType /\ ReferencesKept
      BY DEF PairsInv
    <3> QED BY ONLY <2>1, <2>2, <3>1, <3>2
       DEF PairsType, CapturesKept, ReferencesKept, Taken, Quantify
  <2>4. \A k \in 1 .. Len(pairs) : captured'[k] = captured[k]
    <3>1. \A k \in 1 .. Len(pairs) : k \in 1 .. Len(captured)
      BY ONLY <2>1 DEF Rest
    <3> QED BY ONLY <2>1, <3>1, d \in Data, AppendProperties
  <2>5. \A q \in QueueName : Len(pushed'[q]) >= Len(pushed[q])
    BY <2>1 DEF PairsInv, PairsType
  <2> QED BY <2>1, <2>3, <2>4, <2>5, PairsUntouched DEF PairsInv
<1>2. ASSUME NEW d \in Data, NEW q \in QueueName, PushReference(q, d) PROVE PairsInv'
  <2>1. /\ \A r \in QueueName : pushed[r] \in Seq(Data) /\ refs[r] \in Seq(Data)
        /\ pushed \in [QueueName -> Seq(Data)] /\ d \in Stream[q]
        /\ pushed' = [pushed EXCEPT ![q] = Append(pushed[q], d)]
        /\ refs' = [refs EXCEPT ![q] = Append(refs[q], d)]
        /\ captured' = captured /\ mon' = mon /\ pairs' = pairs /\ Len(pairs) \in Nat
    <3>1. /\ pushed \in [QueueName -> Seq(Data)] /\ refs \in [QueueName -> Seq(Data)]
          /\ pairs \in Seq(Data \X Data \X QueueName)
      BY DEF FunnelType, PairsInv, PairsType
    <3>2. \A r \in QueueName : pushed[r] \in Seq(Data) /\ refs[r] \in Seq(Data)
      BY ONLY <3>1
    <3>3. Len(pairs) \in Nat
      BY ONLY <3>1
    <3> QED BY ONLY <1>2, <3>1, <3>2, <3>3 DEF PushReference
  <2>2. /\ pushed' \in [QueueName -> Seq(Data)]
        /\ pushed'[q] = Append(pushed[q], d) /\ refs'[q] = Append(refs[q], d)
        /\ \A r \in QueueName \ {q} : pushed'[r] = pushed[r] /\ refs'[r] = refs[r]
    <3>1. refs \in [QueueName -> Seq(Data)]
      BY DEF FunnelType
    <3>2. Append(pushed[q], d) \in Seq(Data)
      BY ONLY <2>1, d \in Data, q \in QueueName
    <3> QED BY ONLY <2>1, <3>1, <3>2, q \in QueueName
  <2>3. /\ Len(pushed'[q]) = Len(pushed[q]) + 1 /\ Len(pushed[q]) \in Nat
        /\ \A i \in 1 .. Len(pushed[q]) : pushed'[q][i] = pushed[q][i]
        /\ pushed'[q][Len(pushed[q]) + 1] = d
    BY ONLY <2>1, <2>2, d \in Data, q \in QueueName, AppendProperties
  <2>4. PairsType'
    <3>1. PairsType
      BY DEF PairsInv
    <3>2. ASSUME NEW r \in QueueName, NEW i \in 1 .. Len(pushed'[r])
          PROVE  pushed'[r][i] \in Stream[r]
      <4>1. CASE r = q
        <5>1. i \in 1 .. Len(pushed[q]) \/ i = Len(pushed[q]) + 1
          BY ONLY <2>3, <3>2, <4>1
        <5> QED BY ONLY <2>1, <2>3, <3>1, <4>1, <5>1, q \in QueueName DEF PairsType
      <4>2. CASE r # q
        BY ONLY <2>2, <3>1, <3>2, <4>2 DEF PairsType
      <4> QED BY <4>1, <4>2
    <3> QED BY ONLY <2>1, <2>2, <3>1, <3>2 DEF PairsType
  <2>5. CapturesKept' /\ ReferencesKept'
    <3>1. \A r \in QueueName :
            Rest(pushed[r], Taken(r, Len(pairs)), refs[r]) /\ Taken(r, Len(pairs)) \in Nat
      BY <2>1, TakenOneMore DEF PairsInv, ReferencesKept
    <3>2. Rest(pushed'[q], Taken(q, Len(pairs)), refs'[q])
      BY ONLY <2>1, <2>2, <3>1, d \in Data, q \in QueueName, RestPush
    <3>3. \A r \in QueueName : Rest(pushed'[r], Taken(r, Len(pairs)), refs'[r])
      BY ONLY <2>2, <3>1, <3>2
    <3>4. CapturesKept
      BY DEF PairsInv
    <3> QED BY ONLY <2>1, <3>3, <3>4 DEF CapturesKept, ReferencesKept, Taken, Quantify
  <2>6. \A r \in QueueName :
          /\ Len(pushed'[r]) >= Len(pushed[r])
          /\ \A i \in 1 .. Len(pushed[r]) : pushed'[r][i] = pushed[r][i]
    <3> TAKE r \in QueueName
    <3>1. CASE r = q
      BY ONLY <2>3, <3>1
    <3>2. CASE r # q
      BY ONLY <2>1, <2>2, <3>2, r \in QueueName, LenProperties
    <3> QED BY <3>1, <3>2
  <2> QED BY <2>1, <2>4, <2>5, <2>6, PairsUntouched DEF PairsInv
<1>3. CASE TakeCandidate
  <2> DEFINE q == Names[Min(Candidates)]
  <2>1. Min(Candidates) \in Candidates
    <3>1. Candidates \subseteq Nat
      BY DEF Candidates
    <3> QED BY <1>3, <3>1, LeastMember DEF TakeCandidate
  <2>2. q \in QueueName /\ refs[q] # <<>> /\ Head(refs[q]) = Head(mon)
    BY <2>1 DEF Candidates
  <2>3. Compare(q) /\ mon # <<>>
    BY <1>3 DEF TakeCandidate, WaitInv
  <2> HIDE DEF q
  <2> QED BY ONLY <2>2, <2>3, FunnelType, PairsInv, CompareKeeps
<1>4. CASE ReportMismatch
  <2> DEFINE q == Names[Len(Names)]
  <2>1. q \in QueueName
    OBVIOUS
  <2>2. Compare(q) /\ mon # <<>> /\ refs[q] # <<>>
    BY <1>4 DEF ReportMismatch, WaitInv
  <2>3. ASSUME NEW r \in QueueName PROVE refs[r] # <<>> /\ Head(refs[r]) # Head(mon)
    <3>1. PICK i \in DOMAIN Names : Names[i] = r
      OBVIOUS
    <3>2. refs[r] # <<>>
      BY <1>4 DEF ReportMismatch, AnyEmpty
    <3> QED BY <1>4, <3>1, <3>2 DEF ReportMismatch, Candidates
  <2> HIDE DEF q
  <2> QED BY ONLY <2>1, <2>2, <2>3, FunnelType, PairsInv, CompareKeeps
<1>5. CASE StartMatch \/ AwaitReference \/ ReferenceArrived \/ StartDrain \/ FinishDrain
  <2>1. UNCHANGED <<captured, pushed, mon, refs, pairs>>
    BY <1>5 DEF StartMatch, AwaitReference, ReferenceArrived, StartDrain, FinishDrain, tbVars
  <2> QED BY <2>1, PairsStutter
<1> QED BY <1>1, <1>2, <1>3, <1>4, <1>5 DEF Next, LoopStep

\* In the first state nothing has been paired.
LEMMA InitPairs == PollInit => PairsInv
<1> SUFFICES ASSUME PollInit PROVE PairsInv
  OBVIOUS
<1>1. /\ pairs = <<>> /\ captured = <<>> /\ mon = <<>>
      /\ pushed = [q \in QueueName |-> <<>>] /\ refs = [q \in QueueName |-> <<>>]
  BY DEF PollInit, Init
<1>2. Len(<<>>) = 0 /\ \A D : <<>> \in Seq(D)
  OBVIOUS
<1>3. \A q \in QueueName : Taken(q, 0) = 0
  BY TakenOneMore
<1>4. PairsType
  BY ONLY <1>1, <1>2 DEF PairsType
<1>5. CapturesKept /\ ReferencesKept
  BY ONLY <1>1, <1>2, <1>3 DEF CapturesKept, ReferencesKept, Rest
<1> QED BY ONLY <1>1, <1>2, <1>4, <1>5 DEF PairsInv

\* What a channel that is polled has paired.
THEOREM PairsInvariant == PollSpec => []PairsInv
<1>1. PollInv /\ PairsInv /\ [PollNext]_pvars => PairsInv'
  <2> SUFFICES ASSUME PollInv, PairsInv, [PollNext]_pvars PROVE PairsInv'
    OBVIOUS
  <2>1. CASE ChannelStep
    BY <2>1, PairsStep DEF ChannelStep, PollInv
  <2>2. CASE Tick \/ Polling \/ UNCHANGED pvars
    <3>1. UNCHANGED <<captured, pushed, mon, refs, pairs>>
      BY <2>2 DEF Tick, Polling, PollAgain, RaiseTimeout, pvars, vars, tbVars
    <3> QED BY <3>1, PairsStutter
  <2> QED BY <2>1, <2>2 DEF PollNext
<1> QED BY <1>1, InitPairs, PollInvariant, PTL DEF PollSpec

\* The pairs before the first mismatch took their references from the queues
\* of any interleaving that explains the captures.
LEMMA SameQueues ==
    ASSUME PairsInv, StreamsDisjoint,
           NEW from \in [1 .. Len(pairs) -> QueueName],
           \A k \in 1 .. Len(pairs) :
               LET nth == Quantify(1 .. k, LAMBDA j : from[j] = from[k])
               IN  nth <= Len(pushed[from[k]]) /\ captured[k] = pushed[from[k]][nth],
           NEW j \in 1 .. Len(pairs), pairs[j][1] = pairs[j][2]
    PROVE  pairs[j][3] = from[j]
<1>1. /\ Len(pairs) \in Nat /\ j \in Nat /\ from[j] \in QueueName
      /\ pairs[j][3] \in QueueName
      /\ \A q \in QueueName : Len(pushed[q]) \in Nat
  <2>1. pairs \in Seq(Data \X Data \X QueueName) /\ \A q \in QueueName : pushed[q] \in Seq(Data)
    BY DEF PairsInv, PairsType
  <2>2. pairs[j] \in Data \X Data \X QueueName
    BY ONLY <2>1, j \in 1 .. Len(pairs)
  <2>3. pairs[j][3] \in QueueName
    BY ONLY <2>2
  <2>4. Len(pairs) \in Nat /\ \A q \in QueueName : Len(pushed[q]) \in Nat
    BY ONLY <2>1, LenProperties
  <2> QED BY ONLY <2>3, <2>4, j \in 1 .. Len(pairs), from \in [1 .. Len(pairs) -> QueueName]
<1>2. PairInOrder(j)
  BY DEF PairsInv
<1>3. captured[j] \in Stream[pairs[j][3]]
  <2> DEFINE q == pairs[j][3]  t == Taken(q, j)
  <2>1. t \in Nat /\ t <= Len(pushed[q]) /\ captured[j] = pushed[q][t]
    BY <1>1, <1>2, TakenOneMore DEF PairInOrder
  <2>2. t >= 1
    BY <1>1, TakenPositive
  <2>3. t \in 1 .. Len(pushed[q])
    BY ONLY <1>1, <2>1, <2>2
  <2> QED BY <1>1, <2>1, <2>3 DEF PairsInv, PairsType
<1>4. captured[j] \in Stream[from[j]]
  <2> DEFINE S == {i \in 1 .. j : from[i] = from[j]}
  <2>1. Cardinality(S) <= Len(pushed[from[j]])
        /\ captured[j] = pushed[from[j]][Cardinality(S)]
    BY DEF Quantify
  <2>2. IsFiniteSet(S) /\ j \in S
    <3>1. IsFiniteSet(1 .. j)
      BY ONLY <1>1, FS_Interval, 1 \in Int, j \in Int
    <3>2. S \in SUBSET (1 .. j) /\ j \in S
      BY ONLY <1>1, j \in 1 .. Len(pairs)
    <3> QED BY ONLY <3>1, <3>2, FS_Subset
  <2> HIDE DEF S
  <2>3. Cardinality(S) \in Nat /\ Cardinality(S) # 0
    BY ONLY <2>2, FS_CardinalityType, FS_EmptySet
  <2>4. Cardinality(S) \in 1 .. Len(pushed[from[j]])
    BY ONLY <1>1, <2>1, <2>3
  <2> QED BY <1>1, <2>1, <2>4 DEF PairsInv, PairsType
<1> QED BY <1>1, <1>3, <1>4 DEF StreamsDisjoint

\* A mismatch is no false alarm.
LEMMA MismatchIsReal ==
    ASSUME PairsInv, StreamsDisjoint
    PROVE  NoFalseAlarm
<1> SUFFICES ASSUME NEW from \in [1 .. Len(pairs) -> QueueName],
                    \A k \in 1 .. Len(pairs) :
                        LET nth == Quantify(1 .. k, LAMBDA j : from[j] = from[k])
                        IN  /\ nth <= Len(pushed[from[k]])
                            /\ captured[k] = pushed[from[k]][nth],
                    NEW b \in 1 .. Len(pairs), pairs[b][1] # pairs[b][2]
             PROVE  FALSE
  <2>1. DOMAIN pairs = 1 .. Len(pairs)
    BY DEF PairsInv, PairsType
  <2> QED BY <2>1 DEF NoFalseAlarm, Interleaving
<1> DEFINE Bad == {k \in 1 .. Len(pairs) : pairs[k][1] # pairs[k][2]}
<1>1. PICK k \in Bad : \A j \in Bad : k <= j
  <2>1. Bad \subseteq Nat /\ Bad # {}
    OBVIOUS
  <2> HIDE DEF Bad
  <2> QED BY ONLY <2>1, LeastMember
<1>n. PICK m \in Nat : m + 1 = k
  <2>1. k \in 1 .. Len(pairs)
    BY ONLY <1>1
  <2>2. Len(pairs) \in Nat
    BY DEF PairsInv, PairsType
  <2>3. k - 1 \in Nat /\ (k - 1) + 1 = k
    BY ONLY <2>1, <2>2
  <2> QED BY ONLY <2>3
<1>2. k \in 1 .. Len(pairs) /\ Len(pairs) \in Nat /\ from[k] \in QueueName
      /\ pairs[k][1] # pairs[k][2]
  BY <1>1 DEF PairsInv, PairsType
<1>3. \A j \in 1 .. m : pairs[j][3] = from[j]
  <2> SUFFICES ASSUME NEW j \in 1 .. m PROVE pairs[j][3] = from[j]
    OBVIOUS
  <2>1. j \in 1 .. Len(pairs) /\ ~ (k <= j)
    BY ONLY <1>n, <1>2, j \in 1 .. m
  <2>2. pairs[j][1] = pairs[j][2]
    BY ONLY <1>1, <2>1
  <2> QED BY <2>1, <2>2, SameQueues
<1>4. Taken(from[k], m) = Cardinality({j \in 1 .. m : from[j] = from[k]})
  <2>1. {j \in 1 .. m : pairs[j][3] = from[k]} = {j \in 1 .. m : from[j] = from[k]}
    BY ONLY <1>3
  <2> QED BY ONLY <2>1 DEF Taken, Quantify
<1>5. Cardinality({j \in 1 .. k : from[j] = from[k]}) = Taken(from[k], m) + 1
  <2> DEFINE T == {j \in Nat : from[j] = from[k]}
  <2>1. /\ {j \in 1 .. m : from[j] = from[k]} = UpTo(T, m)
        /\ {j \in 1 .. k : from[j] = from[k]} = UpTo(T, m + 1)
        /\ m + 1 \in T
    BY ONLY <1>n DEF UpTo
  <2> HIDE DEF T
  <2>2. Cardinality(UpTo(T, m + 1)) = Cardinality(UpTo(T, m)) + 1
    BY ONLY <2>1, m \in Nat, CountOneMore
  <2> QED BY ONLY <1>4, <2>1, <2>2
<1>6. captured[k] = pushed[from[k]][Taken(from[k], m) + 1]
  BY <1>2, <1>5 DEF Quantify
<1>7. MismatchSeen(k) /\ k - 1 = m
  BY <1>n, <1>2 DEF PairsInv
<1> QED BY ONLY <1>2, <1>6, <1>7 DEF MismatchSeen

-----------------------------------------------------------------------------
(* Theorems *)

\* Nothing stays at the front for longer than the timeout and one polling
\* interval, however the queue moves and whatever stands behind it.
THEOREM FrontStaysFresh == PollSpec => []FrontIsFresh
<1>1. PollInv => FrontIsFresh
  <2> SUFFICES ASSUME PollInv, limit # NoLimit, mon # <<>>
               PROVE  Head(age) <= limit + Period
    BY DEF FrontIsFresh
  <2>1. 1 \in 1 .. Len(age) /\ Head(age) = age[1] /\ age[1] \in Nat
    BY DEF PollInv, FunnelType, TimeType
  <2>2. age[1] <= limit + (Period - due) /\ due \in 0 .. Period /\ limit \in Nat
    BY <2>1 DEF PollInv, TimeType, AgeInv
  <2> QED BY <2>1, <2>2
<1> QED BY <1>1, PollInvariant, PTL

\* When the timeout is raised no prediction in any queue would do, and one of
\* the queues is empty.
THEOREM TimeoutsAreDeserved == PollSpec => TimeoutIsDeserved
<1> DEFINE Deserved == polling' # polling => Candidates = {} /\ AnyEmpty
<1>1. PollInv /\ [PollNext]_pvars => [Deserved]_pvars
  <2> SUFFICES ASSUME PollInv, PollNext, polling' # polling
               PROVE  Candidates = {} /\ AnyEmpty
    OBVIOUS
  <2>1. RaiseTimeout
    BY DEF PollNext, ChannelStep, Stamped, Tick, Polling, PollAgain
  <2> QED BY <2>1 DEF RaiseTimeout, Settled, TimedOut, PollInv, WaitInv
<1> QED BY <1>1, PollInvariant, PTL DEF PollSpec, TimeoutIsDeserved
\* A channel whose streams have no transaction in common reports a mismatch
\* only when what was captured is no interleaving of what was predicted,
\* whatever the order in which captures and predictions come.
THEOREM FunnelRaisesNoFalseAlarm ==
    ASSUME StreamsDisjoint
    PROVE  PollSpec => []NoFalseAlarm
<1>1. PairsInv => NoFalseAlarm
  BY MismatchIsReal
<1> QED BY <1>1, PairsInvariant, PTL

\* A drain that returns has seen every capture compared, and every prediction
\* of every stream.
THEOREM FunnelDrainsCompletely == PollSpec => DrainLeavesNothing
<1> DEFINE Nothing ==
        drain = "polling" /\ drain' = "done" =>
          /\ Len(pairs) = Len(captured)
          /\ \A q \in QueueName : Taken(q, Len(pairs)) = Len(pushed[q])
<1>1. PairsInv /\ [PollNext]_pvars => [Nothing]_vars
  <2> SUFFICES ASSUME PairsInv, [PollNext]_pvars, drain = "polling", drain' = "done"
               PROVE  /\ Len(pairs) = Len(captured)
                      /\ \A q \in QueueName : Taken(q, Len(pairs)) = Len(pushed[q])
    OBVIOUS
  <2>1. ChannelStep
    BY DEF PollNext, Tick, Polling, PollAgain, RaiseTimeout, pvars, vars
  <2>2. mon = <<>> /\ \A q \in QueueName : refs[q] = <<>>
    BY <2>1 DEF ChannelStep, Next, LoopStep, Capture, PushReference, StartMatch,
         TakeCandidate, ReportMismatch, Compare, AwaitReference, ReferenceArrived,
         StartDrain, FinishDrain, ReferencesGone
  <2>3. /\ Len(captured) = Len(pairs) + 0
        /\ \A q \in QueueName : Len(pushed[q]) = Taken(q, Len(pairs)) + 0
    BY <2>2 DEF PairsInv, CapturesKept, ReferencesKept, Rest
  <2>4. Len(pairs) \in Nat /\ \A q \in QueueName : Taken(q, Len(pairs)) \in Nat
    <3>1. Len(pairs) \in Nat
      BY DEF PairsInv, PairsType
    <3> QED BY ONLY <3>1, TakenOneMore
  <2> QED BY ONLY <2>3, <2>4
<1> QED BY <1>1, PairsInvariant, PTL DEF PollSpec, DrainLeavesNothing
=============================================================================
