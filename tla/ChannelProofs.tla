----------------------------- MODULE ChannelProofs -----------------------------
(***************************************************************************)
(* Theorems about Channel for every window, every drain policy and any     *)
(* number of captures and predictions.                                     *)
(***************************************************************************)
EXTENDS Channel, SequenceTheorems, WellFoundedInduction, TLAPS

(* Sequences and numbers *)

\* A set of naturals has a least member, which is the one that Min chooses.
LEMMA LeastMember ==
    ASSUME NEW S, S \subseteq Nat, S # {}
    PROVE  Min(S) \in S /\ \A y \in S : Min(S) <= y
<1>1. \E x \in S : \A y \in S : ~ (<<y, x>> \in OpToRel(<, Nat))
  BY NatLessThanWellFounded, WFMin
<1>2. PICK x \in S : \A y \in S : ~ (<<y, x>> \in OpToRel(<, Nat))
  BY <1>1
<1>3. \A y \in S : x <= y
  <2> TAKE y \in S
  <2>1. x \in Nat /\ y \in Nat /\ ~ (y < x)
    BY <1>2 DEF OpToRel
  <2> QED BY <2>1
<1> QED BY <1>2, <1>3 DEF Min

\* One element less.
LEMMA Removed ==
    ASSUME NEW S, NEW s \in Seq(S), NEW i \in 1 .. Len(s)
    PROVE  RemoveAt(s, i) \in Seq(S) /\ Len(RemoveAt(s, i)) = Len(s) - 1
<1> DEFINE a == SubSeq(s, 1, i - 1)
           b == SubSeq(s, i + 1, Len(s))
<1>1. Len(s) \in Nat /\ i \in Nat /\ \A j \in 1 .. Len(s) : s[j] \in S
  OBVIOUS
<1>2. a \in Seq(S) /\ Len(a) = i - 1
  <2>1. \A j \in 1 .. i - 1 : s[j] \in S
    BY <1>1
  <2>2. a \in Seq(S) /\ Len(a) = IF 1 <= i - 1 THEN (i - 1) - 1 + 1 ELSE 0
    BY <1>1, <2>1, SubSeqProperties
  <2> QED BY <1>1, <2>2
<1>3. b \in Seq(S) /\ Len(b) = Len(s) - i
  <2>1. \A j \in i + 1 .. Len(s) : s[j] \in S
    BY <1>1
  <2>2. b \in Seq(S) /\ Len(b) = IF i + 1 <= Len(s) THEN Len(s) - (i + 1) + 1 ELSE 0
    BY <1>1, <2>1, SubSeqProperties
  <2> QED BY <1>1, <2>2
<1>4. a \o b \in Seq(S) /\ Len(a \o b) = Len(a) + Len(b)
  BY <1>2, <1>3, ConcatProperties
<1>5. RemoveAt(s, i) = a \o b
  BY DEF RemoveAt
<1> HIDE DEF a, b
<1>6. Len(a \o b) = Len(s) - 1
  BY <1>1, <1>2, <1>3, <1>4
<1> QED BY <1>4, <1>5, <1>6

-----------------------------------------------------------------------------
(* The inductive invariant *)

\* The loop looks at a captured transaction while it matches and while it
\* waits for a prediction, and has the lock until it waits for a capture.
LockInv ==
    /\ loop \in {"match", "await_ref"} => mon # <<>>
    /\ held = (loop # "await_mon")

\* Each comparison takes one capture and one prediction.
CountInv ==
    /\ Len(pairs) + Len(mon) = Len(captured)
    /\ Len(pairs) + Len(ref) = Len(pushed)

\* A loop that still runs has never counted past the window.
CountsInv == loop # "dead" => \A n \in RefId : residence[n] <= Window

Equal(p) == p[1] = Value(p[2])

\* Under fail_fast a loop that still runs has found no mismatch.
MatchInv ==
    FailFast =>
        /\ loop # "dead" => \A k \in 1 .. Len(pairs) : Equal(pairs[k])
        /\ \A k \in 1 .. Len(pairs) - 1 : Equal(pairs[k])

ChannelInv == TypeOK /\ LockInv /\ CountInv /\ CountsInv /\ MatchInv

LEMMA SetupType ==
    ASSUME TypeOK
    PROVE  /\ Window \in Nat \ {0}
           /\ Policy \in {"MON_AND_REF", "MON_ONLY", "REF_ONLY", "NON_BLOCKING"}
           /\ FailFast \in BOOLEAN
BY SetupsAssumption DEF TypeOK, Window, Policy, FailFast

LEMMA InitChannel == Init => ChannelInv
<1> SUFFICES ASSUME Init PROVE ChannelInv
  OBVIOUS
<1>1. TypeOK
  <2>1. Window \in Nat \ {0}
    BY SetupsAssumption DEF Init, Window
  <2>2. residence \in [RefId -> 0 .. Window + 1]
    BY <2>1 DEF Init
  <2>3. /\ <<>> \in Seq(Data) /\ Len(<<>>) = 0 /\ <<>> \in Seq(1 .. Len(pushed))
        /\ <<>> \in Seq(Data \X (1 .. Len(pushed)))
    BY EmptySeq
  <2>4. /\ captured \in Seq(Data) /\ Len(captured) <= MaxMon
        /\ pushed \in Seq(Data) /\ Len(pushed) <= MaxRef
        /\ mon \in Seq(Data) /\ ref \in Seq(1 .. Len(pushed))
        /\ pairs \in Seq(Data \X (1 .. Len(pushed)))
    BY ONLY Init, <2>3, BoundAssumption DEF Init
  <2> QED BY <2>2, <2>4 DEF Init, TypeOK
<1>2. LockInv
  BY DEF Init, LockInv
<1>5. CountInv
  <2>1. Len(<<>>) = 0
    OBVIOUS
  <2> QED BY <2>1 DEF Init, CountInv
<1>3. CountsInv
  BY <1>1, SetupType DEF Init, CountsInv
<1>4. MatchInv
  BY DEF Init, MatchInv
<1> QED BY <1>1, <1>2, <1>3, <1>4, <1>5 DEF ChannelInv

-----------------------------------------------------------------------------
(* The loop *)

\* The references within the window are references of the queue.
LEMMA WindowType ==
    ASSUME TypeOK
    PROVE  /\ Len(ref) \in Nat /\ InWindow \subseteq 1 .. Len(ref)
           /\ Matches \subseteq InWindow
           /\ Matches # {} => Taken \in Matches
<1>1. Len(ref) \in Nat /\ Window \in Nat
  BY SetupType DEF TypeOK
<1>2. InWindow \subseteq 1 .. Len(ref)
  BY <1>1 DEF InWindow
<1>3. Matches \subseteq InWindow
  BY DEF Matches
<1>4. Matches \subseteq Nat
  BY <1>1, <1>2, <1>3
<1> QED BY <1>1, <1>2, <1>3, <1>4, LeastMember DEF Taken

\* The counts after a scan.
LEMMA CountedType ==
    ASSUME TypeOK, CountsInv, loop = "match"
    PROVE  /\ Counted \in [RefId -> 0 .. Window + 1]
           /\ ~Overstayed => \A n \in RefId : Counted[n] <= Window
<1>1. Window \in Nat /\ residence \in [RefId -> 0 .. Window + 1]
      /\ \A n \in RefId : residence[n] \in 0 .. Window
  BY SetupType DEF TypeOK, CountsInv
<1>2. Counted \in [RefId -> 0 .. Window + 1]
  BY <1>1 DEF Counted
<1>3. ASSUME ~Overstayed, NEW n \in RefId PROVE Counted[n] <= Window
  <2>1. CASE Window > 1 /\ \E i \in Examined : ref[i] = n
    <3>1. residence[n] < Window
      BY <1>1, <1>3, <2>1 DEF Overstayed
    <3> QED BY <1>1, <2>1, <3>1 DEF Counted
  <2>2. CASE ~ (Window > 1 /\ \E i \in Examined : ref[i] = n)
    BY <1>1, <2>2 DEF Counted
  <2> QED BY <2>1, <2>2
<1> QED BY <1>2, <1>3

\* A comparison takes the captured transaction and a reference of the queue.
LEMMA CompareStep ==
    ASSUME ChannelInv, loop = "match", NEW i \in 1 .. Len(ref), Compare(i),
           UNCHANGED <<tbVars, refPushed, drain>>,
           residence' \in [RefId -> 0 .. Window]
    PROVE  ChannelInv'
<1> USE DEF ChannelInv
<1>1. /\ mon \in Seq(Data) /\ mon # <<>> /\ ref \in Seq(1 .. Len(pushed))
      /\ pairs \in Seq(Data \X (1 .. Len(pushed)))
      /\ Window \in Nat \ {0}
  BY SetupType DEF TypeOK, LockInv
<1>2. Head(mon) \in Data /\ Tail(mon) \in Seq(Data) /\ Len(Tail(mon)) = Len(mon) - 1
  BY <1>1
<1>3. ref[i] \in 1 .. Len(pushed)
  BY <1>1
<1>4. ref' \in Seq(1 .. Len(pushed)) /\ Len(ref') = Len(ref) - 1
  BY <1>1, Removed DEF Compare
<1> DEFINE p == <<Head(mon), ref[i]>>
<1>5. p \in Data \X (1 .. Len(pushed)) /\ p[1] = Head(mon) /\ p[2] = ref[i]
  BY <1>2, <1>3
<1>6. pairs' = Append(pairs, p)
  BY DEF Compare
<1> HIDE DEF p
<1>7. /\ pairs' \in Seq(Data \X (1 .. Len(pushed))) /\ Len(pairs') = Len(pairs) + 1
      /\ \A k \in 1 .. Len(pairs) : pairs'[k] = pairs[k]
      /\ pairs'[Len(pairs) + 1] = p
  BY <1>1, <1>5, <1>6, AppendProperties
<1>8. TypeOK'
  <2>1. residence' \in [RefId -> 0 .. Window + 1]
    BY <1>1
  <2>2. loop' \in {"await_mon", "match", "dead"} /\ held' \in BOOLEAN
    BY DEF Compare
  <2>3. mon' \in Seq(Data)
    BY <1>2 DEF Compare
  <2> QED BY <1>4, <1>7, <2>1, <2>2, <2>3 DEF TypeOK, tbVars, Window
<1>9. LockInv'
  BY <1>1, <1>2 DEF LockInv, Compare
<1>10. CountInv'
  <2>1. /\ Len(pairs) \in Nat /\ Len(mon) \in Nat /\ Len(ref) \in Nat
        /\ Len(pairs') = Len(pairs) + 1 /\ Len(ref') = Len(ref) - 1
    BY <1>1, <1>4, <1>7
  <2>2. Len(mon') = Len(mon) - 1
    BY <1>2 DEF Compare
  <2>3. captured' = captured /\ pushed' = pushed
    BY DEF tbVars
  <2>4. Len(captured) \in Nat /\ Len(pushed) \in Nat
    BY DEF TypeOK
  <2>5. CountInv
    OBVIOUS
  <2>6. Len(pairs') + Len(mon') = Len(pairs) + Len(mon)
    BY ONLY <2>1, <2>2
  <2>7. Len(pairs') + Len(ref') = Len(pairs) + Len(ref)
    BY ONLY <2>1
  <2>8. Len(captured') = Len(captured) /\ Len(pushed') = Len(pushed)
    BY ONLY <2>3
  <2> QED BY ONLY <2>5, <2>6, <2>7, <2>8 DEF CountInv
<1>11. CountsInv'
  BY <1>1 DEF CountsInv, tbVars, Window
<1>12. MatchInv'
  <2> SUFFICES ASSUME FailFast
               PROVE  /\ loop' # "dead" => \A k \in 1 .. Len(pairs') : Equal(pairs[k])'
                      /\ \A k \in 1 .. Len(pairs') - 1 : Equal(pairs[k])'
    BY DEF MatchInv, tbVars, FailFast
  <2>1. Len(pairs) \in Nat /\ pushed' = pushed
    BY <1>1 DEF tbVars
  <2>2. \A k \in 1 .. Len(pairs) : Equal(pairs[k])'
    BY <1>7, <2>1 DEF MatchInv, Equal, Value
  <2>3. ASSUME loop' # "dead" PROVE p[1] = pushed'[p[2]]
    <3>1. Value(ref[i]) = Head(mon)
      BY <2>3 DEF Compare, Stops
    <3> QED BY <1>5, <2>1, <3>1 DEF Value
  <2>4. Len(pairs') - 1 = Len(pairs)
    BY <1>7, <2>1
  <2>5. ASSUME loop' # "dead", NEW k \in 1 .. Len(pairs') PROVE Equal(pairs[k])'
    <3>1. k \in 1 .. Len(pairs) \/ k = Len(pairs) + 1
      BY <1>7, <2>1
    <3>2. CASE k = Len(pairs) + 1
      <4>1. pairs'[k] = p
        BY <1>7, <3>2
      <4> QED BY <2>3, <2>5, <4>1 DEF Equal, Value
    <3> QED BY <2>2, <3>1, <3>2
  <2> QED BY <2>2, <2>4, <2>5
<1> QED BY <1>8, <1>9, <1>10, <1>11, <1>12

\* The pairs and what they refer to stay as they are.
LEMMA SamePairs ==
    ASSUME ChannelInv, UNCHANGED <<setup, pairs>>,
           pushed' = pushed \/ \E d \in Data : pushed' = Append(pushed, d),
           loop = "dead" => loop' = "dead"
    PROVE  MatchInv'
<1>1. /\ pairs \in Seq(Data \X (1 .. Len(pushed))) /\ pushed \in Seq(Data)
      /\ Len(pairs) \in Nat
  BY DEF ChannelInv, TypeOK
<1>2. \A k \in 1 .. Len(pairs) : pairs[k][2] \in 1 .. Len(pushed)
  <2> TAKE k \in 1 .. Len(pairs)
  <2>1. pairs[k] \in Data \X (1 .. Len(pushed))
    BY <1>1
  <2> QED BY <2>1
<1>3. \A n \in 1 .. Len(pushed) : pushed'[n] = pushed[n]
  <2>1. CASE pushed' = pushed
    BY ONLY <2>1
  <2>2. ASSUME NEW d \in Data, pushed' = Append(pushed, d)
        PROVE  \A n \in 1 .. Len(pushed) : pushed'[n] = pushed[n]
    BY ONLY <1>1, <2>2, AppendProperties
  <2> QED BY <2>1, <2>2
<1>4. \A k \in 1 .. Len(pairs) : Equal(pairs[k])' = Equal(pairs[k])
  BY <1>2, <1>3 DEF Equal, Value
<1>5. \A k \in 1 .. Len(pairs) - 1 : k \in 1 .. Len(pairs)
  BY <1>1
<1> QED BY <1>4, <1>5 DEF ChannelInv, MatchInv, FailFast

\* A step that leaves the loop, its queues and its pairs alone.
LEMMA LoopAlone ==
    ASSUME ChannelInv, UNCHANGED <<tbVars, mon, ref, pairs>>,
           loop = "dead" => loop' = "dead",
           TypeOK', LockInv', CountsInv'
    PROVE  ChannelInv'
<1>1. CountInv'
  BY DEF ChannelInv, CountInv, tbVars
<1>2. MatchInv'
  BY SamePairs DEF tbVars
<1> QED BY <1>1, <1>2 DEF ChannelInv

-----------------------------------------------------------------------------
(* One lemma for each group of steps *)

LEMMA CaptureSafe == ASSUME ChannelInv, NEW d \in Data, Capture(d) PROVE ChannelInv'
<1> USE DEF ChannelInv
<1>1. captured \in Seq(Data) /\ mon \in Seq(Data) /\ Filter[d] \in Data
  BY FilterAssumption DEF TypeOK, Capture
<1> DEFINE e == Filter[d]
<1>2. /\ captured' = Append(captured, e) /\ captured' \in Seq(Data)
      /\ Len(captured') = Len(captured) + 1
      /\ mon' = Append(mon, e) /\ mon' \in Seq(Data)
      /\ Len(mon') = Len(mon) + 1 /\ mon' # <<>>
  BY <1>1, AppendProperties DEF Capture
<1>3. Len(captured) \in Nat /\ Len(captured) < MaxMon /\ Len(mon) \in Nat
      /\ Len(pairs) \in Nat
  BY DEF Capture, TypeOK
<1>4. TypeOK'
  BY <1>2, <1>3, BoundAssumption DEF TypeOK, Capture, Window
<1>5. LockInv'
  BY <1>2 DEF LockInv, Capture
<1>6. CountInv'
  <2>1. pairs' = pairs /\ ref' = ref /\ pushed' = pushed
    BY DEF Capture
  <2>2. Len(pairs) + Len(mon) = Len(captured)
    BY DEF CountInv
  <2>3. Len(mon') = Len(mon) + 1 /\ Len(captured') = Len(captured) + 1
    BY <1>2
  <2>4. Len(pairs) + Len(mon') = Len(captured')
    BY ONLY <1>3, <2>2, <2>3
  <2> QED BY <2>1, <2>4 DEF CountInv
<1>7. CountsInv'
  BY DEF CountsInv, Capture, Window
<1>8. MatchInv'
  BY SamePairs DEF Capture
<1> QED BY <1>4, <1>5, <1>6, <1>7, <1>8

LEMMA PushSafe == ASSUME ChannelInv, NEW d \in Data, PushReference(d) PROVE ChannelInv'
<1> USE DEF ChannelInv
<1>1. /\ pushed \in Seq(Data) /\ ref \in Seq(1 .. Len(pushed))
      /\ pairs \in Seq(Data \X (1 .. Len(pushed)))
      /\ Len(pushed) \in Nat /\ Len(pushed) < MaxRef /\ Len(pairs) \in Nat
  BY DEF TypeOK, PushReference
<1>2. pushed' \in Seq(Data) /\ Len(pushed') = Len(pushed) + 1
  BY <1>1, AppendProperties DEF PushReference
<1>3. 1 .. Len(pushed) \subseteq 1 .. Len(pushed') /\ Len(pushed) + 1 \in 1 .. Len(pushed')
  BY <1>1, <1>2
<1>4. ref \in Seq(1 .. Len(pushed')) /\ pairs \in Seq(Data \X (1 .. Len(pushed')))
  <2>1. Data \X (1 .. Len(pushed)) \subseteq Data \X (1 .. Len(pushed'))
    BY <1>3
  <2> QED BY <1>1, <1>3, <2>1, SeqMonotonic
<1>5. ref' \in Seq(1 .. Len(pushed')) /\ Len(ref') = Len(ref) + 1
  BY <1>3, <1>4, AppendProperties DEF PushReference
<1>6. TypeOK'
  <2>1. refPushed' \in BOOLEAN
    BY DEF PushReference, Notify, TypeOK
  <2> QED BY <1>1, <1>2, <1>4, <1>5, <2>1, BoundAssumption DEF TypeOK, PushReference, Window
<1>7. LockInv'
  BY DEF LockInv, PushReference
<1>8. CountInv'
  <2>1. pairs' = pairs /\ mon' = mon /\ captured' = captured
    BY DEF PushReference
  <2>2. Len(ref) \in Nat
    BY <1>1
  <2>3. Len(pairs) + Len(ref') = Len(pushed')
    BY <1>1, <1>2, <1>5, <2>2 DEF CountInv
  <2> QED BY <2>1, <2>3 DEF CountInv
<1>9. CountsInv'
  BY DEF CountsInv, PushReference, Window
<1>10. MatchInv'
  BY SamePairs DEF PushReference
<1> QED BY <1>6, <1>7, <1>8, <1>9, <1>10

LEMMA LoopSafe == ASSUME ChannelInv, LoopStep PROVE ChannelInv'
<1> USE DEF ChannelInv
<1>1. CASE StartMatch
  <2>1. TypeOK' /\ LockInv' /\ CountsInv'
    BY <1>1 DEF StartMatch, TypeOK, LockInv, CountsInv, tbVars, Window
  <2>2. loop # "match" /\ loop # "dead"
    BY <1>1 DEF StartMatch
  <2>3. CountInv' /\ MatchInv'
    BY <1>1, <2>2, SamePairs DEF StartMatch, CountInv, tbVars
  <2> QED BY <2>1, <2>3
<1>2. CASE TakeMatch
  <2>1. Taken \in 1 .. Len(ref) /\ Taken \in InWindow
    BY <1>2, WindowType DEF TakeMatch
  <2>2. Counted \in [RefId -> 0 .. Window + 1] /\ \A n \in RefId : Counted[n] <= Window
    BY <1>2, CountedType DEF TakeMatch
  <2>3. Window \in Nat
    BY SetupType
  <2>4. Counted \in [RefId -> 0 .. Window] /\ 0 \in 0 .. Window
    BY <2>2, <2>3
  <2>5. residence' = [Counted EXCEPT ![ref[Taken]] = 0]
    BY <1>2 DEF TakeMatch
  <2>6. residence' \in [RefId -> 0 .. Window]
    BY ONLY <2>4, <2>5
  <2> QED BY <1>2, <2>1, <2>6, CompareStep DEF TakeMatch
<1>3. CASE TakeHead
  <2>1. Counted \in [RefId -> 0 .. Window + 1] /\ \A n \in RefId : Counted[n] <= Window
    BY <1>3, CountedType DEF TakeHead
  <2>2. Window \in Nat \ {0}
    BY SetupType
  <2>3. residence' \in [RefId -> 0 .. Window]
    BY <1>3, <2>1, <2>2 DEF TakeHead
  <2>4. 1 \in 1 .. Len(ref)
    BY <1>3, <2>2, WindowType DEF TakeHead, WindowFull
  <2> QED BY <1>3, <2>3, <2>4, CompareStep DEF TakeHead
<1>4. CASE AwaitReference
  <2>1. Counted \in [RefId -> 0 .. Window + 1] /\ \A n \in RefId : Counted[n] <= Window
    BY <1>4, CountedType DEF AwaitReference
  <2>2. TypeOK' /\ CountsInv'
    BY <1>4, <2>1 DEF AwaitReference, TypeOK, CountsInv, tbVars, Window
  <2> QED BY <1>4, <2>2, LoopAlone DEF AwaitReference, LockInv
<1>5. CASE ReferenceArrived
  BY <1>5, LoopAlone DEF ReferenceArrived, TypeOK, LockInv, CountsInv, tbVars, Window
<1>6. CASE Overstay
  <2>1. Counted \in [RefId -> 0 .. Window + 1]
    BY <1>6, CountedType DEF Overstay
  <2>2. TypeOK'
    BY <1>6, <2>1 DEF Overstay, TypeOK, tbVars, Window
  <2> QED BY <1>6, <2>2, LoopAlone DEF Overstay, LockInv, CountsInv
<1> QED BY <1>1, <1>2, <1>3, <1>4, <1>5, <1>6 DEF LoopStep

LEMMA DrainSafe == ASSUME ChannelInv, StartDrain \/ FinishDrain PROVE ChannelInv'
<1>1. TypeOK' /\ LockInv' /\ CountsInv'
  BY DEF ChannelInv, StartDrain, FinishDrain, TypeOK, LockInv, CountsInv, tbVars, Window
<1> QED BY <1>1, LoopAlone DEF StartDrain, FinishDrain, tbVars

LEMMA NextChannel == ChannelInv /\ [Next]_vars => ChannelInv'
<1> SUFFICES ASSUME ChannelInv, [Next]_vars PROVE ChannelInv'
  OBVIOUS
<1>1. CASE Next
  BY <1>1, CaptureSafe, PushSafe, LoopSafe, DrainSafe DEF Next
<1>2. CASE UNCHANGED vars
  <2>1. TypeOK' /\ LockInv' /\ CountsInv'
    BY <1>2 DEF ChannelInv, TypeOK, LockInv, CountsInv, tbVars, vars, Window
  <2> QED BY <1>2, <2>1, LoopAlone DEF vars, tbVars
<1> QED BY <1>1, <1>2

-----------------------------------------------------------------------------
(* The pairs do not depend on the timing *)

\* What is left when one element is removed.
LEMMA RemovedElements ==
    ASSUME NEW S, NEW s \in Seq(S), NEW i \in 1 .. Len(s)
    PROVE  \A j \in 1 .. Len(s) - 1 : RemoveAt(s, i)[j] = IF j < i THEN s[j] ELSE s[j + 1]
<1> DEFINE a == SubSeq(s, 1, i - 1)
           b == SubSeq(s, i + 1, Len(s))
           n == Len(s)
<1>1. n \in Nat /\ i \in Nat /\ i >= 1 /\ i <= n /\ \A j \in 1 .. n : s[j] \in S
  OBVIOUS
<1>2. a \in Seq(S) /\ Len(a) = i - 1 /\ \A j \in 1 .. i - 1 : a[j] = s[j]
  <2>1. \A j \in 1 .. i - 1 : s[j] \in S
    BY <1>1
  <2>2. /\ a \in Seq(S) /\ Len(a) = IF 1 <= i - 1 THEN (i - 1) - 1 + 1 ELSE 0
        /\ \A j \in 1 .. (i - 1) - 1 + 1 : a[j] = s[1 + j - 1]
    BY <1>1, <2>1, SubSeqProperties
  <2> HIDE DEF a
  <2>3. Len(a) = i - 1 /\ (i - 1) - 1 + 1 = i - 1
    BY ONLY <1>1, <2>2
  <2>4. \A j \in 1 .. i - 1 : 1 + j - 1 = j
    BY ONLY <1>1
  <2> QED BY ONLY <2>2, <2>3, <2>4
<1>3. b \in Seq(S) /\ Len(b) = n - i /\ \A j \in 1 .. n - i : b[j] = s[i + j]
  <2>1. \A j \in i + 1 .. n : s[j] \in S
    BY <1>1
  <2>2. /\ b \in Seq(S) /\ Len(b) = IF i + 1 <= n THEN n - (i + 1) + 1 ELSE 0
        /\ \A j \in 1 .. n - (i + 1) + 1 : b[j] = s[(i + 1) + j - 1]
    BY <1>1, <2>1, SubSeqProperties
  <2> HIDE DEF b, n
  <2>3. Len(b) = n - i /\ n - (i + 1) + 1 = n - i
    BY ONLY <1>1, <2>2
  <2>4. \A j \in 1 .. n - i : (i + 1) + j - 1 = i + j
    BY ONLY <1>1
  <2> QED BY ONLY <2>2, <2>3, <2>4
<1>4. RemoveAt(s, i) = a \o b
  BY DEF RemoveAt
<1> HIDE DEF a, b, n
<1>5. \A j \in 1 .. Len(a) + Len(b) : (a \o b)[j] = IF j <= Len(a) THEN a[j] ELSE b[j - Len(a)]
  BY ONLY <1>2, <1>3, ConcatProperties
<1>6. ASSUME NEW j \in 1 .. n - 1
      PROVE  (a \o b)[j] = IF j < i THEN s[j] ELSE s[j + 1]
  <2>1. j \in 1 .. Len(a) + Len(b)
    BY ONLY <1>1, <1>2, <1>3, <1>6
  <2>2. CASE j < i
    <3>1. j \in 1 .. i - 1 /\ j <= Len(a)
      BY ONLY <1>1, <1>2, <1>6, <2>2
    <3> QED BY ONLY <1>2, <1>5, <2>1, <2>2, <3>1
  <2>3. CASE ~ (j < i)
    <3>1. ~ (j <= Len(a)) /\ j - Len(a) \in 1 .. n - i /\ i + (j - Len(a)) = j + 1
      BY ONLY <1>1, <1>2, <1>6, <2>3
    <3> QED BY ONLY <1>3, <1>5, <2>1, <2>3, <3>1
  <2> QED BY ONLY <2>2, <2>3
<1> QED BY ONLY <1>4, <1>6 DEF n

\* It makes no difference whether an element is removed or one is added first.
LEMMA RemoveAppend ==
    ASSUME NEW S, NEW s \in Seq(S), NEW i \in 1 .. Len(s), NEW x \in S
    PROVE  RemoveAt(Append(s, x), i) = Append(RemoveAt(s, i), x)
<1> DEFINE n == Len(s)  t == Append(s, x)  u == RemoveAt(s, i)
<1>1. n \in Nat /\ i \in Nat /\ i >= 1 /\ i <= n /\ n >= 1
  OBVIOUS
<1>2. /\ t \in Seq(S) /\ Len(t) = n + 1 /\ \A j \in 1 .. n : t[j] = s[j]
      /\ t[n + 1] = x
  BY AppendProperties
<1>3. /\ u \in Seq(S) /\ Len(u) = n - 1
      /\ \A j \in 1 .. n - 1 : u[j] = IF j < i THEN s[j] ELSE s[j + 1]
  BY Removed, RemovedElements
<1> HIDE DEF n, t, u
<1>4. i \in 1 .. Len(t)
  BY ONLY <1>1, <1>2
<1>5. /\ RemoveAt(t, i) \in Seq(S) /\ Len(RemoveAt(t, i)) = n
      /\ \A j \in 1 .. n : RemoveAt(t, i)[j] = IF j < i THEN t[j] ELSE t[j + 1]
  <2>1. RemoveAt(t, i) \in Seq(S) /\ Len(RemoveAt(t, i)) = (n + 1) - 1
    BY ONLY <1>2, <1>4, Removed
  <2>2. \A j \in 1 .. (n + 1) - 1 : RemoveAt(t, i)[j] = IF j < i THEN t[j] ELSE t[j + 1]
    BY ONLY <1>2, <1>4, RemovedElements
  <2>3. (n + 1) - 1 = n
    BY ONLY <1>1
  <2> QED BY ONLY <2>1, <2>2, <2>3
<1>6. /\ Append(u, x) \in Seq(S) /\ Len(Append(u, x)) = n
      /\ \A j \in 1 .. n - 1 : Append(u, x)[j] = u[j]
      /\ Append(u, x)[n] = x
  <2>1. /\ Append(u, x) \in Seq(S) /\ Len(Append(u, x)) = (n - 1) + 1
        /\ \A j \in 1 .. n - 1 : Append(u, x)[j] = u[j]
        /\ Append(u, x)[(n - 1) + 1] = x
    BY ONLY <1>3, x \in S, AppendProperties
  <2>2. (n - 1) + 1 = n
    BY ONLY <1>1
  <2> QED BY ONLY <2>1, <2>2
<1>7. ASSUME NEW j \in 1 .. n PROVE RemoveAt(t, i)[j] = Append(u, x)[j]
  <2>1. CASE j = n
    <3>1. ~ (j < i)
      BY ONLY <1>1, <2>1
    <3> QED BY ONLY <1>2, <1>5, <1>6, <1>7, <2>1, <3>1
  <2>2. CASE j # n
    <3>1. j \in 1 .. n - 1 /\ j \in 1 .. n /\ j + 1 \in 1 .. n
      BY ONLY <1>1, <1>7, <2>2
    <3> QED BY ONLY <1>2, <1>3, <1>5, <1>6, <3>1
  <2> QED BY ONLY <2>1, <2>2
<1>8. RemoveAt(t, i) = Append(u, x)
  BY ONLY <1>5, <1>6, <1>7, SeqEqual
<1> QED BY ONLY <1>8 DEF t, u

\* The partner of a captured transaction is one of the references left.
LEMMA PartnerType ==
    ASSUME Window \in Nat \ {0}, NEW S, NEW left \in Seq(S), NEW d,
           Equals(left, d) # {} \/ Len(left) >= Window
    PROVE  /\ Partner(left, d) \in 1 .. Len(left)
           /\ Equals(left, d) # {} =>
                /\ Partner(left, d) \in Equals(left, d)
                /\ \A i \in Equals(left, d) : Partner(left, d) <= i
<1>1. Len(left) \in Nat /\ DOMAIN left = 1 .. Len(left)
  BY LenProperties
<1>2. CASE Equals(left, d) # {}
  <2>1. Equals(left, d) \subseteq Nat /\ Equals(left, d) \subseteq 1 .. Len(left)
    BY <1>1 DEF Equals
  <2>2. Min(Equals(left, d)) \in Equals(left, d)
        /\ \A i \in Equals(left, d) : Min(Equals(left, d)) <= i
    BY ONLY <1>2, <2>1, LeastMember
  <2> QED BY ONLY <1>2, <2>1, <2>2 DEF Partner
<1>3. CASE Equals(left, d) = {}
  <2>1. 1 \in 1 .. Len(left)
    BY <1>1, <1>3
  <2> QED BY <1>3, <2>1 DEF Partner
<1> QED BY ONLY <1>2, <1>3

\* A prediction that comes later does not change the partner.
LEMMA LatePrediction ==
    ASSUME Window \in Nat \ {0}, NEW m \in Nat, NEW left \in Seq(1 .. m), NEW d,
           Equals(left, d) # {} \/ Len(left) >= Window,
           setup' = setup, \A n \in 1 .. m : pushed'[n] = pushed[n]
    PROVE  LET more == Append(left, m + 1) IN
           /\ Equals(more, d)' # {} \/ Len(more) >= Window
           /\ Partner(more, d)' = Partner(left, d)
<1> DEFINE more == Append(left, m + 1)  E == Equals(left, d)  F == Equals(more, d)'
<1>1. Len(left) \in Nat /\ DOMAIN left = 1 .. Len(left) /\ \A i \in 1 .. Len(left) : left[i] \in 1 .. m
  BY LenProperties
<1>2. /\ more \in Seq(Nat) /\ Len(more) = Len(left) + 1
      /\ \A i \in 1 .. Len(left) : more[i] = left[i]
      /\ DOMAIN more = 1 .. Len(left) + 1
  <2>1. left \in Seq(Nat) /\ m + 1 \in Nat
    BY <1>1
  <2> QED BY ONLY <2>1, AppendProperties, LenProperties
<1> HIDE DEF more
<1>3. F = {i \in 1 .. Len(left) + 1 : i <= Window /\ pushed'[more[i]] = d}
  BY ONLY <1>2, setup' = setup DEF Equals, Window, Value
<1>4. E = {i \in 1 .. Len(left) : i <= Window /\ pushed[left[i]] = d}
  BY ONLY <1>1 DEF Equals, Value
<1>5. E \subseteq F
  <2> SUFFICES ASSUME NEW i \in E PROVE i \in F
    OBVIOUS
  <2>1. i \in 1 .. Len(left) /\ i <= Window /\ pushed[left[i]] = d
    BY ONLY <1>4, i \in E
  <2>2. i \in 1 .. Len(left) + 1
    BY ONLY <1>1, <2>1
  <2>3. pushed'[more[i]] = d
    BY <1>1, <1>2, <2>1
  <2> QED BY ONLY <1>3, <2>1, <2>2, <2>3
<1>6. ASSUME NEW i \in F PROVE i \in E \/ (i = Len(left) + 1 /\ i <= Window)
  <2>1. i \in 1 .. Len(left) + 1 /\ i <= Window /\ pushed'[more[i]] = d
    BY ONLY <1>3, <1>6
  <2>2. CASE i \in 1 .. Len(left)
    <3>1. pushed[left[i]] = d
      BY <1>1, <1>2, <2>1, <2>2
    <3> QED BY ONLY <1>4, <2>1, <2>2, <3>1
  <2>3. i \in 1 .. Len(left) \/ i = Len(left) + 1
    BY ONLY <1>1, <2>1
  <2> QED BY ONLY <2>1, <2>2, <2>3
<1>7. Partner(more, d)' = IF F = {} THEN 1 ELSE Min(F)
  BY DEF Partner
<1>8. Partner(left, d) = IF E = {} THEN 1 ELSE Min(E)
  BY DEF Partner
<1>9. Window \in Nat /\ (E # {} \/ Len(left) >= Window)
  OBVIOUS
<1>10. E \subseteq 1 .. Len(left) /\ F \subseteq 1 .. Len(left) + 1
  BY ONLY <1>3, <1>4
<1> HIDE DEF E, F
<1>11. CASE E # {}
  <2>1. E \subseteq Nat /\ F \subseteq Nat /\ F # {}
    <3>1. 1 .. Len(left) \subseteq Nat /\ 1 .. Len(left) + 1 \subseteq Nat
      BY ONLY <1>1
    <3> QED BY ONLY <1>5, <1>10, <1>11, <3>1
  <2>2. /\ Min(E) \in E /\ \A i \in E : Min(E) <= i
        /\ Min(F) \in F /\ \A i \in F : Min(F) <= i
    BY ONLY <1>11, <2>1, LeastMember
  <2>3. Min(E) \in F /\ Min(F) <= Min(E) /\ Min(E) \in 1 .. Len(left)
    BY ONLY <1>5, <1>10, <2>2
  <2>4. Min(F) \in E
    <3>1. Min(F) # Len(left) + 1
      BY ONLY <1>1, <2>3
    <3> QED BY ONLY <1>6, <2>2, <3>1
  <2>5. Min(E) <= Min(F) /\ Min(E) \in Nat /\ Min(F) \in Nat
    BY ONLY <2>1, <2>2, <2>4
  <2>6. Min(E) = Min(F)
    BY ONLY <2>3, <2>5
  <2> QED BY ONLY <1>7, <1>8, <1>11, <2>1, <2>6 DEF F, E, more
<1>12. CASE E = {}
  <2>1. Len(left) >= Window
    BY ONLY <1>9, <1>12
  <2>2. F = {}
    <3> SUFFICES ASSUME NEW i \in F PROVE FALSE
      OBVIOUS
    <3>1. i = Len(left) + 1 /\ i <= Window
      BY ONLY <1>6, <1>12, i \in F
    <3> QED BY ONLY <1>1, <1>9, <2>1, <3>1
  <2>3. Len(more) >= Window
    BY ONLY <1>1, <1>2, <1>9, <2>1
  <2> QED BY ONLY <1>7, <1>8, <1>12, <2>2, <2>3 DEF more
<1> QED BY ONLY <1>11, <1>12

\* f goes through the verdict one captured transaction after the other.
Replay(f) ==
    f = [k \in 0 .. Len(pairs) |->
            IF k = 0 THEN AllLeft ELSE PairUp(f[k - 1], captured[k])]

\* No later prediction can change what a captured transaction took.
Foregone(f) ==
    /\ \A k \in 0 .. Len(pairs) : f[k].left \in Seq(1 .. Len(pushed))
    /\ \A k \in 1 .. Len(pairs) :
          Equals(f[k - 1].left, captured[k]) # {} \/ Len(f[k - 1].left) >= Window

Replayed(f) ==
    Replay(f) /\ Foregone(f) /\ f[Len(pairs)] = [left |-> ref, out |-> pairs]

CapturesKept == \A i \in 1 .. Len(mon) : mon[i] = captured[Len(pairs) + i]

ReplayInv == CapturesKept /\ \E f : Replayed(f)

\* There is one way to go through the verdict.
LEMMA ReplayUnique ==
    ASSUME Len(pairs) \in Nat, NEW f, NEW g, Replay(f), Replay(g)
    PROVE  f = g
<1> DEFINE n == Len(pairs)  Differ == {k \in 0 .. n : f[k] # g[k]}
<1>1. /\ f = [k \in 0 .. n |-> IF k = 0 THEN AllLeft ELSE PairUp(f[k - 1], captured[k])]
      /\ g = [k \in 0 .. n |-> IF k = 0 THEN AllLeft ELSE PairUp(g[k - 1], captured[k])]
  BY ONLY Replay(f), Replay(g) DEF Replay
<1>2. n \in Nat
  OBVIOUS
<1> HIDE DEF n
<1>3. Differ = {}
  <2> SUFFICES ASSUME Differ # {} PROVE FALSE
    OBVIOUS
  <2>1. Differ \subseteq Nat
    BY ONLY <1>2
  <2>2. PICK k \in Differ : \A j \in Differ : k <= j
    BY ONLY <2>1, Differ # {}, LeastMember
  <2>3. k \in 0 .. n /\ f[k] # g[k] /\ k \in Nat
    BY ONLY <1>2, k \in Differ
  <2>4. /\ f[k] = IF k = 0 THEN AllLeft ELSE PairUp(f[k - 1], captured[k])
        /\ g[k] = IF k = 0 THEN AllLeft ELSE PairUp(g[k - 1], captured[k])
    BY ONLY <1>1, <2>3
  <2>5. k # 0
    BY ONLY <2>3, <2>4
  <2>6. k - 1 \in 0 .. n /\ ~ (k <= k - 1)
    BY ONLY <1>2, <2>3, <2>5
  <2>7. f[k - 1] = g[k - 1]
    BY ONLY <2>2, <2>6
  <2> QED BY ONLY <2>3, <2>4, <2>7
<1>4. \A k \in 0 .. n : f[k] = g[k]
  BY ONLY <1>3
<1>5. /\ f = [k \in 0 .. n |-> f[k]]
      /\ g = [k \in 0 .. n |-> g[k]]
  BY ONLY <1>1
<1> QED BY ONLY <1>4, <1>5

\* The invariant says that the channel agrees with the verdict.
LEMMA ReplayIsVerdict == ChannelInv /\ ReplayInv => TimingIndependent
<1> SUFFICES ASSUME ChannelInv, ReplayInv PROVE TimingIndependent
  OBVIOUS
<1>1. PICK f : Replayed(f)
  BY DEF ReplayInv
<1>2. /\ Len(pairs) \in Nat /\ Len(captured) \in Nat /\ mon \in Seq(Data)
      /\ captured \in Seq(Data) /\ Len(mon) \in Nat
      /\ Len(pairs) + Len(mon) = Len(captured)
  BY DEF ChannelInv, TypeOK, CountInv
<1>3. Verdict = f[Len(pairs)]
  <2>1. Verdict = (CHOOSE g : Replay(g))[Len(pairs)]
    BY DEF Verdict, Replay
  <2>2. Replay(f)
    BY <1>1 DEF Replayed
  <2>3. Replay(CHOOSE g : Replay(g))
    BY ONLY <2>2
  <2>4. (CHOOSE g : Replay(g)) = f
    BY ONLY <1>2, <2>2, <2>3, ReplayUnique
  <2> QED BY ONLY <2>1, <2>4
<1>4. Verdict.out = pairs /\ Verdict.left = ref
  <2>1. f[Len(pairs)] = [left |-> ref, out |-> pairs]
    BY <1>1 DEF Replayed
  <2> QED BY ONLY <1>3, <2>1
<1>5. mon = SubSeq(captured, Len(pairs) + 1, Len(captured))
  <2> DEFINE rest == SubSeq(captured, Len(pairs) + 1, Len(captured))
  <2>1. \A i \in Len(pairs) + 1 .. Len(captured) : captured[i] \in Data
    <3>1. \A i \in Len(pairs) + 1 .. Len(captured) : i \in 1 .. Len(captured)
      BY ONLY <1>2
    <3> QED BY ONLY <1>2, <3>1
  <2>2. Len(pairs) + 1 \in Int /\ Len(captured) \in Int
    BY ONLY <1>2
  <2>3. /\ rest \in Seq(Data)
        /\ Len(rest) = IF Len(pairs) + 1 <= Len(captured)
                       THEN Len(captured) - (Len(pairs) + 1) + 1 ELSE 0
        /\ \A i \in 1 .. Len(captured) - (Len(pairs) + 1) + 1 :
              rest[i] = captured[(Len(pairs) + 1) + i - 1]
    BY ONLY <2>1, <2>2, SubSeqProperties
  <2> HIDE DEF rest
  <2>4. Len(rest) = Len(mon) /\ Len(captured) - (Len(pairs) + 1) + 1 = Len(mon)
    BY ONLY <1>2, <2>3
  <2>5. ASSUME NEW i \in 1 .. Len(mon) PROVE mon[i] = rest[i]
    <3>1. (Len(pairs) + 1) + i - 1 = Len(pairs) + i
      BY ONLY <1>2, <2>5
    <3>2. mon[i] = captured[Len(pairs) + i]
      BY <2>5 DEF ReplayInv, CapturesKept
    <3> QED BY ONLY <2>3, <2>4, <2>5, <3>1, <3>2
  <2>6. mon = rest
    BY ONLY <1>2, <2>3, <2>4, <2>5, SeqEqual
  <2> QED BY ONLY <2>6 DEF rest
<1> QED BY <1>4, <1>5 DEF TimingIndependent

\* Initially there is nothing to go through.
LEMMA InitReplay == Init => ReplayInv
<1> SUFFICES ASSUME Init PROVE ReplayInv
  OBVIOUS
<1>1. /\ pairs = <<>> /\ ref = <<>> /\ mon = <<>> /\ pushed = <<>>
      /\ Len(<<>>) = 0
  BY DEF Init
<1>2. AllLeft = [left |-> <<>>, out |-> <<>>]
  <2>1. [n \in 1 .. 0 |-> n] = <<>>
    OBVIOUS
  <2> QED BY ONLY <1>1, <2>1 DEF AllLeft
<1> DEFINE f == [k \in 0 .. 0 |-> [left |-> <<>>, out |-> <<>>]]
<1>3. f[0] = [left |-> <<>>, out |-> <<>>] /\ \A k \in 0 .. 0 : k = 0
  OBVIOUS
<1>4. Replay(f)
  <2>1. [k \in 0 .. 0 |-> [left |-> <<>>, out |-> <<>>]] =
        [k \in 0 .. 0 |-> IF k = 0 THEN AllLeft ELSE PairUp(f[k - 1], captured[k])]
    BY ONLY <1>2, <1>3
  <2> QED BY ONLY <1>1, <2>1 DEF Replay
<1>5. Foregone(f)
  <2>1. f[0].left = <<>> /\ <<>> \in Seq(1 .. Len(pushed)) /\ 1 .. 0 = {}
    BY <1>3
  <2> HIDE DEF f
  <2> QED BY ONLY <1>1, <1>3, <2>1 DEF Foregone
<1> HIDE DEF f
<1>6. Replayed(f)
  BY ONLY <1>1, <1>3, <1>4, <1>5 DEF Replayed
<1>7. CapturesKept
  BY ONLY <1>1 DEF CapturesKept
<1> QED BY <1>6, <1>7 DEF ReplayInv

\* y is x with a later prediction, and res is what x becomes when e has taken
\* its partner.
Pushed(m, x, y, e, res) ==
    /\ x.left \in Seq(1 .. m)
    /\ Equals(x.left, e) # {} \/ Len(x.left) >= Window
    /\ res = PairUp(x, e)
    /\ y.left = Append(x.left, m + 1) /\ y.out = x.out

\* A prediction that comes later is left over by a captured transaction that
\* has its partner already.
LEMMA PushPairUp ==
    ASSUME Window \in Nat \ {0}, setup' = setup,
           NEW m \in Nat, \A n \in 1 .. m : pushed'[n] = pushed[n],
           NEW x, NEW y, NEW e, NEW res, Pushed(m, x, y, e, res)
    PROVE  /\ Equals(y.left, e)' # {} \/ Len(y.left) >= Window
           /\ PairUp(y, e)' = [left |-> Append(res.left, m + 1), out |-> res.out]
<1> DEFINE left == x.left  more == Append(left, m + 1)  i == Partner(left, e)
<1>0. /\ left \in Seq(1 .. m) /\ (Equals(left, e) # {} \/ Len(left) >= Window)
      /\ res = PairUp(x, e) /\ y.left = more /\ y.out = x.out
  BY DEF Pushed
<1>1. (Equals(more, e)' # {} \/ Len(more) >= Window) /\ Partner(more, e)' = Partner(left, e)
  BY ONLY LatePrediction, Window \in Nat \ {0}, m \in Nat, <1>0, setup' = setup,
     \A n \in 1 .. m : pushed'[n] = pushed[n]
<1>2. i \in 1 .. Len(left)
  BY ONLY PartnerType, Window \in Nat \ {0}, <1>0
<1>3. res = [left |-> RemoveAt(left, i), out |-> Append(x.out, <<e, left[i]>>)]
  BY ONLY <1>0 DEF PairUp
<1>4. PICK p : p = i
  OBVIOUS
<1>5. RemoveAt(more, p) = Append(RemoveAt(left, p), m + 1) /\ more[p] = left[p]
  <2>1. left \in Seq(Nat) /\ m + 1 \in Nat /\ p \in 1 .. Len(left)
    <3>1. 1 .. m \subseteq Nat
      OBVIOUS
    <3> QED BY ONLY <1>0, <1>2, <1>4, <3>1, m \in Nat, SeqMonotonic
  <2>2. PICK s \in Seq(Nat) : s = left
    BY ONLY <2>1
  <2>3. RemoveAt(Append(s, m + 1), p) = Append(RemoveAt(s, p), m + 1)
    BY ONLY <2>1, <2>2, RemoveAppend
  <2>4. Append(s, m + 1)[p] = s[p]
    BY ONLY <2>1, <2>2, AppendProperties
  <2> QED BY ONLY <2>2, <2>3, <2>4
<1>6. y.left = more /\ y.out = x.out
  BY ONLY <1>0
<1> HIDE DEF more, i
<1>7. Partner(y.left, e)' = Partner(more, e)'
  BY ONLY <1>6 DEF Partner, Equals
<1>8. PairUp(y, e)' = [left |-> RemoveAt(more, p), out |-> Append(x.out, <<e, more[p]>>)]
  BY ONLY <1>1, <1>4, <1>6, <1>7 DEF PairUp, i
<1>9. res.left = RemoveAt(left, p) /\ res.out = Append(x.out, <<e, left[p]>>)
  BY ONLY <1>3, <1>4
<1>10. Equals(y.left, e)' # {} \/ Len(y.left) >= Window
  BY ONLY <1>1, <1>6 DEF Equals
<1> QED BY ONLY <1>5, <1>8, <1>9, <1>10

\* A step that leaves the pairs and the predictions alone: f goes on.
LEMMA CaptureReplay ==
    ASSUME ChannelInv, ReplayInv, NEW d \in Data, Capture(d)
    PROVE  ReplayInv'
<1>1. PICK f : Replayed(f)
  BY DEF ReplayInv
<1>2. PICK n : n = Len(pairs)
  OBVIOUS
<1>3. /\ n \in Nat /\ Len(captured) \in Nat /\ Len(mon) \in Nat
      /\ n + Len(mon) = Len(captured)
      /\ captured \in Seq(Data) /\ mon \in Seq(Data)
  BY ONLY ChannelInv, <1>2 DEF ChannelInv, TypeOK, CountInv
<1>4. Filter[d] \in Data
  BY FilterAssumption DEF Capture
<1>5. /\ captured' = Append(captured, Filter[d]) /\ mon' = Append(mon, Filter[d])
      /\ setup' = setup /\ pushed' = pushed /\ ref' = ref /\ pairs' = pairs
  BY DEF Capture
<1>6. /\ Len(captured') = Len(captured) + 1
      /\ \A k \in 1 .. Len(captured) : captured'[k] = captured[k]
      /\ captured'[Len(captured) + 1] = Filter[d]
      /\ Len(mon') = Len(mon) + 1
      /\ \A k \in 1 .. Len(mon) : mon'[k] = mon[k]
      /\ mon'[Len(mon) + 1] = Filter[d]
  BY ONLY <1>3, <1>4, <1>5, AppendProperties
<1>7. CapturesKept'
  <2>1. ASSUME NEW i \in 1 .. Len(mon') PROVE mon'[i] = captured'[n + i]
    <3>1. CASE i = Len(mon) + 1
      <4>1. n + i = Len(captured) + 1
        BY ONLY <1>3, <3>1
      <4> QED BY ONLY <1>6, <3>1, <4>1
    <3>2. CASE i \in 1 .. Len(mon)
      <4>1. n + i \in 1 .. Len(captured)
        BY ONLY <1>3, <3>2
      <4>2. mon[i] = captured[n + i]
        BY ONLY ReplayInv, <1>2, <3>2 DEF ReplayInv, CapturesKept
      <4> QED BY ONLY <1>6, <3>2, <4>1, <4>2
    <3>3. i \in 1 .. Len(mon) \/ i = Len(mon) + 1
      BY ONLY <1>3, <1>6, <2>1
    <3> QED BY ONLY <3>1, <3>2, <3>3
  <2> QED BY ONLY <1>2, <1>5, <2>1 DEF CapturesKept
<1>8. \A k \in 1 .. n : captured'[k] = captured[k]
  <2>1. \A k \in 1 .. n : k \in 1 .. Len(captured)
    BY ONLY <1>3
  <2> QED BY ONLY <1>6, <2>1
<1>9. ASSUME NEW x, NEW e PROVE PairUp(x, e)' = PairUp(x, e)
  BY ONLY <1>5 DEF PairUp, Partner, Equals, Value, Window
<1>10. AllLeft' = AllLeft
  BY ONLY <1>5 DEF AllLeft
<1>11. Replay(f)'
  <2>1. f = [k \in 0 .. n |-> IF k = 0 THEN AllLeft ELSE PairUp(f[k - 1], captured[k])]
    BY ONLY <1>1, <1>2 DEF Replayed, Replay
  <2>2. ASSUME NEW k \in 0 .. n
        PROVE  (IF k = 0 THEN AllLeft ELSE PairUp(f[k - 1], captured[k])) =
               (IF k = 0 THEN AllLeft ELSE PairUp(f[k - 1], captured[k]))'
    <3>1. CASE k = 0
      BY ONLY <1>10, <3>1
    <3>2. CASE k # 0
      <4>1. k \in 1 .. n
        BY ONLY <1>3, <2>2, <3>2
      <4>2. PICK e : e = captured[k]
        OBVIOUS
      <4>3. e = captured'[k]
        BY ONLY <1>8, <4>1, <4>2
      <4>4. PairUp(f[k - 1], captured[k])' = PairUp(f[k - 1], e)'
        BY ONLY <4>3 DEF PairUp, Partner, Equals
      <4> QED BY ONLY <1>9, <3>2, <4>2, <4>4
    <3> QED BY ONLY <3>1, <3>2
  <2>3. f = [k \in 0 .. n |-> (IF k = 0 THEN AllLeft ELSE PairUp(f[k - 1], captured[k]))']
    BY ONLY <2>1, <2>2
  <2> QED BY ONLY <1>2, <1>5, <2>3 DEF Replay
<1>12. Foregone(f)'
  <2>1. /\ \A k \in 0 .. n : f[k].left \in Seq(1 .. Len(pushed))
        /\ \A k \in 1 .. n :
              Equals(f[k - 1].left, captured[k]) # {} \/ Len(f[k - 1].left) >= Window
    BY ONLY <1>1, <1>2 DEF Replayed, Foregone
  <2>2. \A k \in 1 .. n :
           Equals(f[k - 1].left, captured[k])' # {} \/ Len(f[k - 1].left) >= Window'
    BY ONLY <1>5, <1>8, <2>1 DEF Equals, Value, Window
  <2> QED BY ONLY <1>2, <1>5, <2>1, <2>2 DEF Foregone
<1>13. Replayed(f)'
  BY ONLY <1>1, <1>5, <1>11, <1>12 DEF Replayed
<1> QED BY ONLY <1>7, <1>13 DEF ReplayInv

\* A prediction is left over by every captured transaction compared so far.
LEMMA PushReplay ==
    ASSUME ChannelInv, ReplayInv, NEW d \in Data, PushReference(d)
    PROVE  ReplayInv'
<1>1. PICK f : Replayed(f)
  BY DEF ReplayInv
<1>2. PICK n : n = Len(pairs)
  OBVIOUS
<1>3. PICK m : m = Len(pushed)
  OBVIOUS
<1>4. n \in Nat /\ m \in Nat /\ pushed \in Seq(Data)
  BY ONLY ChannelInv, <1>2, <1>3 DEF ChannelInv, TypeOK
<1>5. /\ pushed' = Append(pushed, d) /\ ref' = Append(ref, m + 1)
      /\ setup' = setup /\ captured' = captured /\ mon' = mon /\ pairs' = pairs
  BY ONLY PushReference(d), <1>3 DEF PushReference
<1>6. Len(pushed') = m + 1 /\ \A i \in 1 .. m : pushed'[i] = pushed[i]
  BY ONLY d \in Data, <1>3, <1>4, <1>5, AppendProperties
<1>7. Window \in Nat \ {0}
  BY SetupType DEF ChannelInv
<1>8. f = [k \in 0 .. n |-> IF k = 0 THEN AllLeft ELSE PairUp(f[k - 1], captured[k])]
  BY ONLY <1>1, <1>2 DEF Replayed, Replay
<1>9. /\ \A k \in 0 .. n : f[k].left \in Seq(1 .. m)
      /\ \A k \in 1 .. n :
            Equals(f[k - 1].left, captured[k]) # {} \/ Len(f[k - 1].left) >= Window
      /\ f[n] = [left |-> ref, out |-> pairs]
  BY ONLY <1>1, <1>2, <1>3 DEF Replayed, Foregone
<1>10. ASSUME NEW k \in 0 .. n PROVE f[k] = [left |-> f[k].left, out |-> f[k].out]
  <2>1. CASE k = 0
    BY ONLY <1>8, <1>10, <2>1 DEF AllLeft
  <2>2. CASE k # 0
    <3>1. f[k] = PairUp(f[k - 1], captured[k])
      BY ONLY <1>8, <1>10, <2>2
    <3>2. ASSUME NEW x, NEW e
          PROVE  PairUp(x, e) = [left |-> PairUp(x, e).left, out |-> PairUp(x, e).out]
      BY ONLY TRUE DEF PairUp
    <3> QED BY ONLY <3>1, <3>2
  <2> QED BY ONLY <2>1, <2>2
<1> DEFINE more(k) == Append(f[k].left, m + 1)
<1>11. PICK g : g = [k \in 0 .. n |-> [left |-> more(k), out |-> f[k].out]]
  OBVIOUS
<1>12. ASSUME NEW k \in 0 .. n
       PROVE  /\ more(k) \in Seq(1 .. m + 1)
              /\ g[k] = [left |-> more(k), out |-> f[k].out]
  <2>1. f[k].left \in Seq(1 .. m + 1) /\ m + 1 \in 1 .. m + 1
    <3>1. 1 .. m \subseteq 1 .. m + 1 /\ m + 1 \in 1 .. m + 1
      BY ONLY <1>4
    <3>2. Seq(1 .. m) \subseteq Seq(1 .. m + 1)
      BY ONLY <3>1, SeqMonotonic
    <3> QED BY ONLY <1>9, <1>12, <3>1, <3>2
  <2>2. more(k) \in Seq(1 .. m + 1)
    BY ONLY <2>1, AppendProperties
  <2> QED BY ONLY <1>11, <1>12, <2>2
<1> HIDE DEF more
<1>13. g[0] = AllLeft'
  <2>1. f[0] = [left |-> [i \in 1 .. m |-> i], out |-> <<>>] /\ 0 \in 0 .. n
    BY ONLY <1>3, <1>4, <1>8 DEF AllLeft
  <2>2. Append([i \in 1 .. m |-> i], m + 1) = [i \in 1 .. m + 1 |-> i]
    <3> DEFINE s == [i \in 1 .. m |-> i]  t == [i \in 1 .. m + 1 |-> i]
    <3>1. s \in Seq(Nat) /\ t \in Seq(Nat) /\ Len(s) = m /\ Len(t) = m + 1 /\ m + 1 \in Nat
      BY ONLY <1>4
    <3>3. \A i \in 1 .. m + 1 : t[i] = i /\ (i = m + 1 \/ (i \in 1 .. m /\ s[i] = i))
      BY ONLY <1>4
    <3> HIDE DEF s, t
    <3>2. /\ Append(s, m + 1) \in Seq(Nat) /\ Len(Append(s, m + 1)) = m + 1
          /\ \A i \in 1 .. m : Append(s, m + 1)[i] = s[i]
          /\ Append(s, m + 1)[m + 1] = m + 1
      BY ONLY <3>1, AppendProperties
    <3>4. \A i \in 1 .. m + 1 : Append(s, m + 1)[i] = t[i]
      BY ONLY <3>2, <3>3
    <3> QED BY ONLY <3>1, <3>2, <3>4, SeqEqual DEF s, t
  <2>3. g[0] = [left |-> [i \in 1 .. m + 1 |-> i], out |-> <<>>]
    <3>1. f[0].left = [i \in 1 .. m |-> i] /\ f[0].out = <<>>
      BY ONLY <2>1
    <3>2. more(0) = [i \in 1 .. m + 1 |-> i]
      BY ONLY <2>2, <3>1 DEF more
    <3> QED BY ONLY <1>12, <2>1, <3>1, <3>2
  <2> QED BY ONLY <1>6, <2>3 DEF AllLeft
<1>14. ASSUME NEW k \in 1 .. n
       PROVE  /\ Equals(g[k - 1].left, captured[k])' # {} \/ Len(g[k - 1].left) >= Window
              /\ g[k] = PairUp(g[k - 1], captured[k])'
  <2>1. PICK e : e = captured[k]
    OBVIOUS
  <2>2. PICK j : j = k - 1
    OBVIOUS
  <2>3. j \in 0 .. n /\ k \in 0 .. n /\ k # 0
    BY ONLY <1>4, <1>14, <2>2
  <2>4. PICK x : x = f[j]
    OBVIOUS
  <2>5. PICK y : y = g[j]
    OBVIOUS
  <2>6. PICK res : res = f[k]
    OBVIOUS
  <2>7. y = [left |-> Append(x.left, m + 1), out |-> x.out]
    BY ONLY <1>12, <2>3, <2>4, <2>5 DEF more
  <2>8. y.left = Append(x.left, m + 1) /\ y.out = x.out
    BY ONLY <2>7
  <2>9. res = PairUp(x, e)
    BY ONLY <1>8, <2>1, <2>2, <2>3, <2>4, <2>6
  <2>10. x.left \in Seq(1 .. m) /\ (Equals(x.left, e) # {} \/ Len(x.left) >= Window)
    BY ONLY <1>9, <1>14, <2>1, <2>2, <2>3, <2>4
  <2>11. Pushed(m, x, y, e, res)
    BY ONLY <2>8, <2>9, <2>10 DEF Pushed
  <2>12. /\ Equals(y.left, e)' # {} \/ Len(y.left) >= Window
         /\ PairUp(y, e)' = [left |-> Append(res.left, m + 1), out |-> res.out]
    <3>1. m \in Nat /\ setup' = setup /\ \A i \in 1 .. m : pushed'[i] = pushed[i]
      BY ONLY <1>4, <1>5, <1>6
    <3> QED BY ONLY <1>7, <2>11, <3>1, PushPairUp, SMTT(60)
  <2>13. g[k] = [left |-> Append(res.left, m + 1), out |-> res.out]
    BY ONLY <1>12, <2>3, <2>6 DEF more
  <2>14. g[k] = PairUp(g[j], e)'
    BY ONLY <2>5, <2>12, <2>13
  <2>15. Equals(g[j].left, e)' # {} \/ Len(g[j].left) >= Window
    BY ONLY <2>5, <2>12
  <2>16. e = captured'[k]
    BY ONLY <1>5, <2>1
  <2>17. PairUp(g[k - 1], captured[k])' = PairUp(g[j], e)'
    BY ONLY <2>2, <2>16 DEF PairUp, Partner, Equals
  <2>18. Equals(g[k - 1].left, captured[k])' = Equals(g[j].left, e)'
    BY ONLY <2>2, <2>16 DEF Equals
  <2> QED BY ONLY <2>2, <2>14, <2>15, <2>17, <2>18
<1>15. Replay(g)'
  <2>1. g = [k \in 0 .. n |-> g[k]]
    BY ONLY <1>11
  <2>2. \A k \in 0 .. n : g[k] = (IF k = 0 THEN AllLeft ELSE PairUp(g[k - 1], captured[k]))'
    <3>1. \A k \in 0 .. n : k = 0 \/ (k # 0 /\ k \in 1 .. n)
      BY ONLY <1>4
    <3> QED BY ONLY <1>13, <1>14, <3>1
  <2>3. g = [k \in 0 .. n |-> (IF k = 0 THEN AllLeft ELSE PairUp(g[k - 1], captured[k]))']
    BY ONLY <2>1, <2>2
  <2> QED BY ONLY <1>2, <1>5, <2>3 DEF Replay
<1>16. Foregone(g)'
  <2>1. \A k \in 0 .. n : g[k].left \in Seq(1 .. m + 1)
    <3> TAKE k \in 0 .. n
    <3>1. more(k) \in Seq(1 .. m + 1) /\ g[k] = [left |-> more(k), out |-> f[k].out]
      BY ONLY <1>12, k \in 0 .. n
    <3>2. PICK x : x = more(k)
      OBVIOUS
    <3>3. g[k].left = x
      BY ONLY <3>1, <3>2
    <3> QED BY ONLY <3>1, <3>2, <3>3
  <2>2. \A k \in 1 .. n :
           Equals(g[k - 1].left, captured[k])' # {} \/ Len(g[k - 1].left) >= Window'
    BY ONLY <1>5, <1>14 DEF Window
  <2> QED BY ONLY <1>2, <1>5, <1>6, <2>1, <2>2 DEF Foregone
<1>17. g[n] = [left |-> ref', out |-> pairs']
  <2>1. n \in 0 .. n
    BY ONLY <1>4
  <2>2. f[n].left = ref /\ f[n].out = pairs
    BY ONLY <1>9
  <2>3. more(n) = ref'
    BY ONLY <1>5, <2>2 DEF more
  <2> QED BY ONLY <1>5, <1>12, <2>1, <2>2, <2>3
<1>18. Replayed(g)'
  BY ONLY <1>2, <1>5, <1>15, <1>16, <1>17 DEF Replayed
<1>19. CapturesKept'
  BY ONLY ReplayInv, <1>5 DEF ReplayInv, CapturesKept
<1> QED BY ONLY <1>18, <1>19 DEF ReplayInv

\* The channel compares what the verdict says: the next captured transaction
\* with its partner.
LEMMA CompareReplay ==
    ASSUME ChannelInv, ReplayInv, loop = "match", NEW i, Compare(i), UNCHANGED tbVars,
           \/ Matches # {} /\ i = Taken
           \/ Matches = {} /\ WindowFull /\ i = 1
    PROVE  ReplayInv'
<1>1. PICK f : Replayed(f)
  BY DEF ReplayInv
<1>2. PICK n : n = Len(pairs)
  OBVIOUS
<1>3. PICK m : m = Len(pushed)
  OBVIOUS
<1>4. PICK e : e = captured[n + 1]
  OBVIOUS
<1>5. /\ n \in Nat /\ m \in Nat /\ mon \in Seq(Data) /\ mon # <<>>
      /\ pairs \in Seq(Data \X (1 .. m)) /\ ref \in Seq(1 .. m)
      /\ captured \in Seq(Data) /\ Len(captured) = n + Len(mon)
  BY ONLY ChannelInv, loop = "match", <1>2, <1>3 DEF ChannelInv, TypeOK, LockInv, CountInv
<1>6. Window \in Nat \ {0}
  BY SetupType DEF ChannelInv
<1>7. setup' = setup /\ captured' = captured /\ pushed' = pushed
  BY DEF tbVars
<1>8. /\ pairs' = Append(pairs, <<Head(mon), ref[i]>>)
      /\ mon' = Tail(mon) /\ ref' = RemoveAt(ref, i)
  BY DEF Compare
<1>9. Len(mon) \in Nat /\ 1 \in 1 .. Len(mon) /\ Head(mon) = mon[1]
      /\ Len(Tail(mon)) = Len(mon) - 1
      /\ \A k \in 1 .. Len(mon) - 1 : Tail(mon)[k] = mon[k + 1]
  BY ONLY <1>5, HeadTailProperties, LenProperties, EmptySeq
<1>10. \A k \in 1 .. Len(mon) : mon[k] = captured[n + k]
  BY ONLY ReplayInv, <1>2 DEF ReplayInv, CapturesKept
<1>11. Head(mon) = e
  BY ONLY <1>4, <1>9, <1>10
<1>12. Equals(ref, e) = Matches
  <2>1. Len(ref) \in Nat /\ DOMAIN ref = 1 .. Len(ref) /\ Window \in Nat
    BY ONLY <1>5, <1>6, LenProperties
  <2>2. \A k : k \in InWindow <=> (k \in DOMAIN ref /\ k <= Window)
    BY ONLY <2>1 DEF InWindow
  <2> QED BY ONLY <1>11, <2>2 DEF Equals, Matches
<1>13. (Equals(ref, e) # {} \/ Len(ref) >= Window) /\ Partner(ref, e) = i
  BY ONLY <1>12, (Matches # {} /\ i = Taken) \/ (Matches = {} /\ WindowFull /\ i = 1)
     DEF Partner, Taken, WindowFull
<1>14. i \in 1 .. Len(ref)
  BY ONLY <1>5, <1>6, <1>13, PartnerType
<1>15. PICK z : z = [left |-> ref', out |-> pairs']
  OBVIOUS
<1>16. z = PairUp([left |-> ref, out |-> pairs], e)
  <2>1. PairUp([left |-> ref, out |-> pairs], e) =
          [left |-> RemoveAt(ref, Partner(ref, e)),
           out  |-> Append(pairs, <<e, ref[Partner(ref, e)]>>)]
    BY ONLY TRUE DEF PairUp
  <2> QED BY ONLY <1>8, <1>11, <1>13, <1>15, <2>1
<1>17. z.left \in Seq(1 .. m) /\ Len(pairs') = n + 1
  <2>1. RemoveAt(ref, i) \in Seq(1 .. m)
    BY ONLY <1>5, <1>14, Removed
  <2>2. z.left = RemoveAt(ref, i)
    BY ONLY <1>8, <1>15
  <2>3. PICK p : p = <<Head(mon), ref[i]>>
    OBVIOUS
  <2>4. p \in Data \X (1 .. m)
    BY ONLY <1>5, <1>9, <1>14, <2>3
  <2> QED BY ONLY <1>2, <1>5, <1>8, <2>1, <2>2, <2>3, <2>4, AppendProperties
<1>18. f = [k \in 0 .. n |-> IF k = 0 THEN AllLeft ELSE PairUp(f[k - 1], captured[k])]
  BY ONLY <1>1, <1>2 DEF Replayed, Replay
<1>19. /\ \A k \in 0 .. n : f[k].left \in Seq(1 .. m)
       /\ \A k \in 1 .. n :
             Equals(f[k - 1].left, captured[k]) # {} \/ Len(f[k - 1].left) >= Window
       /\ f[n] = [left |-> ref, out |-> pairs]
  BY ONLY <1>1, <1>2, <1>3 DEF Replayed, Foregone
<1>20. PICK g : g = [k \in 0 .. n + 1 |-> IF k <= n THEN f[k] ELSE z]
  OBVIOUS
<1>21. /\ \A k \in 0 .. n : g[k] = f[k] /\ k \in 0 .. n + 1
       /\ g[n + 1] = z
       /\ \A k \in 0 .. n + 1 : k \in 0 .. n \/ k = n + 1
  <2>1. \A k \in 0 .. n : k \in 0 .. n + 1 /\ k <= n
    BY ONLY <1>5
  <2>2. n + 1 \in 0 .. n + 1 /\ ~ (n + 1 <= n)
    BY ONLY <1>5
  <2>3. \A k \in 0 .. n + 1 : k \in 0 .. n \/ k = n + 1
    BY ONLY <1>5
  <2> QED BY ONLY <1>20, <2>1, <2>2, <2>3
<1>22. ASSUME NEW k \in 1 .. n + 1
       PROVE  /\ g[k] = PairUp(g[k - 1], captured[k])
              /\ Equals(g[k - 1].left, captured[k]) # {} \/ Len(g[k - 1].left) >= Window
  <2>1. CASE k = n + 1
    <3>1. k - 1 = n /\ n \in 0 .. n
      BY ONLY <1>5, <2>1
    <3>2. g[k - 1] = [left |-> ref, out |-> pairs] /\ g[k - 1].left = ref
      BY ONLY <1>19, <1>21, <3>1
    <3>3. g[k] = z /\ captured[k] = e
      BY ONLY <1>4, <1>21, <2>1
    <3> QED BY ONLY <1>13, <1>16, <3>2, <3>3
  <2>2. CASE k # n + 1
    <3>1. k \in 1 .. n /\ k \in 0 .. n /\ k - 1 \in 0 .. n /\ k # 0
      BY ONLY <1>5, <1>22, <2>2
    <3>2. f[k] = PairUp(f[k - 1], captured[k])
      BY ONLY <1>18, <3>1
    <3>3. g[k] = f[k] /\ g[k - 1] = f[k - 1]
      BY ONLY <1>21, <3>1
    <3> QED BY ONLY <1>19, <3>1, <3>2, <3>3
  <2> QED BY ONLY <2>1, <2>2
<1>23. ASSUME NEW x, NEW d
       PROVE  PairUp(x, d)' = PairUp(x, d) /\ Equals(x, d)' = Equals(x, d)
  BY ONLY <1>7 DEF PairUp, Partner, Equals, Value, Window
<1>24. AllLeft' = AllLeft /\ Window' = Window
  BY ONLY <1>7 DEF AllLeft, Window
<1>25. ASSUME NEW k \in 1 .. n + 1
       PROVE  /\ g[k] = PairUp(g[k - 1], captured[k])'
              /\ Equals(g[k - 1].left, captured[k])' # {} \/ Len(g[k - 1].left) >= Window'
  <2>1. PICK d : d = captured[k]
    OBVIOUS
  <2>2. d = captured'[k]
    BY ONLY <1>7, <2>1
  <2>3. PairUp(g[k - 1], captured[k])' = PairUp(g[k - 1], d)'
        /\ Equals(g[k - 1].left, captured[k])' = Equals(g[k - 1].left, d)'
    BY ONLY <2>2 DEF PairUp, Partner, Equals
  <2>4. PairUp(g[k - 1], d)' = PairUp(g[k - 1], d)
        /\ Equals(g[k - 1].left, d)' = Equals(g[k - 1].left, d)
    BY ONLY <1>23
  <2> QED BY ONLY <1>22, <1>24, <1>25, <2>1, <2>3, <2>4
<1>26. Replay(g)'
  <2>1. g = [k \in 0 .. n + 1 |-> g[k]]
    BY ONLY <1>20
  <2>2. g[0] = AllLeft'
    <3>1. 0 \in 0 .. n
      BY ONLY <1>5
    <3> QED BY ONLY <1>18, <1>21, <1>24, <3>1
  <2>3. \A k \in 0 .. n + 1 :
           g[k] = (IF k = 0 THEN AllLeft ELSE PairUp(g[k - 1], captured[k]))'
    <3>1. \A k \in 0 .. n + 1 : k = 0 \/ (k # 0 /\ k \in 1 .. n + 1)
      BY ONLY <1>5
    <3> QED BY ONLY <1>25, <2>2, <3>1
  <2>4. g = [k \in 0 .. n + 1 |-> (IF k = 0 THEN AllLeft ELSE PairUp(g[k - 1], captured[k]))']
    BY ONLY <2>1, <2>3
  <2> QED BY ONLY <1>17, <2>4 DEF Replay
<1>27. Foregone(g)'
  <2>1. \A k \in 0 .. n + 1 : g[k].left \in Seq(1 .. m)
    BY ONLY <1>17, <1>19, <1>21
  <2>2. \A k \in 1 .. n + 1 :
           Equals(g[k - 1].left, captured[k])' # {} \/ Len(g[k - 1].left) >= Window'
    BY ONLY <1>25
  <2> QED BY ONLY <1>3, <1>7, <1>17, <2>1, <2>2 DEF Foregone
<1>28. Replayed(g)'
  BY ONLY <1>15, <1>17, <1>21, <1>26, <1>27 DEF Replayed
<1>29. CapturesKept'
  <2>1. ASSUME NEW k \in 1 .. Len(mon) - 1 PROVE mon'[k] = captured[(n + 1) + k]
    <3>1. k + 1 \in 1 .. Len(mon) /\ n + (k + 1) = (n + 1) + k
      BY ONLY <1>5, <1>9, <2>1
    <3> QED BY ONLY <1>8, <1>9, <1>10, <2>1, <3>1
  <2> QED BY ONLY <1>7, <1>8, <1>9, <1>17, <2>1 DEF CapturesKept
<1> QED BY ONLY <1>28, <1>29 DEF ReplayInv

\* A step that leaves queues and pairs alone.
LEMMA ReplayAlone ==
    ASSUME ReplayInv, UNCHANGED <<tbVars, mon, ref, pairs>>
    PROVE  ReplayInv'
<1>1. /\ setup' = setup /\ captured' = captured /\ pushed' = pushed
      /\ mon' = mon /\ ref' = ref /\ pairs' = pairs
  BY DEF tbVars
<1>2. PICK f : Replayed(f)
  BY DEF ReplayInv
<1>3. Replay(f)' <=> Replay(f)
  BY ONLY <1>1 DEF Replay, AllLeft, PairUp, Partner, Equals, Value, Window
<1>4. Foregone(f)' <=> Foregone(f)
  BY ONLY <1>1 DEF Foregone, Equals, Value, Window
<1>5. Replayed(f)'
  BY ONLY <1>1, <1>2, <1>3, <1>4 DEF Replayed
<1>6. CapturesKept'
  BY ONLY ReplayInv, <1>1 DEF ReplayInv, CapturesKept
<1> QED BY ONLY <1>5, <1>6 DEF ReplayInv

LEMMA NextReplay == ChannelInv /\ ReplayInv /\ [Next]_vars => ReplayInv'
<1> SUFFICES ASSUME ChannelInv, ReplayInv, [Next]_vars PROVE ReplayInv'
  OBVIOUS
<1>1. ASSUME NEW d \in Data, Capture(d) \/ PushReference(d) PROVE ReplayInv'
  BY <1>1, CaptureReplay, PushReplay
<1>2. CASE TakeMatch
  BY <1>2, CompareReplay DEF TakeMatch
<1>3. CASE TakeHead
  BY <1>3, CompareReplay DEF TakeHead
<1>4. CASE StartMatch \/ AwaitReference \/ ReferenceArrived \/ Overstay
  BY <1>4, ReplayAlone DEF StartMatch, AwaitReference, ReferenceArrived, Overstay
<1>5. CASE StartDrain \/ FinishDrain \/ UNCHANGED vars
  BY <1>5, ReplayAlone DEF StartDrain, FinishDrain, vars, tbVars
<1> QED BY <1>1, <1>2, <1>3, <1>4, <1>5 DEF Next, LoopStep

-----------------------------------------------------------------------------
(* Theorems *)

\* The invariant holds in every reachable state of the channel.
THEOREM ChannelInvariant == Spec => []ChannelInv
BY InitChannel, NextChannel, PTL DEF Spec

\* The channel, its queues and its counts keep their shapes: a count never
\* gets further than one past the window, the error included.
THEOREM ChannelTypeCorrect == Spec => []TypeOK
<1>1. ChannelInv => TypeOK
  BY DEF ChannelInv
<1> QED BY <1>1, ChannelInvariant, PTL

\* After the first mismatch under fail_fast nothing is compared, whatever is
\* captured or predicted afterwards.
THEOREM MismatchStops == Spec => []StopsAtFirstMismatch
<1>1. ChannelInv => StopsAtFirstMismatch
  BY DEF ChannelInv, MatchInv, StopsAtFirstMismatch, Equal
<1> QED BY <1>1, ChannelInvariant, PTL

\* Which transactions are paired depends on what was captured and predicted, in
\* which order each, and on nothing else: not on when, not on when the loop
\* wakes up, whatever the window.
THEOREM PairingIgnoresTiming == Spec => []TimingIndependent
BY ReplayIsVerdict, InitReplay, NextReplay, ChannelInvariant, PTL DEF Spec

\* When a drain completes there is nothing left of what its policy covers,
\* under each of the four policies.
THEOREM DrainIsComplete == Spec => DrainLeavesNothing
<1> DEFINE Leaves ==
        drain = "polling" /\ drain' = "done" =>
          /\ Policy \in {"MON_AND_REF", "MON_ONLY"} => Len(pairs) = Len(captured)
          /\ Policy \in {"MON_AND_REF", "REF_ONLY"} => Len(pairs) = Len(pushed)
<1>1. ChannelInv /\ [Next]_vars => [Leaves]_vars
  <2> SUFFICES ASSUME ChannelInv, Next, drain = "polling", drain' = "done"
               PROVE  /\ Policy \in {"MON_AND_REF", "MON_ONLY"} => Len(pairs) = Len(captured)
                      /\ Policy \in {"MON_AND_REF", "REF_ONLY"} => Len(pairs) = Len(pushed)
    OBVIOUS
  <2>1. FinishDrain
    BY DEF Next, LoopStep, StartMatch, TakeMatch, TakeHead, AwaitReference,
       ReferenceArrived, Overstay, Capture, PushReference, StartDrain
  <2>2. Len(<<>>) = 0 /\ Len(pairs) \in Nat
    BY DEF ChannelInv, TypeOK
  <2>3. /\ mon = <<>> => Len(pairs) = Len(captured)
        /\ ref = <<>> => Len(pairs) = Len(pushed)
    BY <2>2 DEF ChannelInv, CountInv
  <2> QED BY <2>1, <2>3 DEF FinishDrain, Drained
<1> QED BY <1>1, ChannelInvariant, PTL DEF Spec, DrainLeavesNothing

\* Every channel is attached with a policy that waits for the captures.
WaitsForCaptures == \A s \in Setups : s.policy \in {"MON_AND_REF", "MON_ONLY"}

\* A drain that waits for the captures finds the lock free, or the loop dead:
\* the loop keeps the lock only while it has a captured transaction to match.
THEOREM DrainsSucceed == WaitsForCaptures => (Spec => []DrainNeverFails)
<1> SUFFICES ASSUME WaitsForCaptures PROVE Spec => []DrainNeverFails
  OBVIOUS
<1>1. Init => DrainNeverFails
  BY DEF Init, DrainNeverFails
<1>2. ChannelInv /\ DrainNeverFails /\ [Next]_vars => DrainNeverFails'
  <2> SUFFICES ASSUME ChannelInv, DrainNeverFails, Next, drain' = "failed"
               PROVE  loop' = "dead"
    BY DEF DrainNeverFails, vars
  <2>1. CASE FinishDrain
    <3>1. Policy \in {"MON_AND_REF", "MON_ONLY"}
      BY DEF ChannelInv, TypeOK, WaitsForCaptures, Policy
    <3>2. mon = <<>> /\ held
      BY <2>1, <3>1 DEF FinishDrain, Drained
    <3> QED BY <2>1, <3>2 DEF ChannelInv, LockInv, TypeOK, FinishDrain
  <2>2. CASE ~FinishDrain
    <3>1. drain = "failed" /\ loop = "dead"
      BY <2>2 DEF Next, LoopStep, StartMatch, TakeMatch, TakeHead, AwaitReference,
         ReferenceArrived, Overstay, Capture, PushReference, StartDrain, DrainNeverFails
    <3> QED BY <2>2, <3>1 DEF Next, LoopStep, StartMatch, TakeMatch, TakeHead,
           AwaitReference, ReferenceArrived, Overstay, Capture, PushReference, StartDrain
  <2> QED BY <2>1, <2>2
<1> QED BY <1>1, <1>2, ChannelInvariant, PTL DEF Spec

=============================================================================
