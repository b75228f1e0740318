--------------------------- MODULE CloseDownProofs ---------------------------
(***************************************************************************)
(* Proofs about CloseDown: with enough shutdown loops, a testcase that     *)
(* passes has compared every transaction, and its design had no fault.     *)
(*                                                                         *)
(* The invariant follows a stream through close_down.  In loop calm[s]+1   *)
(* nothing enqueues in s any more, so after the look at its driver the     *)
(* queue is empty; a driver that still drives is through with it in the    *)
(* delay of the next loop; and the channel's drain, which finds both of    *)
(* its queues empty, then has seen everything.                             *)
(***************************************************************************)
EXTENDS CloseDown, SequenceTheorems, TLAPS

Stage == {"body", "sequences", "delay", "drivers", "monitors", "processes",
          "drain", "teardown", "passed", "failed"}

Id == Nat \ {0}

\* The type invariant: every variable has its type, the testcase counts loops
\* from 1 to Loops, and it is in the body before the first.
TypeOK ==
    /\ main \in Stage /\ loop \in 1 .. Loops /\ at \in 1 .. (Len(Order) + 1)
    /\ timer \in Nat /\ edge \in BOOLEAN
    /\ task \in [Task -> {"unscheduled", "running", "done"}]
    /\ sent \in [Task -> Nat]
    /\ accepted \in [Stream -> Nat] /\ compared \in [Stream -> Nat]
    /\ queue \in [Stream -> Seq(Id)] /\ ref \in [Stream -> Seq(Id)]
    /\ dut \in [Stream -> Seq(Nat)] /\ mon \in [Stream -> Seq(Nat)]
    /\ hand \in [Stream -> Nat] /\ left \in [Stream -> Nat]
    /\ mismatch \in BOOLEAN /\ faults \in Nat
    /\ main = "body" => loop = 1

-----------------------------------------------------------------------------
(* Where close_down is *)

\* Number of shutdown loops that are over.
LoopsDone == IF main \in {"teardown", "passed"} THEN Loops ELSE loop - 1

\* Blocking sequences, and processes, have been awaited.
SequencesOver == main # "failed" /\ (loop > 1 \/ main \notin {"body", "sequences"})
ProcessesOver == main # "failed" /\ (loop > 1 \/ main \in {"drain", "teardown", "passed"})

\* Nothing enqueues in s any more.
Quiet(s, calm) == SequencesOver /\ LoopsDone >= calm[s]

\* Close_down has visited s in the list of components or channels.
Visited(s) == \E i \in 1 .. Len(Order) : i < at /\ Order[i] = s

\* Close_down has looked at the driver of s since nothing enqueues in s.
Looked(s, calm) ==
    /\ main # "failed"
    /\ \/ LoopsDone > calm[s]
       \/ /\ LoopsDone = calm[s]
          /\ \/ main \in {"monitors", "processes", "drain"}
             \/ main = "drivers" /\ Visited(s)

\* Close_down is in the loop after that one, or in a later one, and is past
\* the first clock edge that follows the delay.
Rested(s, calm) ==
    /\ main # "failed"
    /\ \/ LoopsDone > calm[s] + 1
       \/ /\ LoopsDone = calm[s] + 1
          /\ \/ main \in {"monitors", "processes", "drain"}
             \/ main = "drivers" /\ (at > 1 \/ edge)

\* The channel of s has been drained in loop LoopsFor(s), or that loop is over.
WasDrained(s, calm) ==
    /\ main # "failed"
    /\ \/ LoopsDone >= LoopsFor(s, calm)
       \/ LoopsDone + 1 = LoopsFor(s, calm) /\ main = "drain" /\ Visited(s)

-----------------------------------------------------------------------------
(* The inductive invariant *)

\* The awaited tasks have ended.
TasksEnded ==
    /\ SequencesOver => \A t \in Blocking : task[t] # "running"
    /\ ProcessesOver => \A t \in Process : task[t] = "done"

\* The reference queue and the design get every transaction once; the design
\* may lose some.
InHand(s) == IF ModelOn[s] = "POST_DRIVE" /\ hand[s] # 0 THEN 1 ELSE 0
Tracked(s) == compared[s] + Len(mon[s]) + Len(dut[s]) + Len(queue[s])
Counted ==
    \A s \in Stream :
        /\ compared[s] + Len(ref[s]) + InHand(s) + Len(queue[s]) = accepted[s]
        /\ Tracked(s) <= accepted[s]

\* Every transaction of s has been compared.
Complete(s) ==
    /\ compared[s] = accepted[s]
    /\ queue[s] = <<>> /\ dut[s] = <<>> /\ mon[s] = <<>> /\ ref[s] = <<>>

\* At a clock edge whatever could run before it has run.
SettledAtEdge(calm) ==
    \A s \in Stream : edge /\ Quiet(s, calm) /\ hand[s] = 0 => queue[s] = <<>>

QueueEmptied(calm) == \A s \in Stream : Looked(s, calm) => queue[s] = <<>>

\* How the last drive ends, for a model that predicts after the drive.
DriveEnds(calm) ==
    \A s \in Stream :
        /\ left[s] <= MaxDrive
        /\ ModelOn[s] = "POST_DRIVE" /\ LoopsDone = calm[s] + 1 /\ hand[s] # 0 =>
             /\ main = "delay" => left[s] <= timer
             /\ main = "drivers" /\ at = 1 /\ ~edge => left[s] = 0
        /\ ModelOn[s] = "POST_DRIVE" /\ Rested(s, calm) => hand[s] = 0

StreamsComplete(calm) == \A s \in Stream : WasDrained(s, calm) => Complete(s)

\* A fault is seen, or leaves a trace in a stream that is not complete.
FaultsTraced ==
    faults > 0 => \/ mismatch
                  \/ \E s \in Stream : \/ \E i \in 1 .. Len(mon[s]) : mon[s][i] = 0
                                       \/ Tracked(s) < accepted[s]

-----------------------------------------------------------------------------
\* A step of the testcase itself.
MainOrTimeOut == MainStep \/ TimeOut

LEMMA MainKeepsPaths ==
    ASSUME MainOrTimeOut
    PROVE  UNCHANGED <<taskVars, pathVars, mismatch, faults>>
BY DEF MainOrTimeOut, MainStep, TimeOut, EndBody, SequencesDone, DelayOver, LookAtDriver,
       LookAtMonitor, ProcessesDone, DrainChannel, EndLoop, Conclude, UnchangedElse

LEMMA EnqueueTypes ==
    ASSUME TypeOK, NEW r \in Stream \cup {NoStream}, Enqueue(r)
    PROVE  /\ queue' \in [Stream -> Seq(Id)] /\ accepted' \in [Stream -> Nat]
           /\ \A s \in Stream : s # r => queue'[s] = queue[s] /\ accepted'[s] = accepted[s]
           /\ r \in Stream => /\ queue'[r] = Append(queue[r], accepted[r] + 1)
                              /\ Len(queue'[r]) = Len(queue[r]) + 1
                              /\ accepted'[r] = accepted[r] + 1
<1>1. queue \in [Stream -> Seq(Id)] /\ accepted \in [Stream -> Nat]
  BY DEF TypeOK
<1>2. \A s \in Stream : accepted[s] + 1 \in Id /\ accepted[s] + 1 \in Nat
  BY <1>1 DEF Id
<1>3. \A s \in Stream : /\ queue[s] \in Seq(Id)
                        /\ Append(queue[s], accepted[s] + 1) \in Seq(Id)
                        /\ Len(Append(queue[s], accepted[s] + 1)) = Len(queue[s]) + 1
  BY <1>1, <1>2, AppendProperties
<1>4. /\ queue' = [s \in Stream |->
                    IF s = r THEN Append(queue[s], accepted[s] + 1) ELSE queue[s]]
      /\ accepted' = [s \in Stream |-> IF s = r THEN accepted[s] + 1 ELSE accepted[s]]
  BY DEF Enqueue
<1>5. queue' \in [Stream -> Seq(Id)]
  BY <1>3, <1>4, Zenon
<1>6. accepted' \in [Stream -> Nat]
  BY <1>1, <1>2, <1>4
<1>. QED  BY <1>3, <1>4, <1>5, <1>6

LEMMA TakeNextTypes ==
    ASSUME TypeOK, NEW s \in Stream, TakeNext(s)
    PROVE  /\ queue' \in [Stream -> Seq(Id)] /\ dut' \in [Stream -> Seq(Nat)]
           /\ hand' \in [Stream -> Nat] /\ left' \in [Stream -> Nat]
           /\ \A r \in Stream : r # s =>
                /\ queue'[r] = queue[r] /\ dut'[r] = dut[r]
                /\ hand'[r] = hand[r] /\ left'[r] = left[r]
           /\ \/ /\ queue[s] = <<>> /\ hand'[s] = 0
                 /\ queue'[s] = queue[s] /\ dut'[s] = dut[s] /\ left'[s] = left[s]
              \/ /\ queue[s] # <<>> /\ hand'[s] # 0
                 /\ left'[s] \in 1 .. MaxDrive
                 /\ Len(queue[s]) = Len(queue'[s]) + 1
                 /\ Len(dut'[s]) = Len(dut[s]) + 1
<1>0. /\ queue \in [Stream -> Seq(Id)] /\ dut \in [Stream -> Seq(Nat)]
      /\ hand \in [Stream -> Nat] /\ left \in [Stream -> Nat] /\ MaxDrive \in Nat
  BY CountAssumption DEF TypeOK
<1>1. CASE queue[s] = <<>>
  <2>1. /\ queue' = queue /\ dut' = dut /\ left' = left
        /\ hand' = [hand EXCEPT ![s] = 0]
    BY <1>1 DEF TakeNext
  <2>2. hand' \in [Stream -> Nat]
    BY <1>0, <2>1
  <2>. QED  BY <1>0, <1>1, <2>1, <2>2, Zenon
<1>2. CASE queue[s] # <<>>
  <2>. DEFINE h == Head(queue[s])
  <2>1. /\ h \in Id /\ Tail(queue[s]) \in Seq(Id)
        /\ Len(queue[s]) = Len(Tail(queue[s])) + 1
    BY <1>0, <1>2, HeadTailProperties, LenProperties
  <2>2. /\ Append(dut[s], h) \in Seq(Nat) /\ Len(Append(dut[s], h)) = Len(dut[s]) + 1
        /\ h \in Nat /\ h # 0
    BY <1>0, <2>1, AppendProperties DEF Id
  <2>3. PICK cycles \in 1 .. MaxDrive : left' = [left EXCEPT ![s] = cycles]
    BY <1>2 DEF TakeNext
  <2>4. /\ hand' = [hand EXCEPT ![s] = h]
        /\ queue' = [queue EXCEPT ![s] = Tail(queue[s])]
        /\ dut' = [dut EXCEPT ![s] = Append(dut[s], h)]
    BY <1>2 DEF TakeNext
  <2>. HIDE DEF h
  <2>5. queue' \in [Stream -> Seq(Id)] /\ queue'[s] = Tail(queue[s])
        /\ \A r \in Stream : r # s => queue'[r] = queue[r]
    BY <1>0, <2>1, <2>4, Zenon
  <2>6. dut' \in [Stream -> Seq(Nat)] /\ dut'[s] = Append(dut[s], h)
        /\ \A r \in Stream : r # s => dut'[r] = dut[r]
    BY <1>0, <2>2, <2>4, Zenon
  <2>7. /\ hand' \in [Stream -> Nat] /\ hand'[s] = h
        /\ \A r \in Stream : r # s => hand'[r] = hand[r]
    BY <1>0, <2>2, <2>4
  <2>8. /\ left' \in [Stream -> Nat] /\ left'[s] = cycles
        /\ \A r \in Stream : r # s => left'[r] = left[r]
    BY <1>0, <2>3
  <2>. QED  BY <1>2, <2>1, <2>2, <2>5, <2>6, <2>7, <2>8
<1>. QED  BY <1>1, <1>2

LEMMA PredictedTypes ==
    ASSUME NEW s \in Stream, NEW id \in Nat, NEW now
    PROVE  /\ Predicted(s, id, now) \in Seq(Id)
           /\ now = ModelOn[s] /\ id # 0 => Len(Predicted(s, id, now)) = 1
           /\ ~ (now = ModelOn[s] /\ id # 0) =>
                Predicted(s, id, now) = <<>> /\ Len(Predicted(s, id, now)) = 0
<1>1. CASE now = ModelOn[s] /\ id # 0
  <2>1. Predicted(s, id, now) = <<id>> /\ id \in Id
    BY <1>1 DEF Predicted, Id
  <2>. QED  BY <1>1, <2>1
<1>2. CASE ~ (now = ModelOn[s] /\ id # 0)
  <2>1. Predicted(s, id, now) = <<>>
    BY <1>2 DEF Predicted
  <2>. QED  BY <1>2, <2>1, EmptySeq
<1>. QED  BY <1>1, <1>2

\* The steps of a drive, with what they add to the reference queue.
LEMMA DriveTypes ==
    ASSUME TypeOK, NEW s \in Stream, BeginDrive(s) \/ EndDrive(s)
    PROVE  /\ ref' \in [Stream -> Seq(Id)]
           /\ \A r \in Stream : r # s => ref'[r] = ref[r]
           /\ Len(ref'[s]) + InHand(s)' + Len(queue'[s])
                = Len(ref[s]) + InHand(s) + Len(queue[s])
           /\ queue[s] = <<>> /\ InHand(s) = 0 => ref'[s] = ref[s]
<1>. DEFINE old == IF hand[s] = 0 THEN <<>> ELSE Predicted(s, hand[s], "POST_DRIVE")
            new == Predicted(s, hand'[s], "PRE_DRIVE")
<1>0. TakeNext(s) /\ ref \in [Stream -> Seq(Id)]
  BY DEF BeginDrive, EndDrive, TypeOK
<1>1. /\ hand[s] \in Nat /\ hand'[s] \in Nat /\ ref[s] \in Seq(Id)
      /\ queue[s] \in Seq(Id) /\ queue'[s] \in Seq(Id)
      /\ Len(ref[s]) \in Nat /\ Len(queue[s]) \in Nat /\ Len(queue'[s]) \in Nat
  BY <1>0, TakeNextTypes, LenProperties DEF TypeOK
<1>2. \/ ModelOn[s] = "PRE_DRIVE" /\ ModelOn[s] # "POST_DRIVE"
      \/ ModelOn[s] = "POST_DRIVE" /\ ModelOn[s] # "PRE_DRIVE"
  BY ModelAssumption
<1>3. /\ old \in Seq(Id)
      /\ ModelOn[s] = "POST_DRIVE" /\ hand[s] # 0 => Len(old) = 1
      /\ ~ (ModelOn[s] = "POST_DRIVE" /\ hand[s] # 0) => old = <<>> /\ Len(old) = 0
  BY <1>1, PredictedTypes, EmptySeq
<1>4. /\ new \in Seq(Id)
      /\ ModelOn[s] = "PRE_DRIVE" /\ hand'[s] # 0 => Len(new) = 1
      /\ ~ (ModelOn[s] = "PRE_DRIVE" /\ hand'[s] # 0) => new = <<>> /\ Len(new) = 0
  BY <1>1, PredictedTypes
<1>5. ref' = [ref EXCEPT ![s] = (ref[s] \o old) \o new]
  <2>1. CASE BeginDrive(s)
    <3>1. ref[s] \o <<>> = ref[s] /\ old = <<>>
      BY <1>1, <2>1, ConcatEmptySeq DEF BeginDrive
    <3>. QED  BY <2>1, <3>1 DEF BeginDrive
  <2>2. CASE EndDrive(s)
    BY <2>2 DEF EndDrive
  <2>. QED  BY <2>1, <2>2
<1>6. \/ hand'[s] = 0 /\ Len(queue[s]) = Len(queue'[s])
      \/ hand'[s] # 0 /\ queue[s] # <<>> /\ Len(queue[s]) = Len(queue'[s]) + 1
  BY <1>0, TakeNextTypes
<1>. HIDE DEF old, new
<1>7. /\ (ref[s] \o old) \o new \in Seq(Id)
      /\ Len((ref[s] \o old) \o new) = Len(ref[s]) + Len(old) + Len(new)
  <2>1. ref[s] \o old \in Seq(Id) /\ Len(ref[s] \o old) = Len(ref[s]) + Len(old)
    BY <1>1, <1>3, ConcatProperties
  <2>. QED  BY <1>4, <2>1, ConcatProperties
<1>8. /\ ref' \in [Stream -> Seq(Id)] /\ ref'[s] = (ref[s] \o old) \o new
      /\ \A r \in Stream : r # s => ref'[r] = ref[r]
  BY <1>0, <1>5, <1>7, Zenon
<1>9. Len(ref'[s]) + InHand(s)' + Len(queue'[s]) = Len(ref[s]) + InHand(s) + Len(queue[s])
  <2>1. Len(ref'[s]) = Len(ref[s]) + Len(old) + Len(new)
    BY <1>7, <1>8
  <2>2. InHand(s) = Len(old)
    BY <1>3 DEF InHand
  <2>3. Len(queue[s]) = Len(queue'[s]) + InHand(s)' + Len(new)
    <3>1. CASE hand'[s] = 0
      <4>1. InHand(s)' = 0 /\ Len(new) = 0
        BY <1>4, <3>1 DEF InHand
      <4>. QED  BY <1>1, <1>6, <3>1, <4>1
    <3>2. CASE hand'[s] # 0
      <4>1. InHand(s)' + Len(new) = 1 /\ InHand(s)' \in Nat /\ Len(new) \in Nat
        BY <1>2, <1>4, <3>2 DEF InHand
      <4>. QED  BY <1>1, <1>6, <3>2, <4>1
    <3>. QED  BY <3>1, <3>2
  <2>4. InHand(s)' \in Nat /\ Len(old) \in Nat /\ Len(new) \in Nat
    BY <1>3, <1>4 DEF InHand
  <2>. QED  BY <1>1, <2>1, <2>2, <2>3, <2>4
<1>10. ASSUME queue[s] = <<>>, InHand(s) = 0  PROVE  ref'[s] = ref[s]
  <2>1. old = <<>> /\ new = <<>>
    BY <1>3, <1>4, <1>6, <1>10 DEF InHand
  <2>. QED  BY <1>1, <1>8, <2>1, ConcatEmptySeq
<1>. QED  BY <1>8, <1>9, <1>10

LEMMA CaptureTypes ==
    ASSUME TypeOK, NEW s \in Stream, Capture(s)
    PROVE  /\ dut' \in [Stream -> Seq(Nat)] /\ mon' \in [Stream -> Seq(Nat)]
           /\ \A r \in Stream : r # s => dut'[r] = dut[r] /\ mon'[r] = mon[r]
           /\ dut[s] # <<>> /\ Len(dut[s]) = Len(dut'[s]) + 1
           /\ Len(mon'[s]) = Len(mon[s]) + 1
           /\ \/ faults' = faults /\ mon'[s] = Append(mon[s], Head(dut[s]))
              \/ faults' = faults + 1 /\ mon'[s] = Append(mon[s], 0)
<1>1. /\ dut \in [Stream -> Seq(Nat)] /\ mon \in [Stream -> Seq(Nat)]
      /\ dut[s] \in Seq(Nat) /\ mon[s] \in Seq(Nat)
  BY DEF TypeOK
<1>2. dut[s] # <<>> /\ dut' = [dut EXCEPT ![s] = Tail(dut[s])]
  BY DEF Capture, MayLeave
<1>3. /\ Head(dut[s]) \in Nat /\ Tail(dut[s]) \in Seq(Nat)
      /\ Len(dut[s]) = Len(Tail(dut[s])) + 1
  BY <1>1, <1>2, HeadTailProperties, LenProperties
<1>4. PICK x \in Nat : /\ mon' = [mon EXCEPT ![s] = Append(mon[s], x)]
                       /\ \/ x = Head(dut[s]) /\ faults' = faults
                          \/ x = 0 /\ faults' = faults + 1
  BY <1>3 DEF Capture
<1>5. Append(mon[s], x) \in Seq(Nat) /\ Len(Append(mon[s], x)) = Len(mon[s]) + 1
  BY <1>1, AppendProperties
<1>6. /\ mon' \in [Stream -> Seq(Nat)] /\ mon'[s] = Append(mon[s], x)
      /\ \A r \in Stream : r # s => mon'[r] = mon[r]
  BY <1>1, <1>4, <1>5, Zenon
<1>7. /\ dut' \in [Stream -> Seq(Nat)] /\ dut'[s] = Tail(dut[s])
      /\ \A r \in Stream : r # s => dut'[r] = dut[r]
  BY <1>1, <1>2, <1>3, Zenon
<1>. QED  BY <1>2, <1>3, <1>4, <1>5, <1>6, <1>7

LEMMA LoseTypes ==
    ASSUME TypeOK, NEW s \in Stream, Lose(s)
    PROVE  /\ dut' \in [Stream -> Seq(Nat)]
           /\ \A r \in Stream : r # s => dut'[r] = dut[r]
           /\ dut[s] # <<>> /\ Len(dut[s]) = Len(dut'[s]) + 1
<1>1. dut \in [Stream -> Seq(Nat)] /\ dut[s] \in Seq(Nat)
  BY DEF TypeOK
<1>2. dut[s] # <<>> /\ dut' = [dut EXCEPT ![s] = Tail(dut[s])]
  BY DEF Lose, MayLeave
<1>3. Tail(dut[s]) \in Seq(Nat) /\ Len(dut[s]) = Len(Tail(dut[s])) + 1
  BY <1>1, <1>2, HeadTailProperties, LenProperties
<1>7. /\ dut' \in [Stream -> Seq(Nat)] /\ dut'[s] = Tail(dut[s])
      /\ \A r \in Stream : r # s => dut'[r] = dut[r]
  BY <1>1, <1>2, <1>3, Zenon
<1>. QED  BY <1>2, <1>3, <1>7

LEMMA CompareTypes ==
    ASSUME TypeOK, NEW s \in Stream, Compare(s)
    PROVE  /\ mon' \in [Stream -> Seq(Nat)] /\ ref' \in [Stream -> Seq(Id)]
           /\ compared' \in [Stream -> Nat]
           /\ \A r \in Stream : r # s =>
                mon'[r] = mon[r] /\ ref'[r] = ref[r] /\ compared'[r] = compared[r]
           /\ mon[s] # <<>> /\ ref[s] # <<>> /\ compared'[s] = compared[s] + 1
           /\ Len(mon[s]) = Len(mon'[s]) + 1 /\ Len(ref[s]) = Len(ref'[s]) + 1
           /\ mon'[s] = Tail(mon[s]) /\ Head(ref[s]) # 0
<1>1. /\ mon \in [Stream -> Seq(Nat)] /\ mon[s] \in Seq(Nat)
      /\ ref \in [Stream -> Seq(Id)] /\ ref[s] \in Seq(Id)
      /\ compared \in [Stream -> Nat]
  BY DEF TypeOK
<1>2. /\ mon[s] # <<>> /\ mon' = [mon EXCEPT ![s] = Tail(mon[s])]
      /\ ref[s] # <<>> /\ ref' = [ref EXCEPT ![s] = Tail(ref[s])]
      /\ compared' = [compared EXCEPT ![s] = compared[s] + 1]
  BY DEF Compare
<1>3. /\ Tail(mon[s]) \in Seq(Nat) /\ Len(mon[s]) = Len(Tail(mon[s])) + 1
      /\ Tail(ref[s]) \in Seq(Id) /\ Len(ref[s]) = Len(Tail(ref[s])) + 1
      /\ Head(ref[s]) \in Id
  BY <1>1, <1>2, HeadTailProperties, LenProperties
<1>4. /\ mon' \in [Stream -> Seq(Nat)] /\ mon'[s] = Tail(mon[s])
      /\ \A r \in Stream : r # s => mon'[r] = mon[r]
  BY <1>1, <1>2, <1>3, Zenon
<1>5. /\ ref' \in [Stream -> Seq(Id)] /\ ref'[s] = Tail(ref[s])
      /\ \A r \in Stream : r # s => ref'[r] = ref[r]
  BY <1>1, <1>2, <1>3, Zenon
<1>6. /\ compared' \in [Stream -> Nat] /\ compared'[s] = compared[s] + 1
      /\ \A r \in Stream : r # s => compared'[r] = compared[r]
  BY <1>1, <1>2
<1>. QED  BY <1>2, <1>3, <1>4, <1>5, <1>6 DEF Id

-----------------------------------------------------------------------------
(* Types and counts *)

LEMMA MainTypes == ASSUME TypeOK, MainOrTimeOut PROVE TypeOK'
<1>. USE DEF Stage
<1>1. UNCHANGED <<taskVars, pathVars, mismatch, faults>>
  BY MainKeepsPaths
<1>2. Len(Order) \in Nat /\ DOMAIN Order = 1 .. Len(Order) /\ Loops \in Nat \ {0} /\ Delay \in Nat
  BY OrderAssumption, CountAssumption
<1>3. /\ main \in Stage /\ loop \in 1 .. Loops /\ at \in 1 .. (Len(Order) + 1)
      /\ timer \in Nat /\ edge \in BOOLEAN /\ (main = "body" => loop = 1)
  BY DEF TypeOK
<1>. HIDE DEF Stage
<1>4. {"sequences", "delay", "drivers", "monitors", "processes", "drain", "teardown",
       "passed", "failed"} \subseteq Stage
  BY DEF Stage
<1>5. 1 \in 1 .. (Len(Order) + 1) /\ loop + 1 \in Nat
  BY <1>2, <1>3
<1>6. ASSUME NEW stage, Goto(stage)
      PROVE  main' = stage /\ at' \in 1 .. (Len(Order) + 1) /\ edge' \in BOOLEAN
  BY <1>5, <1>6 DEF Goto
<1>7. /\ main' \in Stage /\ loop' \in 1 .. Loops /\ at' \in 1 .. (Len(Order) + 1)
      /\ timer' \in Nat /\ edge' \in BOOLEAN /\ (main' = "body" => loop' = 1)
  <2>1. CASE EndBody
    BY <1>3, <1>4, <1>6, <2>1 DEF EndBody
  <2>2. CASE TimeOut
    BY <1>3, <1>4, <1>6, <2>2 DEF TimeOut
  <2>3. CASE Conclude
    BY <1>3, <1>4, <1>6, <2>3 DEF Conclude
  <2>4. CASE SequencesDone
    BY <1>2, <1>3, <1>4, <1>6, <2>4 DEF SequencesDone
  <2>5. CASE DelayOver
    BY <1>3, <1>4, <1>6, <2>5 DEF DelayOver
  <2>6. CASE ProcessesDone
    BY <1>3, <1>4, <1>6, <2>6 DEF ProcessesDone
  <2>7. CASE LookAtDriver \/ LookAtMonitor
    <3>1. at < Len(Order) => at + 1 \in 1 .. (Len(Order) + 1)
      BY <1>2, <1>3
    <3>2. \/ main' = main /\ at' = at /\ edge' = FALSE
          \/ at < Len(Order) /\ main' = main /\ at' = at + 1 /\ edge' = FALSE
          \/ Goto("monitors")
          \/ Goto("processes")
      BY <2>7 DEF LookAtDriver, LookAtMonitor
    <3>3. loop' = loop /\ timer' = timer
      BY <2>7 DEF LookAtDriver, LookAtMonitor
    <3>4. Goto("monitors") \/ Goto("processes") =>
            main' \in {"monitors", "processes"} /\ at' \in 1 .. (Len(Order) + 1) /\ edge' \in BOOLEAN
      BY <1>6
    <3>5. main' \in Stage /\ at' \in 1 .. (Len(Order) + 1) /\ edge' \in BOOLEAN
      BY <1>3, <1>4, <3>1, <3>2, <3>4
    <3>6. main' # "body"
      BY <2>7, <3>2, <3>4 DEF LookAtDriver, LookAtMonitor
    <3>. QED  BY <1>3, <3>3, <3>5, <3>6
  <2>8. CASE DrainChannel
    <3>1. at + 1 \in 1 .. (Len(Order) + 1)
      BY <1>2, <1>3, <2>8 DEF DrainChannel
    <3>. QED  BY <1>3, <2>8, <3>1 DEF DrainChannel
  <2>9. CASE EndLoop
    <3>1. \/ Goto("teardown") /\ loop' = loop
          \/ Goto("sequences") /\ loop' = loop + 1 /\ ~ (loop >= Loops)
      BY <2>9 DEF EndLoop, LastLoop
    <3>2. loop' \in 1 .. Loops
      BY <1>2, <1>3, <3>1
    <3>. QED  BY <1>3, <1>4, <1>6, <2>9, <3>1, <3>2 DEF EndLoop
  <2>. QED  BY <2>1, <2>2, <2>3, <2>4, <2>5, <2>6, <2>7, <2>8, <2>9 DEF MainOrTimeOut, MainStep
<1>. QED  BY <1>1, <1>7 DEF TypeOK, taskVars, pathVars

LEMMA TickTypes ==
    ASSUME TypeOK, Tick
    PROVE  TypeOK'
<1>1. left' \in [Stream -> Nat]
  <2>1. \A s \in Stream : (IF left[s] > 0 THEN left[s] - 1 ELSE 0) \in Nat
    BY DEF TypeOK
  <2>2. left' = [s \in Stream |-> IF left[s] > 0 THEN left[s] - 1 ELSE 0]
    BY DEF Tick
  <2>. QED  BY <2>1, <2>2
<1>2. timer' \in Nat /\ edge' \in BOOLEAN
  BY DEF Tick, TypeOK
<1>. QED  BY <1>1, <1>2 DEF Tick, TypeOK, taskVars

LEMMA TaskTypes ==
    ASSUME TypeOK, NEW t \in Task, Schedule(t) \/ Send(t) \/ Finish(t)
    PROVE  TypeOK'
<1>1. CASE Schedule(t) \/ Finish(t)
  <2>1. task' \in [Task -> {"unscheduled", "running", "done"}]
    BY <1>1 DEF Schedule, Finish, TypeOK
  <2>. QED  BY <1>1, <2>1 DEF Schedule, Finish, TypeOK, mainVars, pathVars
<1>2. CASE Send(t)
  <2>1. sent' \in [Task -> Nat]
    BY <1>2 DEF Send, TypeOK
  <2>2. Target[t] \in Stream \cup {NoStream} /\ Enqueue(Target[t])
    BY <1>2, TargetAssumption DEF Send
  <2>3. queue' \in [Stream -> Seq(Id)] /\ accepted' \in [Stream -> Nat]
    BY <2>2, EnqueueTypes
  <2>. QED  BY <1>2, <2>1, <2>3 DEF Send, TypeOK, mainVars
<1>. QED  BY <1>1, <1>2

LEMMA StreamTypes ==
    ASSUME TypeOK, NEW s \in Stream, StreamStep(s) \/ Lose(s)
    PROVE  TypeOK'
<1>1. CASE BeginDrive(s) \/ EndDrive(s)
  <2>1. TakeNext(s) /\ UNCHANGED <<mainVars, taskVars, mon, compared, accepted, mismatch, faults>>
    BY <1>1 DEF BeginDrive, EndDrive
  <2>. QED  BY <1>1, <2>1, TakeNextTypes, DriveTypes DEF TypeOK, mainVars, taskVars
<1>2. CASE Capture(s)
  <2>1. Reaction[s] \in Stream \cup {NoStream} /\ Enqueue(Reaction[s])
    BY <1>2, ReactionAssumption DEF Capture
  <2>2. queue' \in [Stream -> Seq(Id)] /\ accepted' \in [Stream -> Nat]
    BY <2>1, EnqueueTypes
  <2>3. dut' \in [Stream -> Seq(Nat)] /\ mon' \in [Stream -> Seq(Nat)] /\ faults' \in Nat
    <3>1. faults' = faults \/ faults' = faults + 1
      BY <1>2 DEF Capture
    <3>2. faults' \in Nat
      BY <3>1 DEF TypeOK
    <3>. QED  BY <1>2, <3>2, CaptureTypes
  <2>. QED  BY <1>2, <2>2, <2>3 DEF Capture, TypeOK, mainVars, taskVars
<1>3. CASE Lose(s)
  <2>1. dut' \in [Stream -> Seq(Nat)] /\ faults' \in Nat
    <3>1. faults' = faults + 1
      BY <1>3 DEF Lose
    <3>2. faults' \in Nat
      BY <3>1 DEF TypeOK
    <3>3. dut' \in [Stream -> Seq(Nat)]
      BY <1>3, LoseTypes
    <3>. QED  BY <3>2, <3>3
  <2>. QED  BY <1>3, <2>1 DEF Lose, TypeOK, mainVars, taskVars
<1>4. CASE Compare(s)
  <2>1. mismatch' \in BOOLEAN
    BY <1>4 DEF Compare, TypeOK
  <2>. QED  BY <1>4, <2>1, CompareTypes DEF Compare, TypeOK, mainVars, taskVars
<1>. QED  BY <1>1, <1>2, <1>3, <1>4 DEF StreamStep

LEMMA NextTypes == ASSUME TypeOK, [Next]_vars PROVE TypeOK'
<1>1. CASE UNCHANGED vars
  BY <1>1 DEF TypeOK, vars, mainVars, taskVars, pathVars
<1>. QED  BY <1>1, MainTypes, TickTypes, TaskTypes, StreamTypes DEF Next, MainOrTimeOut

LEMMA LengthsAreNat ==
    ASSUME TypeOK, NEW s \in Stream
    PROVE  /\ Len(queue[s]) \in Nat /\ Len(dut[s]) \in Nat
           /\ Len(mon[s]) \in Nat /\ Len(ref[s]) \in Nat
           /\ compared[s] \in Nat /\ accepted[s] \in Nat /\ InHand(s) \in Nat
BY LenProperties DEF TypeOK, InHand

\* A step keeps the counts, and once a transaction is missing it stays so.
LEMMA CountsStep ==
    ASSUME TypeOK, Counted, [Next]_vars
    PROVE  /\ Counted'
           /\ \A s \in Stream : Tracked(s) < accepted[s] => (Tracked(s) < accepted[s])'
           /\ \A s \in Stream : Lose(s) => (Tracked(s) < accepted[s])'
<1>. SUFFICES ASSUME NEW r \in Stream
              PROVE /\ compared'[r] + Len(ref'[r]) + InHand(r)' + Len(queue'[r]) = accepted'[r]
                    /\ compared'[r] + Len(mon'[r]) + Len(dut'[r]) + Len(queue'[r]) <= accepted'[r]
                    /\ compared[r] + Len(mon[r]) + Len(dut[r]) + Len(queue[r]) < accepted[r] =>
                         compared'[r] + Len(mon'[r]) + Len(dut'[r]) + Len(queue'[r]) < accepted'[r]
                    /\ Lose(r) =>
                         compared'[r] + Len(mon'[r]) + Len(dut'[r]) + Len(queue'[r]) < accepted'[r]
  BY DEF Counted, Tracked
<1>. DEFINE C == compared[r]  F == Len(ref[r])  H == InHand(r)  Q == Len(queue[r])
            A == accepted[r]  M == Len(mon[r])  D == Len(dut[r])
            c == compared'[r]  f == Len(ref'[r])  h == InHand(r)'  q == Len(queue'[r])
            a == accepted'[r]  m == Len(mon'[r])  d == Len(dut'[r])
            Goal == /\ c + f + h + q = a /\ c + m + d + q <= a
                    /\ C + M + D + Q < A => c + m + d + q < a
<1>0. TypeOK'
  BY NextTypes
<1>1. C \in Nat /\ F \in Nat /\ H \in Nat /\ Q \in Nat /\ A \in Nat /\ M \in Nat /\ D \in Nat
  BY LengthsAreNat
<1>2. c \in Nat /\ f \in Nat /\ h \in Nat /\ q \in Nat /\ a \in Nat /\ m \in Nat /\ d \in Nat
  BY <1>0, LenProperties DEF TypeOK, InHand
<1>3. C + F + H + Q = A /\ C + M + D + Q <= A
  BY DEF Counted, Tracked
<1>. HIDE DEF C, F, H, Q, A, M, D, c, f, h, q, a, m, d
<1>4. ASSUME MainOrTimeOut \/ Tick \/ UNCHANGED vars  PROVE Goal
  <2>1. c = C /\ f = F /\ h = H /\ q = Q /\ a = A /\ m = M /\ d = D
    BY <1>4, MainKeepsPaths
       DEF Tick, InHand, vars, pathVars, C, F, H, Q, A, M, D, c, f, h, q, a, m, d
  <2>2. Goal
    BY <1>3, <2>1
  <2>. QED  BY <2>2
<1>5. ASSUME NEW t \in Task, Schedule(t) \/ Finish(t)  PROVE Goal
  <2>1. c = C /\ f = F /\ h = H /\ q = Q /\ a = A /\ m = M /\ d = D
    BY <1>5 DEF Schedule, Finish, InHand, pathVars,
                C, F, H, Q, A, M, D, c, f, h, q, a, m, d
  <2>. QED  BY <1>3, <2>1
<1>6. ASSUME NEW t \in Task, Send(t)  PROVE Goal
  <2>1. Target[t] \in Stream \cup {NoStream} /\ Enqueue(Target[t])
    BY <1>6, TargetAssumption DEF Send
  <2>2. (q = Q /\ a = A) \/ (q = Q + 1 /\ a = A + 1)
    BY <2>1, EnqueueTypes DEF Q, A, q, a
  <2>3. c = C /\ f = F /\ h = H /\ m = M /\ d = D
    BY <1>6 DEF Send, InHand, C, F, H, M, D, c, f, h, m, d
  <2>. QED  BY <1>1, <1>2, <1>3, <2>2, <2>3
<1>7. ASSUME NEW s \in Stream, StreamStep(s) \/ Lose(s)  PROVE Goal
  <2>1. CASE BeginDrive(s) \/ EndDrive(s)
    <3>1. TakeNext(s) /\ UNCHANGED <<mon, compared, accepted>>
      BY <2>1 DEF BeginDrive, EndDrive
    <3>2. c = C /\ a = A /\ m = M
      BY <3>1 DEF C, A, M, c, a, m
    <3>3. CASE r # s
      <4>1. f = F /\ h = H /\ q = Q /\ d = D
        BY <2>1, <3>1, <3>3, TakeNextTypes, DriveTypes DEF InHand, F, H, Q, D, f, h, q, d
      <4>. QED  BY <1>3, <3>2, <4>1
    <3>4. CASE r = s
      <4>1. f + h + q = F + H + Q
        BY <2>1, <3>4, DriveTypes DEF F, H, Q, f, h, q
      <4>2. (q = Q /\ d = D) \/ (Q = q + 1 /\ d = D + 1)
        BY <3>1, <3>4, TakeNextTypes DEF Q, D, q, d
      <4>. QED  BY <1>1, <1>2, <1>3, <3>2, <4>1, <4>2
    <3>. QED  BY <3>3, <3>4
  <2>2. CASE Capture(s)
    <3>1. Reaction[s] \in Stream \cup {NoStream} /\ Enqueue(Reaction[s])
      BY <2>2, ReactionAssumption DEF Capture
    <3>2. (q = Q /\ a = A) \/ (q = Q + 1 /\ a = A + 1)
      BY <3>1, EnqueueTypes DEF Q, A, q, a
    <3>3. (m = M /\ d = D) \/ (m = M + 1 /\ D = d + 1)
      BY <2>2, CaptureTypes DEF M, D, m, d
    <3>4. c = C /\ f = F /\ h = H
      BY <2>2 DEF Capture, InHand, C, F, H, c, f, h
    <3>. QED  BY <1>1, <1>2, <1>3, <3>2, <3>3, <3>4
  <2>3. CASE Lose(s)
    <3>1. d = D \/ D = d + 1
      BY <2>3, LoseTypes DEF D, d
    <3>2. c = C /\ f = F /\ h = H /\ q = Q /\ a = A /\ m = M
      BY <2>3 DEF Lose, InHand, C, F, H, Q, A, M, c, f, h, q, a, m
    <3>. QED  BY <1>1, <1>2, <1>3, <3>1, <3>2
  <2>4. CASE Compare(s)
    <3>1. \/ c = C /\ m = M /\ f = F
          \/ c = C + 1 /\ M = m + 1 /\ F = f + 1
      BY <2>4, CompareTypes DEF C, M, F, c, m, f
    <3>2. h = H /\ d = D /\ q = Q /\ a = A
      BY <2>4 DEF Compare, InHand, H, D, Q, A, h, d, q, a
    <3>. QED  BY <1>1, <1>2, <1>3, <3>1, <3>2
  <2>. QED  BY <1>7, <2>1, <2>2, <2>3, <2>4 DEF StreamStep
<1>8. Goal
  <2>1. CASE MainOrTimeOut \/ Tick \/ UNCHANGED vars
    BY <1>4, <2>1
  <2>. QED  BY <2>1, <1>5, <1>6, <1>7 DEF Next, MainOrTimeOut
<1>9. ASSUME Lose(r)  PROVE c + m + d + q < a
  <2>1. D = d + 1
    BY <1>9, LoseTypes DEF D, d
  <2>2. c = C /\ q = Q /\ a = A /\ m = M
    BY <1>9 DEF Lose, C, Q, A, M, c, q, a, m
  <2>. QED  BY <1>1, <1>2, <1>3, <2>1, <2>2
<1>. QED  BY <1>8, <1>9 DEF c, f, h, q, a, m, d, C, Q, A, M, D

-----------------------------------------------------------------------------
(* Tasks end, and streams become quiet *)

LEMMA NextTasks == ASSUME TypeOK, TasksEnded, [Next]_vars PROVE TasksEnded'
<1>. USE DEF TasksEnded, SequencesOver, ProcessesOver
<1>1. task \in [Task -> {"unscheduled", "running", "done"}] /\ (main = "body" => loop = 1)
  BY DEF TypeOK
<1>2. CASE MainOrTimeOut
  <2>1. task' = task
    BY <1>2, MainKeepsPaths DEF taskVars
  <2>2. CASE EndBody \/ TimeOut \/ Conclude
    BY <1>1, <2>1, <2>2 DEF EndBody, TimeOut, Conclude, Goto
  <2>3. CASE SequencesDone
    <3>1. \A t \in Blocking : task[t] # "running"
      BY <2>3 DEF SequencesDone, Listed
    <3>. QED  BY <2>1, <2>3, <3>1 DEF SequencesDone, Goto
  <2>4. CASE DelayOver \/ LookAtDriver \/ LookAtMonitor
    BY <2>1, <2>4 DEF DelayOver, LookAtDriver, LookAtMonitor, Goto
  <2>5. CASE ProcessesDone
    <3>1. loop > 1 \/ loop = 1 \/ ~ (loop > 1)
      OBVIOUS
    <3>2. \A t \in Process : task[t] = "done"
      <4>1. loop \in Nat /\ loop >= 1
        BY CountAssumption DEF TypeOK
      <4>. QED  BY <2>5, <4>1 DEF ProcessesDone
    <3>. QED  BY <2>1, <2>5, <3>2 DEF ProcessesDone, Goto
  <2>6. CASE DrainChannel
    BY <2>1, <2>6 DEF DrainChannel
  <2>7. CASE EndLoop
    BY <2>1, <2>7 DEF EndLoop, Goto
  <2>. QED  BY <1>2, <2>2, <2>3, <2>4, <2>5, <2>6, <2>7 DEF MainOrTimeOut, MainStep
<1>3. CASE Tick
  BY <1>3 DEF Tick, taskVars
<1>4. ASSUME NEW t \in Task, Schedule(t)  PROVE TasksEnded'
  BY <1>1, <1>4 DEF Schedule, mainVars
<1>5. ASSUME NEW t \in Task, Send(t) \/ Finish(t)  PROVE TasksEnded'
  <2>1. UNCHANGED mainVars /\ (task' = task \/ task' = [task EXCEPT ![t] = "done"])
    BY <1>5 DEF Send, Finish
  <2>2. \A u \in Task : task'[u] = task[u] \/ task'[u] = "done"
    BY <1>1, <2>1
  <2>. QED  BY <2>1, <2>2 DEF mainVars, Task
<1>6. ASSUME NEW s \in Stream, StreamStep(s) \/ Lose(s)  PROVE TasksEnded'
  BY <1>6 DEF StreamStep, BeginDrive, EndDrive, Capture, Compare, Lose, mainVars, taskVars
<1>7. CASE UNCHANGED vars
  BY <1>7 DEF vars, mainVars, taskVars
<1>. QED  BY <1>2, <1>3, <1>4, <1>5, <1>6, <1>7 DEF Next, MainOrTimeOut

\* What EnoughLoops says of the loops after which the streams are calm.
EnoughFor(calm) ==
    /\ calm \in [Stream -> 0 .. Loops] /\ Calms(calm)
    /\ \A s \in Stream : LoopsFor(s, calm) <= Loops
    /\ \A s \in Stream : ModelOn[s] = "POST_DRIVE" => MaxDrive <= Delay

LEMMA LoopTypes ==
    ASSUME NEW calm, TypeOK, EnoughFor(calm), NEW s \in Stream
    PROVE  /\ LoopsDone \in Nat /\ calm[s] \in Nat /\ loop \in Nat /\ loop >= 1
           /\ Loops \in Nat /\ loop <= Loops
           /\ LoopsFor(s, calm) \in Nat /\ LoopsFor(s, calm) <= Loops
           /\ ModelOn[s] = "PRE_DRIVE" \/ ModelOn[s] = "POST_DRIVE"
           /\ ModelOn[s] = "PRE_DRIVE" => LoopsFor(s, calm) = calm[s] + 1
           /\ ModelOn[s] = "POST_DRIVE" => LoopsFor(s, calm) = calm[s] + 2
<1>1. Loops \in Nat /\ loop \in 1 .. Loops /\ calm[s] \in 0 .. Loops
  BY CountAssumption DEF TypeOK, EnoughFor
<1>2. ModelOn[s] = "PRE_DRIVE" \/ ModelOn[s] = "POST_DRIVE"
  BY ModelAssumption
<1>. QED  BY <1>1, <1>2 DEF LoopsDone, LoopsFor, EnoughFor

\* No task and no handler enqueues in a stream that is quiet.
LEMMA QuietMeans ==
    ASSUME NEW calm, TypeOK, TasksEnded, StreamsComplete(calm), EnoughFor(calm),
           NEW s \in Stream, Quiet(s, calm)
    PROVE  /\ \A t \in Task : Send(t) => Target[t] # s
           /\ \A r \in Stream : Capture(r) => Reaction[r] # s
<1>1. ASSUME NEW t \in Task, Send(t), Target[t] = s  PROVE FALSE
  <2>1. task[t] = "running" /\ s # NoStream
    BY <1>1 DEF Send
  <2>2. t \notin Background
    BY <1>1, <2>1 DEF EnoughFor, Calms
  <2>3. t \notin Blocking
    BY <2>1 DEF TasksEnded, Quiet
  <2>4. t \in Process
    BY <2>2, <2>3 DEF Task
  <2>5. calm[s] >= 1
    BY <1>1, <2>4 DEF EnoughFor, Calms
  <2>6. LoopsDone >= 1
    BY <2>5, LoopTypes DEF Quiet
  <2>7. ProcessesOver
    BY <2>6, LoopTypes DEF LoopsDone, Quiet, SequencesOver, ProcessesOver
  <2>. QED  BY <2>1, <2>4, <2>7 DEF TasksEnded
<1>2. ASSUME NEW r \in Stream, Capture(r), Reaction[r] = s  PROVE FALSE
  <2>1. calm[s] >= LoopsFor(r, calm)
    BY <1>2 DEF EnoughFor, Calms
  <2>2. LoopsDone >= LoopsFor(r, calm)
    <3>1. LoopsDone >= calm[s] /\ LoopsDone \in Nat /\ calm[s] \in Nat
      BY LoopTypes DEF Quiet
    <3>2. LoopsFor(r, calm) \in Nat
      BY LoopTypes
    <3>. QED  BY <2>1, <3>1, <3>2
  <2>3. dut[r] = <<>>
    BY <2>2 DEF StreamsComplete, WasDrained, Complete, Quiet, SequencesOver
  <2>. QED  BY <1>2, <2>3 DEF Capture, MayLeave
<1>. QED  BY <1>1, <1>2

\* The steps of the tasks, the drivers, the design and the channels.
PathStep == \/ \E t \in Task : Schedule(t) \/ Send(t) \/ Finish(t)
            \/ \E s \in Stream : StreamStep(s) \/ Lose(s)

LEMMA PathKeepsMain == ASSUME PathStep PROVE UNCHANGED mainVars
BY DEF PathStep, StreamStep, BeginDrive, EndDrive, Capture, Compare, Lose,
       Schedule, Send, Finish

\* A drive is never longer than MaxDrive.
LEMMA LeftBound ==
    ASSUME TypeOK, NEW s \in Stream, left[s] <= MaxDrive, PathStep \/ Tick
    PROVE  left'[s] <= MaxDrive
<1>1. left[s] \in Nat /\ MaxDrive \in Nat
  BY CountAssumption DEF TypeOK
<1>2. CASE Tick
  BY <1>1, <1>2 DEF Tick
<1>3. ASSUME NEW r \in Stream, BeginDrive(r) \/ EndDrive(r)  PROVE left'[s] <= MaxDrive
  <2>1. TakeNext(r)
    BY <1>3 DEF BeginDrive, EndDrive
  <2>2. left'[s] = left[s] \/ left'[s] \in 1 .. MaxDrive
    BY <2>1, TakeNextTypes
  <2>. QED  BY <1>1, <2>2
<1>4. ASSUME NEW r \in Stream, Capture(r) \/ Compare(r) \/ Lose(r)  PROVE left'[s] <= MaxDrive
  BY <1>4 DEF Capture, Compare, Lose
<1>5. ASSUME NEW t \in Task, Schedule(t) \/ Send(t) \/ Finish(t)  PROVE left'[s] <= MaxDrive
  BY <1>5 DEF Schedule, Send, Finish, pathVars
<1>. QED  BY <1>2, <1>3, <1>4, <1>5 DEF PathStep, StreamStep

\* What can still happen in a quiet stream between two edges.
LEMMA QuietStep ==
    ASSUME NEW calm, TypeOK, Counted, TasksEnded, StreamsComplete(calm), EnoughFor(calm),
           NEW s \in Stream, Quiet(s, calm), PathStep
    PROVE  /\ \/ queue'[s] = queue[s] /\ hand'[s] = hand[s] /\ left'[s] = left[s]
              \/ /\ queue[s] = <<>> /\ queue'[s] = <<>>
                 /\ hand'[s] = 0 /\ left'[s] = left[s]
              \/ queue[s] # <<>> /\ hand'[s] # 0
           /\ Complete(s) => Complete(s)'
<1>. DEFINE Goal == /\ \/ queue'[s] = queue[s] /\ hand'[s] = hand[s] /\ left'[s] = left[s]
                       \/ /\ queue[s] = <<>> /\ queue'[s] = <<>>
                          /\ hand'[s] = 0 /\ left'[s] = left[s]
                       \/ queue[s] # <<>> /\ hand'[s] # 0
                    /\ Complete(s) => Complete(s)'
<1>1. ASSUME NEW t \in Task, Schedule(t) \/ Send(t) \/ Finish(t)  PROVE Goal
  <2>1. CASE Send(t)
    <3>1. Target[t] # s /\ Target[t] \in Stream \cup {NoStream} /\ Enqueue(Target[t])
      BY <2>1, QuietMeans, TargetAssumption DEF Send
    <3>2. queue'[s] = queue[s] /\ accepted'[s] = accepted[s]
      BY <3>1, EnqueueTypes
    <3>. QED  BY <2>1, <3>2 DEF Send, Complete
  <2>2. CASE Schedule(t) \/ Finish(t)
    BY <2>2 DEF Schedule, Finish, Complete, pathVars
  <2>. QED  BY <1>1, <2>1, <2>2
<1>2. ASSUME NEW r \in Stream, BeginDrive(r) \/ EndDrive(r)  PROVE Goal
  <2>1. TakeNext(r) /\ UNCHANGED <<mon, compared, accepted>>
    BY <1>2 DEF BeginDrive, EndDrive
  <2>2. CASE r # s
    BY <1>2, <2>1, <2>2, TakeNextTypes, DriveTypes DEF Complete
  <2>3. CASE r = s
    <3>1. ASSUME Complete(s)  PROVE Complete(s)'
      <4>1. InHand(s) = 0
        <5>1. /\ compared[s] + Len(ref[s]) + InHand(s) + Len(queue[s]) = accepted[s]
              /\ InHand(s) \in Nat /\ compared[s] \in Nat
          BY LengthsAreNat DEF Counted
        <5>2. Len(ref[s]) = 0 /\ Len(queue[s]) = 0 /\ compared[s] = accepted[s]
          BY <3>1, EmptySeq DEF Complete
        <5>. QED  BY <5>1, <5>2
      <4>2. ref'[s] = ref[s] /\ queue'[s] = queue[s] /\ dut'[s] = dut[s]
        BY <1>2, <2>1, <2>3, <3>1, <4>1, DriveTypes, TakeNextTypes DEF Complete
      <4>. QED  BY <2>1, <3>1, <4>2 DEF Complete
    <3>2. \/ /\ queue[s] = <<>> /\ queue'[s] = <<>>
             /\ hand'[s] = 0 /\ left'[s] = left[s]
          \/ queue[s] # <<>> /\ hand'[s] # 0
      BY <2>1, <2>3, TakeNextTypes
    <3>. QED  BY <3>1, <3>2
  <2>. QED  BY <2>2, <2>3
<1>3. ASSUME NEW r \in Stream, Capture(r)  PROVE Goal
  <2>1. /\ Reaction[r] # s /\ Reaction[r] \in Stream \cup {NoStream} /\ Enqueue(Reaction[r])
    BY <1>3, QuietMeans, ReactionAssumption DEF Capture
  <2>2. queue'[s] = queue[s] /\ accepted'[s] = accepted[s]
    BY <2>1, EnqueueTypes
  <2>3. Complete(s) => r # s
    BY <1>3 DEF Complete, Capture, MayLeave
  <2>4. r # s => dut'[s] = dut[s] /\ mon'[s] = mon[s]
    BY <1>3, CaptureTypes
  <2>. QED  BY <1>3, <2>2, <2>3, <2>4 DEF Capture, Complete
<1>4. ASSUME NEW r \in Stream, Lose(r)  PROVE Goal
  <2>1. Complete(s) => r # s
    BY <1>4 DEF Complete, Lose, MayLeave
  <2>2. r # s => dut'[s] = dut[s]
    BY <1>4, LoseTypes
  <2>. QED  BY <1>4, <2>1, <2>2 DEF Lose, Complete
<1>5. ASSUME NEW r \in Stream, Compare(r)  PROVE Goal
  <2>1. Complete(s) => r # s
    BY <1>5 DEF Complete, Compare
  <2>2. r # s => mon'[s] = mon[s] /\ ref'[s] = ref[s] /\ compared'[s] = compared[s]
    BY <1>5, CompareTypes
  <2>. QED  BY <1>5, <2>1, <2>2 DEF Compare, Complete
<1>. QED  BY <1>1, <1>2, <1>3, <1>4, <1>5 DEF PathStep, StreamStep

-----------------------------------------------------------------------------
(* What close_down finds *)

LEMMA OrderCovers ==
    /\ Len(Order) \in Nat
    /\ \A s \in Stream : \E i \in 1 .. Len(Order) : Order[i] = s
<1>1. Len(Order) \in Nat /\ DOMAIN Order = 1 .. Len(Order)
  BY OrderAssumption
<1>. QED  BY <1>1, OrderAssumption DEF Range

\* The part of CloseInv that says where each stream is.
StageInv(calm) ==
    SettledAtEdge(calm) /\ QueueEmptied(calm) /\ DriveEnds(calm) /\ StreamsComplete(calm)

LEMMA PathStage ==
    ASSUME NEW calm, TypeOK, Counted, TasksEnded, StageInv(calm), EnoughFor(calm), PathStep
    PROVE  StageInv(calm)'
<1>. USE DEF StageInv
<1>1. UNCHANGED <<main, loop, at, timer, edge>>
  BY PathKeepsMain DEF mainVars
<1>2. SettledAtEdge(calm)'
  <2>. SUFFICES ASSUME NEW s \in Stream, edge, Quiet(s, calm), hand'[s] = 0
                PROVE  queue'[s] = <<>>
    BY <1>1 DEF SettledAtEdge, Quiet, SequencesOver, LoopsDone
  <2>. QED  BY QuietStep DEF SettledAtEdge
<1>3. ASSUME NEW s \in Stream, Looked(s, calm)
      PROVE  /\ Quiet(s, calm) /\ queue[s] = <<>> /\ queue'[s] = <<>>
             /\ left'[s] = left[s] /\ (hand'[s] = hand[s] \/ hand'[s] = 0)
  <2>1. Quiet(s, calm)
    BY <1>3, LoopTypes DEF Looked, Quiet, SequencesOver, LoopsDone
  <2>2. queue[s] = <<>>
    BY <1>3 DEF QueueEmptied
  <2>. QED  BY <2>1, <2>2, QuietStep
<1>4. QueueEmptied(calm)'
  BY <1>1, <1>3 DEF QueueEmptied, Looked, LoopsDone, Visited
<1>5. DriveEnds(calm)'
  <2>. SUFFICES ASSUME NEW s \in Stream
         PROVE /\ left'[s] <= MaxDrive
               /\ ModelOn[s] = "POST_DRIVE" /\ LoopsDone = calm[s] + 1 /\ hand'[s] # 0 =>
                    /\ main = "delay" => left'[s] <= timer
                    /\ main = "drivers" /\ at = 1 /\ ~edge => left'[s] = 0
               /\ ModelOn[s] = "POST_DRIVE" /\ Rested(s, calm) => hand'[s] = 0
    BY <1>1 DEF DriveEnds, Rested, LoopsDone
  <2>1. left'[s] <= MaxDrive
    BY LeftBound DEF DriveEnds
  <2>2. LoopsDone = calm[s] + 1 /\ main # "failed" => Looked(s, calm)
    BY LoopTypes DEF Looked
  <2>3. Rested(s, calm) => Looked(s, calm)
    BY LoopTypes DEF Looked, Rested
  <2>. QED  BY <1>3, <2>1, <2>2, <2>3 DEF DriveEnds
<1>6. StreamsComplete(calm)'
  <2>. SUFFICES ASSUME NEW s \in Stream, WasDrained(s, calm)
                PROVE  Complete(s)'
    BY <1>1 DEF StreamsComplete, WasDrained, LoopsDone, Visited
  <2>1. Looked(s, calm)
    BY LoopTypes DEF WasDrained, Looked
  <2>. QED  BY <1>3, <2>1, QuietStep DEF StreamsComplete
<1>. QED  BY <1>2, <1>4, <1>5, <1>6

LEMMA TickStage ==
    ASSUME NEW calm, TypeOK, StageInv(calm), EnoughFor(calm), Tick
    PROVE  StageInv(calm)'
<1>. USE DEF StageInv
<1>1. /\ UNCHANGED <<main, loop, at, queue, hand, dut, mon, ref, compared, accepted>>
      /\ edge' = (main \in {"drivers", "monitors"}) /\ ~edge
      /\ main = "delay" => timer > 0
      /\ timer' = IF timer > 0 THEN timer - 1 ELSE 0
  BY DEF Tick, Settled
<1>2. ASSUME NEW s \in Stream
      PROVE  /\ hand[s] = 0 => queue[s] = <<>>
             /\ hand[s] # 0 => left[s] > 0
             /\ left[s] > 0 => left'[s] = left[s] - 1
             /\ left[s] \in Nat /\ timer \in Nat
  BY DEF Tick, Settled, TypeOK
<1>3. SettledAtEdge(calm)'
  BY <1>1, <1>2 DEF SettledAtEdge
<1>4. QueueEmptied(calm)'
  BY <1>1 DEF QueueEmptied, Looked, LoopsDone, Visited
<1>5. DriveEnds(calm)'
  <2>1. LoopsDone' = LoopsDone
    BY <1>1 DEF LoopsDone
  <2>. SUFFICES ASSUME NEW s \in Stream
         PROVE /\ left'[s] <= MaxDrive
               /\ ModelOn[s] = "POST_DRIVE" /\ LoopsDone = calm[s] + 1 /\ hand[s] # 0 =>
                    /\ main = "delay" => left'[s] <= timer'
                    /\ main = "drivers" /\ at = 1 /\ ~edge' => left'[s] = 0
               /\ ModelOn[s] = "POST_DRIVE" /\ Rested(s, calm)' => hand[s] = 0
    BY <1>1, <2>1 DEF DriveEnds
  <2>2. left'[s] <= MaxDrive
    BY LeftBound DEF DriveEnds
  <2>3. ASSUME ModelOn[s] = "POST_DRIVE", LoopsDone = calm[s] + 1, hand[s] # 0, main = "delay"
        PROVE  left'[s] <= timer'
    <3>1. left[s] <= timer
      BY <2>3 DEF DriveEnds
    <3>. QED  BY <1>1, <1>2, <2>3, <3>1
  <2>4. main = "drivers" => edge'
    BY <1>1
  <2>5. ASSUME ModelOn[s] = "POST_DRIVE", Rested(s, calm)'
        PROVE  hand[s] = 0
    <3>1. \/ Rested(s, calm)
          \/ main = "drivers" /\ LoopsDone = calm[s] + 1 /\ at = 1 /\ ~edge
      <4>1. at \in Nat /\ at >= 1
        BY OrderCovers DEF TypeOK
      <4>. QED  BY <1>1, <2>1, <2>5, <4>1 DEF Rested
    <3>2. CASE Rested(s, calm)
      BY <2>5, <3>2 DEF DriveEnds
    <3>3. CASE main = "drivers" /\ LoopsDone = calm[s] + 1 /\ at = 1 /\ ~edge
      BY <1>2, <2>5, <3>3 DEF DriveEnds
    <3>. QED  BY <3>1, <3>2, <3>3
  <2>. QED  BY <2>2, <2>3, <2>4, <2>5
<1>6. StreamsComplete(calm)'
  BY <1>1 DEF StreamsComplete, WasDrained, Complete, LoopsDone, Visited
<1>. QED  BY <1>3, <1>4, <1>5, <1>6

\* A loop that is over counts as done, the last as well.
LEMMA EndLoopCounts ==
    ASSUME TypeOK, EndLoop
    PROVE  /\ main = "drain" /\ main' \in {"sequences", "teardown"}
           /\ LoopsDone' = LoopsDone + 1 /\ LoopsDone \in Nat
           /\ at' = 1 /\ edge' = FALSE /\ timer' = timer
<1>1. Loops \in Nat /\ loop \in 1 .. Loops
  BY CountAssumption DEF TypeOK
<1>. QED  BY <1>1 DEF EndLoop, LastLoop, Goto, LoopsDone

\* A channel that is drained when nothing waits to be driven is complete.
LEMMA CountsComplete ==
    ASSUME TypeOK, Counted, NEW s \in Stream, Drained(s), queue[s] = <<>>, InHand(s) = 0
    PROVE  Complete(s)
<1>1. /\ Len(mon[s]) = 0 /\ Len(ref[s]) = 0 /\ Len(queue[s]) = 0
      /\ mon[s] = <<>> /\ ref[s] = <<>>
  BY EmptySeq DEF Drained
<1>2. compared[s] \in Nat /\ Len(dut[s]) \in Nat /\ accepted[s] \in Nat
  BY LengthsAreNat
<1>3. compared[s] + 0 + 0 + 0 = accepted[s]
  BY <1>1 DEF Counted
<1>4. compared[s] + 0 + Len(dut[s]) + 0 <= accepted[s]
  BY <1>1 DEF Counted, Tracked
<1>5. compared[s] = accepted[s] /\ Len(dut[s]) = 0
  BY <1>2, <1>3, <1>4
<1>6. dut[s] = <<>>
  BY <1>5, EmptySeq DEF TypeOK
<1>. QED  BY <1>1, <1>5, <1>6 DEF Complete

LEMMA MainStage ==
    ASSUME NEW calm, TypeOK, Counted, StageInv(calm), EnoughFor(calm), MainOrTimeOut
    PROVE  StageInv(calm)'
<1>. USE DEF StageInv
<1>0. UNCHANGED <<queue, hand, left, dut, mon, ref, compared, accepted>>
  BY MainKeepsPaths DEF pathVars
<1>1. at \in 1 .. (Len(Order) + 1) /\ Len(Order) \in Nat
  BY OrderCovers DEF TypeOK
<1>2. SettledAtEdge(calm)'
  <2>1. edge' = FALSE \/ UNCHANGED <<main, loop, edge>>
    BY DEF MainOrTimeOut, MainStep, TimeOut, EndBody, SequencesDone, DelayOver, LookAtDriver,
           LookAtMonitor, ProcessesDone, DrainChannel, EndLoop, Conclude, Goto
  <2>. QED  BY <1>0, <2>1 DEF SettledAtEdge, Quiet, SequencesOver, LoopsDone
\* The loop goes on, without a look at a component or a channel.
<1>3. ASSUME LoopsDone' = LoopsDone, main # "failed",
             \/ main' \in {"failed", "sequences", "delay", "teardown", "passed"}
             \/ main' = "drivers" /\ main = "delay" /\ at' = 1 /\ edge' = FALSE
             \/ main' = "processes" /\ main = "monitors"
             \/ main' = "drain" /\ main = "processes" /\ at' = 1
      PROVE  QueueEmptied(calm)' /\ StreamsComplete(calm)'
  <2>. USE <1>0, <1>1, <1>3
  <2>1. ASSUME NEW s \in Stream, Looked(s, calm)'  PROVE Looked(s, calm)
    BY <2>1, LoopTypes DEF Looked, Visited
  <2>2. ASSUME NEW s \in Stream, WasDrained(s, calm)'  PROVE WasDrained(s, calm)
    BY <2>2, LoopTypes DEF WasDrained, Visited
  <2>. QED  BY <2>1, <2>2 DEF QueueEmptied, StreamsComplete, Complete
<1>4. CASE main' = "failed"
  <2>1. QueueEmptied(calm)' /\ StreamsComplete(calm)'
    BY <1>4 DEF QueueEmptied, Looked, StreamsComplete, WasDrained
  <2>2. DriveEnds(calm)'
    BY <1>0, <1>4 DEF DriveEnds, Rested
  <2>. QED  BY <1>2, <2>1, <2>2
<1>5. CASE EndBody \/ (Conclude /\ main' = "passed")
  <2>1. /\ LoopsDone' = LoopsDone /\ main # "failed" /\ main' \in {"sequences", "passed"}
    BY <1>5 DEF EndBody, Conclude, Goto, LoopsDone
  <2>2. DriveEnds(calm)'
    BY <1>0, <2>1, LoopTypes DEF DriveEnds, Rested
  <2>. QED  BY <1>2, <1>3, <2>1, <2>2
<1>6. CASE SequencesDone
  <2>1. /\ LoopsDone' = LoopsDone /\ main = "sequences" /\ main' = "delay" /\ timer' = Delay
    BY <1>6 DEF SequencesDone, Goto, LoopsDone
  <2>2. DriveEnds(calm)'
    <3>. SUFFICES ASSUME NEW s \in Stream
         PROVE /\ left[s] <= MaxDrive
               /\ ModelOn[s] = "POST_DRIVE" => left[s] <= Delay
               /\ ModelOn[s] = "POST_DRIVE" /\ Rested(s, calm)' => hand[s] = 0
      BY <1>0, <2>1 DEF DriveEnds
    <3>1. left[s] <= MaxDrive /\ left[s] \in Nat /\ MaxDrive \in Nat /\ Delay \in Nat
      BY CountAssumption DEF DriveEnds, TypeOK
    <3>2. ModelOn[s] = "POST_DRIVE" => MaxDrive <= Delay
      BY DEF EnoughFor
    <3>3. Rested(s, calm)' => Rested(s, calm)
      BY <2>1, LoopTypes DEF Rested
    <3>. QED  BY <3>1, <3>2, <3>3 DEF DriveEnds
  <2>. QED  BY <1>2, <1>3, <2>1, <2>2
<1>7. CASE DelayOver
  <2>1. /\ LoopsDone' = LoopsDone /\ main = "delay" /\ main' = "drivers" /\ timer = 0
        /\ at' = 1 /\ edge' = FALSE
    BY <1>7 DEF DelayOver, Goto, LoopsDone
  <2>2. DriveEnds(calm)'
    <3>. SUFFICES ASSUME NEW s \in Stream
         PROVE /\ left[s] <= MaxDrive
               /\ ModelOn[s] = "POST_DRIVE" /\ LoopsDone = calm[s] + 1 /\ hand[s] # 0 => left[s] = 0
               /\ ModelOn[s] = "POST_DRIVE" /\ Rested(s, calm)' => hand[s] = 0
      BY <1>0, <2>1 DEF DriveEnds
    <3>1. left[s] \in Nat
      BY DEF TypeOK
    <3>2. Rested(s, calm)' => Rested(s, calm)
      BY <2>1, LoopTypes DEF Rested
    <3>. QED  BY <2>1, <3>1, <3>2 DEF DriveEnds
  <2>. QED  BY <1>2, <1>3, <2>1, <2>2
<1>8. CASE LookAtDriver
  <2>1. LoopsDone' = LoopsDone /\ main = "drivers" /\ edge /\ main' \in {"drivers", "monitors"}
    BY <1>8 DEF LookAtDriver, Goto, LoopsDone
  <2>2. QueueEmptied(calm)'
    <3>. SUFFICES ASSUME NEW s \in Stream, Looked(s, calm)', ~ Looked(s, calm)
                  PROVE  queue[s] = <<>>
      BY <1>0 DEF QueueEmptied
    <3>1. LoopsDone = calm[s] /\ ~ Visited(s)
      BY <2>1, LoopTypes DEF Looked
    <3>2. Order[at] = s /\ ~ Busy(Order[at])
      <4>1. PICK i \in 1 .. Len(Order) : Order[i] = s
        BY OrderCovers
      <4>2. ~ (i < at)
        BY <3>1, <4>1 DEF Visited
      <4>3. CASE main' = "monitors"
        <5>1. ~ (at < Len(Order)) /\ ~ Busy(Order[at])
          BY <1>8, <2>1, <4>3 DEF LookAtDriver
        <5>2. i = at
          BY <1>1, <4>2, <5>1
        <5>. QED  BY <4>1, <5>1, <5>2
      <4>4. CASE main' = "drivers"
        <5>1. Visited(s)'
          BY <2>1, <3>1, <4>4 DEF Looked
        <5>2. PICK j \in 1 .. Len(Order) : j < at' /\ Order[j] = s
          BY <5>1 DEF Visited
        <5>3. ~ (j < at)
          BY <3>1, <5>2 DEF Visited
        <5>4. at' = at + 1 /\ ~ Busy(Order[at])
          BY <1>8, <4>4, <5>2, <5>3 DEF LookAtDriver, Goto
        <5>5. j = at
          BY <1>1, <5>2, <5>3, <5>4
        <5>. QED  BY <5>2, <5>4, <5>5
      <4>. QED  BY <2>1, <4>3, <4>4
    <3>3. Quiet(s, calm)
      BY <2>1, <3>1, LoopTypes DEF Quiet, SequencesOver
    <3>. QED  BY <2>1, <3>2, <3>3 DEF Busy, SettledAtEdge
  <2>3. StreamsComplete(calm)'
    BY <1>0, <2>1 DEF StreamsComplete, WasDrained, Complete
  <2>4. DriveEnds(calm)'
    <3>. SUFFICES ASSUME NEW s \in Stream
         PROVE /\ left[s] <= MaxDrive
               /\ ModelOn[s] = "POST_DRIVE" /\ LoopsDone = calm[s] + 1 => hand[s] = 0
               /\ ModelOn[s] = "POST_DRIVE" /\ Rested(s, calm)' => hand[s] = 0
      BY <1>0, <2>1 DEF DriveEnds
    <3>1. LoopsDone = calm[s] + 1 => Rested(s, calm)
      BY <2>1 DEF Rested
    <3>2. Rested(s, calm)' => Rested(s, calm)
      BY <2>1, <3>1, LoopTypes DEF Rested
    <3>. QED  BY <3>1, <3>2 DEF DriveEnds
  <2>. QED  BY <1>2, <2>2, <2>3, <2>4
<1>9. CASE LookAtMonitor \/ ProcessesDone
  <2>1. /\ LoopsDone' = LoopsDone
        /\ \/ main = "monitors" /\ main' \in {"monitors", "processes"}
           \/ main = "processes" /\ main' = "drain" /\ at' = 1
    BY <1>9 DEF LookAtMonitor, ProcessesDone, Goto, LoopsDone
  <2>2. QueueEmptied(calm)'
    BY <1>0, <2>1 DEF QueueEmptied, Looked
  <2>3. StreamsComplete(calm)'
    <3>. SUFFICES ASSUME NEW s \in Stream, WasDrained(s, calm)'  PROVE WasDrained(s, calm)
      BY <1>0 DEF StreamsComplete, Complete
    <3>1. ~ Visited(s)' \/ main' # "drain"
      BY <2>1 DEF Visited
    <3>. QED  BY <2>1, <3>1 DEF WasDrained
  <2>4. DriveEnds(calm)'
    BY <1>0, <2>1 DEF DriveEnds, Rested
  <2>. QED  BY <1>2, <2>2, <2>3, <2>4
<1>10. CASE DrainChannel
  <2>1. /\ LoopsDone' = LoopsDone /\ main = "drain" /\ main' = "drain" /\ at' = at + 1
        /\ Drained(Order[at]) /\ at \in 1 .. Len(Order)
    BY <1>10, OrderAssumption DEF DrainChannel, LoopsDone
  <2>2. QueueEmptied(calm)'
    BY <1>0, <2>1 DEF QueueEmptied, Looked
  <2>3. DriveEnds(calm)'
    BY <1>0, <2>1 DEF DriveEnds, Rested
  <2>4. StreamsComplete(calm)'
    <3>. SUFFICES ASSUME NEW s \in Stream, WasDrained(s, calm)', ~ WasDrained(s, calm)
                  PROVE  Complete(s)
      BY <1>0 DEF StreamsComplete, Complete
    <3>1. LoopsDone + 1 = LoopsFor(s, calm) /\ ~ Visited(s) /\ Visited(s)'
      BY <2>1, LoopTypes DEF WasDrained
    <3>2. PICK i \in 1 .. Len(Order) : i < at' /\ Order[i] = s
      BY <3>1 DEF Visited
    <3>3. ~ (i < at)
      BY <3>1, <3>2 DEF Visited
    <3>4. Drained(s)
      <4>1. i = at
        BY <1>1, <2>1, <3>2, <3>3
      <4>. QED  BY <2>1, <3>2, <4>1
    <3>5. queue[s] = <<>>
      BY <2>1, <3>1, LoopTypes DEF QueueEmptied, Looked
    <3>6. InHand(s) = 0
      BY <2>1, <3>1, LoopTypes DEF InHand, DriveEnds, Rested
    <3>. QED  BY <3>4, <3>5, <3>6, CountsComplete
  <2>. QED  BY <1>2, <2>2, <2>3, <2>4
<1>11. CASE EndLoop
  <2>1. /\ main = "drain" /\ main' \in {"sequences", "teardown"}
        /\ LoopsDone' = LoopsDone + 1 /\ LoopsDone \in Nat
    BY <1>11, EndLoopCounts
  <2>2. QueueEmptied(calm)'
    <3>. SUFFICES ASSUME NEW s \in Stream, Looked(s, calm)'  PROVE Looked(s, calm)
      BY <1>0 DEF QueueEmptied
    <3>. QED  BY <2>1, LoopTypes DEF Looked
  <2>3. DriveEnds(calm)'
    <3>. SUFFICES ASSUME NEW s \in Stream, Rested(s, calm)'  PROVE Rested(s, calm)
      BY <1>0, <2>1 DEF DriveEnds
    <3>. QED  BY <2>1, LoopTypes DEF Rested
  <2>4. StreamsComplete(calm)'
    <3>. SUFFICES ASSUME NEW s \in Stream, WasDrained(s, calm)'  PROVE WasDrained(s, calm)
      BY <1>0 DEF StreamsComplete, Complete
    <3>1. Visited(s)
      <4>1. PICK i \in 1 .. Len(Order) : Order[i] = s
        BY OrderCovers
      <4>2. at \notin 1 .. Len(Order)
        BY <1>11, OrderAssumption DEF EndLoop
      <4>3. i < at
        BY <1>1, <4>2
      <4>. QED  BY <4>1, <4>3 DEF Visited
    <3>2. LoopsDone + 1 >= LoopsFor(s, calm)
      BY <2>1 DEF WasDrained
    <3>. QED  BY <2>1, <3>1, <3>2, LoopTypes DEF WasDrained
  <2>. QED  BY <1>2, <2>2, <2>3, <2>4
<1>12. main' = "failed" \/ main' = "passed" \/ ~ Conclude
  BY DEF Conclude, Goto
<1>. QED  BY <1>4, <1>5, <1>6, <1>7, <1>8, <1>9, <1>10, <1>11, <1>12
          DEF MainOrTimeOut, MainStep, TimeOut, Goto

-----------------------------------------------------------------------------
(* Faults *)

\* A corrupted transaction waits in the monitor queue of s.
Corrupted(s) == \E i \in 1 .. Len(mon[s]) : mon[s][i] = 0

LEMMA CorruptedStep ==
    ASSUME TypeOK, [Next]_vars, NEW r \in Stream, Corrupted(r)
    PROVE  Corrupted(r)' \/ mismatch'
<1>1. PICK i \in 1 .. Len(mon[r]) : mon[r][i] = 0
  BY DEF Corrupted
<1>2. mon[r] \in Seq(Nat)
  BY DEF TypeOK
<1>3. CASE mon'[r] = mon[r]
  BY <1>1, <1>3 DEF Corrupted
<1>4. CASE Capture(r)
  <2>1. PICK x \in Nat : mon'[r] = Append(mon[r], x)
    <3>1. Head(dut[r]) \in Nat
      BY <1>4, HeadTailProperties DEF TypeOK, Capture, MayLeave
    <3>. QED  BY <1>4, <3>1, CaptureTypes
  <2>2. i \in 1 .. Len(mon'[r]) /\ mon'[r][i] = 0
    BY <1>1, <1>2, <2>1, AppendProperties
  <2>. QED  BY <2>2 DEF Corrupted
<1>5. CASE Compare(r)
  <2>1. mon[r] # <<>> /\ mon'[r] = Tail(mon[r]) /\ Head(ref[r]) # 0
    BY <1>5, CompareTypes
  <2>2. CASE i = 1
    <3>1. Head(mon[r]) = 0
      BY <1>1, <1>2, <2>1, <2>2
    <3>. QED  BY <1>5, <2>1, <3>1 DEF Compare
  <2>3. CASE i # 1
    <3>1. /\ Len(Tail(mon[r])) = Len(mon[r]) - 1 /\ Len(mon[r]) \in Nat
          /\ \A j \in 1 .. Len(Tail(mon[r])) : Tail(mon[r])[j] = mon[r][j + 1]
      BY <1>2, <2>1, HeadTailProperties
    <3>2. i - 1 \in 1 .. Len(Tail(mon[r])) /\ (i - 1) + 1 = i
      BY <1>1, <2>3, <3>1
    <3>3. mon'[r][i - 1] = 0
      BY <1>1, <2>1, <3>1, <3>2
    <3>. QED  BY <2>1, <3>2, <3>3 DEF Corrupted
  <2>. QED  BY <2>2, <2>3
<1>6. mon'[r] = mon[r] \/ Capture(r) \/ Compare(r)
  <2>1. CASE MainOrTimeOut \/ Tick \/ UNCHANGED vars
    BY <2>1, MainKeepsPaths DEF Tick, vars, pathVars
  <2>2. ASSUME NEW t \in Task, Schedule(t) \/ Send(t) \/ Finish(t)  PROVE mon' = mon
    BY <2>2 DEF Schedule, Send, Finish, pathVars
  <2>3. ASSUME NEW s \in Stream, BeginDrive(s) \/ EndDrive(s) \/ Lose(s)  PROVE mon' = mon
    BY <2>3 DEF BeginDrive, EndDrive, Lose
  <2>4. ASSUME NEW s \in Stream, Capture(s) \/ Compare(s), s # r  PROVE mon'[r] = mon[r]
    BY <2>4, CaptureTypes, CompareTypes
  <2>. QED  BY <2>1, <2>2, <2>3, <2>4 DEF Next, MainOrTimeOut, StreamStep
<1>. QED  BY <1>3, <1>4, <1>5, <1>6

LEMMA MismatchStays == ASSUME mismatch, [Next]_vars PROVE mismatch'
<1>1. ASSUME MainOrTimeOut \/ Tick \/ UNCHANGED vars  PROVE mismatch'
  BY <1>1, MainKeepsPaths DEF Tick, vars
<1>2. ASSUME NEW t \in Task, Schedule(t) \/ Send(t) \/ Finish(t)  PROVE mismatch'
  BY <1>2 DEF Schedule, Send, Finish
<1>3. ASSUME NEW s \in Stream, StreamStep(s) \/ Lose(s)  PROVE mismatch'
  BY <1>3 DEF StreamStep, BeginDrive, EndDrive, Capture, Compare, Lose
<1>. QED  BY <1>1, <1>2, <1>3 DEF Next, MainOrTimeOut

\* A step that adds a fault.
LEMMA FaultStep ==
    ASSUME TypeOK, Counted, [Next]_vars, faults' # faults
    PROVE  \E s \in Stream : Corrupted(s)' \/ (Tracked(s) < accepted[s])'
<1>1. PICK s \in Stream : Capture(s) \/ Lose(s)
  <2>1. ~ (MainOrTimeOut \/ Tick \/ UNCHANGED vars)
    BY MainKeepsPaths DEF Tick, vars
  <2>2. ASSUME NEW t \in Task, Schedule(t) \/ Send(t) \/ Finish(t)  PROVE FALSE
    BY <2>2 DEF Schedule, Send, Finish
  <2>3. ASSUME NEW s \in Stream, BeginDrive(s) \/ EndDrive(s) \/ Compare(s)  PROVE FALSE
    BY <2>3 DEF BeginDrive, EndDrive, Compare
  <2>. QED  BY <2>1, <2>2, <2>3 DEF Next, MainOrTimeOut, StreamStep
<1>2. CASE Capture(s)
  <2>1. mon[s] \in Seq(Nat) /\ 0 \in Nat /\ mon'[s] = Append(mon[s], 0)
    BY <1>2, CaptureTypes DEF TypeOK
  <2>2. Len(mon[s]) + 1 \in 1 .. Len(mon'[s]) /\ mon'[s][Len(mon[s]) + 1] = 0
    BY <2>1, AppendProperties
  <2>. QED  BY <2>2 DEF Corrupted
<1>3. CASE Lose(s)
  BY <1>3, CountsStep
<1>. QED  BY <1>1, <1>2, <1>3

LEMMA NextFaults ==
    ASSUME TypeOK, Counted, FaultsTraced, [Next]_vars
    PROVE  FaultsTraced'
<1>. SUFFICES ASSUME faults' > 0, ~ mismatch'
              PROVE  \E s \in Stream : Corrupted(s)' \/ (Tracked(s) < accepted[s])'
  BY DEF FaultsTraced, Corrupted
<1>1. CASE faults' # faults
  BY <1>1, FaultStep
<1>2. CASE faults' = faults
  <2>1. ~ mismatch
    BY MismatchStays
  <2>2. PICK s \in Stream : Corrupted(s) \/ Tracked(s) < accepted[s]
    BY <1>2, <2>1 DEF FaultsTraced, Corrupted
  <2>. QED  BY <2>2, CorruptedStep, CountsStep
<1>. QED  BY <1>1, <1>2

-----------------------------------------------------------------------------
(* The theorems *)

CloseInv(calm) ==
    /\ TypeOK /\ TasksEnded /\ Counted /\ StageInv(calm) /\ FaultsTraced
    /\ main = "passed" => ~mismatch

LEMMA InitClose ==
    ASSUME NEW calm, EnoughFor(calm), Init
    PROVE  CloseInv(calm)
<1>1. TypeOK
  <2>1. Len(Order) \in Nat /\ Loops \in Nat \ {0} /\ <<>> \in Seq(Id) /\ <<>> \in Seq(Nat)
    BY OrderCovers, CountAssumption
  <2>2. /\ queue \in [Stream -> Seq(Id)] /\ ref \in [Stream -> Seq(Id)]
        /\ dut \in [Stream -> Seq(Nat)] /\ mon \in [Stream -> Seq(Nat)]
    BY <2>1 DEF Init
  <2>3. /\ accepted \in [Stream -> Nat] /\ compared \in [Stream -> Nat]
        /\ hand \in [Stream -> Nat] /\ left \in [Stream -> Nat]
        /\ sent \in [Task -> Nat] /\ task \in [Task -> {"unscheduled", "running", "done"}]
    BY DEF Init
  <2>4. /\ main \in Stage /\ edge \in BOOLEAN /\ mismatch \in BOOLEAN
        /\ loop = 1 /\ at = 1 /\ timer \in Nat /\ faults \in Nat
    BY DEF Init, Stage
  <2>5. 1 \in 1 .. Loops /\ 1 \in 1 .. (Len(Order) + 1)
    BY <2>1
  <2>. QED  BY <2>2, <2>3, <2>4, <2>5 DEF TypeOK
<1>2. TasksEnded /\ FaultsTraced
  BY DEF Init, TasksEnded, SequencesOver, ProcessesOver, FaultsTraced
<1>3. Counted
  BY EmptySeq DEF Init, Counted, Tracked, InHand
<1>4. StageInv(calm)
  <2>1. SettledAtEdge(calm) /\ QueueEmptied(calm)
    BY DEF Init, SettledAtEdge, QueueEmptied
  <2>2. DriveEnds(calm)
    BY CountAssumption DEF Init, DriveEnds
  <2>3. StreamsComplete(calm)
    BY DEF Init, StreamsComplete, Complete
  <2>. QED  BY <2>1, <2>2, <2>3 DEF StageInv
<1>. QED  BY <1>1, <1>2, <1>3, <1>4 DEF CloseInv, Init

LEMMA NextClose ==
    ASSUME NEW calm, EnoughFor(calm), CloseInv(calm), [Next]_vars
    PROVE  CloseInv(calm)'
<1>. USE DEF CloseInv
<1>1. TypeOK' /\ TasksEnded' /\ Counted' /\ FaultsTraced'
  BY NextTypes, NextTasks, CountsStep, NextFaults
<1>2. StageInv(calm)'
  <2>1. CASE UNCHANGED vars
    BY <2>1 DEF StageInv, SettledAtEdge, Quiet, SequencesOver, LoopsDone, QueueEmptied, Looked,
                Visited, DriveEnds, Rested, StreamsComplete, WasDrained, Complete,
                vars, mainVars, pathVars
  <2>. QED  BY <2>1, MainStage, TickStage, PathStage DEF Next, MainOrTimeOut, PathStep
<1>3. main' = "passed" => ~mismatch'
  <2>1. CASE Conclude
    BY <2>1 DEF Conclude, Goto, UnchangedElse
  <2>2. CASE main' # "passed" \/ UNCHANGED <<main, mismatch>>
    BY <2>2
  <2>3. CASE PathStep
    <3>1. main' = main
      BY <2>3, PathKeepsMain DEF mainVars
    <3>2. ASSUME main = "passed"  PROVE FALSE
      BY <2>3, <3>2 DEF PathStep, StreamStep, BeginDrive, EndDrive, Capture, MayLeave, Compare,
                        Lose, Schedule, Send, Finish, Over
    <3>. QED  BY <3>1, <3>2
  <2>4. CASE Tick \/ UNCHANGED vars
    BY <2>4 DEF Tick, vars, mainVars
  <2>5. CASE MainOrTimeOut /\ ~Conclude
    BY <2>5 DEF MainOrTimeOut, MainStep, TimeOut, EndBody, SequencesDone, DelayOver,
                LookAtDriver, LookAtMonitor, ProcessesDone, DrainChannel, EndLoop, Goto
  <2>. QED  BY <2>1, <2>3, <2>4, <2>5 DEF Next, MainOrTimeOut, PathStep
<1>. QED  BY <1>1, <1>2, <1>3

\* When a test has passed, every stream is complete.
LEMMA PassedComplete ==
    ASSUME NEW calm, EnoughFor(calm), CloseInv(calm)
    PROVE  PassedIsComplete /\ PassedIsFaultless
<1>1. ASSUME main = "passed", NEW s \in Stream  PROVE Complete(s)
  <2>1. LoopsDone >= LoopsFor(s, calm)
    BY <1>1, LoopTypes DEF CloseInv, LoopsDone
  <2>. QED  BY <1>1, <2>1 DEF CloseInv, StageInv, StreamsComplete, WasDrained
<1>2. PassedIsComplete
  BY <1>1 DEF PassedIsComplete, Complete
<1>3. PassedIsFaultless
  <2>1. ASSUME main = "passed", faults > 0  PROVE FALSE
    <3>1. PICK s \in Stream : Corrupted(s) \/ Tracked(s) < accepted[s]
      BY <2>1 DEF CloseInv, FaultsTraced, Corrupted
    <3>2. Complete(s)
      BY <1>1, <2>1
    <3>3. ~ Corrupted(s)
      BY <3>2, EmptySeq DEF Complete, Corrupted
    <3>4. Tracked(s) = accepted[s] /\ accepted[s] \in Nat
      <4>1. /\ Len(mon[s]) = 0 /\ Len(dut[s]) = 0 /\ Len(queue[s]) = 0
            /\ compared[s] = accepted[s]
        BY <3>2, EmptySeq DEF Complete
      <4>2. accepted[s] \in Nat
        BY DEF CloseInv, TypeOK
      <4>. QED  BY <4>1, <4>2 DEF Tracked
    <3>. QED  BY <3>1, <3>3, <3>4
  <2>2. faults \in Nat
    BY DEF CloseInv, TypeOK
  <2>. QED  BY <2>1, <2>2 DEF PassedIsFaultless
<1>. QED  BY <1>2, <1>3

LEMMA CloseDownInvariant ==
    ASSUME NEW calm, EnoughFor(calm)
    PROVE  Spec => []CloseInv(calm)
<1>1. Init => CloseInv(calm)
  BY InitClose
<1>2. CloseInv(calm) /\ [Next]_vars => CloseInv(calm)'
  BY NextClose
<1>. QED  BY <1>1, <1>2, PTL DEF Spec

LEMMA EnoughCalm == ASSUME EnoughLoops PROVE \E calm : EnoughFor(calm)
BY DEF EnoughLoops, EnoughFor

\* A testcase that passes has driven, captured and compared every transaction
\* (BaseBench.testcase and close_down), for any number of streams, tasks and
\* transactions and any chain of reactions, if shutdown_loops covers the chain.
THEOREM PassedTestIsComplete ==
    ASSUME EnoughLoops
    PROVE  Spec => []PassedIsComplete
<1>1. PICK calm : EnoughFor(calm)
  BY EnoughCalm
<1>2. CloseInv(calm) => PassedIsComplete
  BY <1>1, PassedComplete
<1>3. Spec => []CloseInv(calm)
  BY <1>1, CloseDownInvariant
<1>. QED  BY <1>2, <1>3, PTL

\* Nor does it pass if the design has corrupted or lost a transaction, whenever
\* that was and in whichever stream (Scoreboard.result, as testcase asks it).
THEOREM PassedTestIsFaultless ==
    ASSUME EnoughLoops
    PROVE  Spec => []PassedIsFaultless
<1>1. PICK calm : EnoughFor(calm)
  BY EnoughCalm
<1>2. CloseInv(calm) => PassedIsFaultless
  BY <1>1, PassedComplete
<1>3. Spec => []CloseInv(calm)
  BY <1>1, CloseDownInvariant
<1>. QED  BY <1>2, <1>3, PTL

=============================================================================
