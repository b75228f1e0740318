--------------------------- MODULE TestStartProofs ----------------------------
(***************************************************************************)
(* Theorems about the start of a testcase, for every set of components in  *)
(* every order of registration, every set of signals and every file.       *)
(***************************************************************************)
EXTENDS TestStart, FiniteSetTheorems, WellFoundedInduction, TLAPS

USE NoTaskAssumption, DisjointAssumption, OrdersAssumption, ResetsAssumption

-----------------------------------------------------------------------------
(* The components get ready: BenchReady *)

\* Nobody is woken before the end of the resets, and nobody announces itself
\* without having been woken.
WakeInv ==
    /\ main \in {"waiting", "body"} => ~inReset
    /\ main \notin {"constructed", "refused"} => Checked
    /\ evtReady \/ (\E t \in Task : task[t] \in {"woken", "returned"}) =>
          main \in {"waiting", "body"}
    /\ \A c \in Component : ready[c] => task[c] = "returned"

\* The testcase goes through the registered components one by one.
PassedInv ==
    /\ \A i \in DOMAIN order : i < at => ready[order[i]]
    /\ main = "body" => at = Len(order) + 1

ReadyInv == TypeOK /\ WakeInv /\ PassedInv

LEMMA OrderIsSeq ==
    ASSUME TypeOK
    PROVE  /\ order \in Seq(Component) /\ Len(order) \in Nat /\ DOMAIN order = 1 .. Len(order)
           /\ \A i \in DOMAIN order : order[i] \in Component
BY DEF TypeOK

LEMMA InitReady == Init => ReadyInv
<1> SUFFICES ASSUME Init PROVE ReadyInv
  OBVIOUS
<1>1. Len(order) \in Nat
  BY DEF Init
<1>2. TypeOK
  <2>1. at \in 1 .. Len(order) + 1
    BY <1>1 DEF Init
  <2> QED BY <2>1 DEF Init, TypeOK, Task
<1>3. WakeInv
  BY DEF Init, WakeInv, Task
<1>4. PassedInv
  BY <1>1 DEF Init, PassedInv
<1> QED BY <1>2, <1>3, <1>4 DEF ReadyInv

\* The steps of the tasks.
LEMMA TaskReady == ASSUME ReadyInv, NEW t \in Task, TaskStep(t) PROVE ReadyInv'
<1>1. UNCHANGED <<main, order, at, inReset>>
  BY DEF TaskStep, CallReady, ReturnReady, Announce
<1>2. Checked' = Checked
  BY <1>1 DEF Checked
<1>3. Component \subseteq Task
  BY DEF Task
<1>4. CASE CallReady(t)
  <2>1. TypeOK'
    BY <1>1, <1>4 DEF CallReady, TypeOK, ReadyInv
  <2>2. WakeInv'
    BY <1>1, <1>2, <1>3, <1>4 DEF CallReady, WakeInv, ReadyInv, TypeOK
  <2>3. PassedInv'
    BY <1>1, <1>4 DEF CallReady, PassedInv, ReadyInv
  <2> QED BY <2>1, <2>2, <2>3 DEF ReadyInv
<1>5. CASE ReturnReady(t)
  <2>1. TypeOK'
    BY <1>1, <1>5 DEF ReturnReady, TypeOK, ReadyInv
  <2>2. WakeInv'
    BY <1>1, <1>2, <1>3, <1>5 DEF ReturnReady, WakeInv, ReadyInv, TypeOK
  <2>3. PassedInv'
    BY <1>1, <1>5 DEF ReturnReady, PassedInv, ReadyInv
  <2> QED BY <2>1, <2>2, <2>3 DEF ReadyInv
<1>6. CASE t \in Component /\ Announce(t)
  <2>1. /\ t \in Component /\ task[t] = "returned" /\ ready' = [ready EXCEPT ![t] = TRUE]
        /\ UNCHANGED <<evtReady, task>>
    BY <1>6 DEF Announce
  <2>2. TypeOK'
    BY <1>1, <2>1 DEF TypeOK, ReadyInv
  <2>3. WakeInv'
    BY <1>1, <1>2, <2>1 DEF WakeInv, ReadyInv, TypeOK
  <2>4. PassedInv'
    <3>1. \A c \in Component : ready[c] => ready'[c]
      BY <2>1 DEF ReadyInv, TypeOK
    <3> QED BY <1>1, <3>1, OrderIsSeq DEF PassedInv, ReadyInv
  <2> QED BY <2>2, <2>3, <2>4 DEF ReadyInv
<1> QED BY <1>4, <1>5, <1>6 DEF TaskStep

\* The steps of the testcase.
LEMMA MainReady == ASSUME ReadyInv, MainStep PROVE ReadyInv'
<1>0. Checked' = Checked
  BY DEF MainStep, Refuse, SkipReset, StartReset, DropReset, ResetAgain, CompleteReset,
         ComponentReady, StartBody, Checked
<1>1. CASE Refuse
  BY <1>0, <1>1 DEF Refuse, ReadyInv, TypeOK, WakeInv, PassedInv
<1>2. CASE StartReset
  BY <1>0, <1>2 DEF StartReset, ReadyInv, TypeOK, WakeInv, PassedInv
<1>3. CASE DropReset
  BY <1>0, <1>3 DEF DropReset, ReadyInv, TypeOK, WakeInv, PassedInv
<1>4. CASE ResetAgain
  BY <1>0, <1>4 DEF ResetAgain, ReadyInv, TypeOK, WakeInv, PassedInv
<1>5. CASE SkipReset \/ CompleteReset
  <2>1. /\ main \in {"constructed", "second_reset"} /\ main' = "waiting" /\ evtReady' = TRUE
        /\ task' = [t \in Task |-> IF task[t] = "waiting" THEN "woken" ELSE task[t]]
        /\ inReset' = FALSE /\ UNCHANGED <<order, at, ready>>
    BY <1>5 DEF SkipReset, CompleteReset, MarkReady, Marked, Waken, ResetDone, ReadyInv, TypeOK
  <2>2. Checked
    BY <1>5 DEF SkipReset, CompleteReset, ReadyInv, WakeInv, ResetDone
  <2>3. TypeOK'
    BY <2>1 DEF ReadyInv, TypeOK
  <2>4. WakeInv'
    BY <1>0, <2>1, <2>2 DEF ReadyInv, TypeOK, WakeInv, Task
  <2>5. PassedInv'
    BY <2>1 DEF ReadyInv, PassedInv
  <2> QED BY <2>3, <2>4, <2>5 DEF ReadyInv
<1>6. CASE ComponentReady
  <2>1. /\ at \in DOMAIN order /\ ready[order[at]] /\ at' = at + 1 /\ main = "waiting"
        /\ UNCHANGED <<main, order, inReset, evtReady, task, ready>>
    BY <1>6 DEF ComponentReady
  <2>2. at \in 1 .. Len(order)
    BY <2>1, OrderIsSeq DEF ReadyInv
  <2>3. TypeOK' /\ WakeInv'
    BY <1>0, <2>1, <2>2, OrderIsSeq DEF ReadyInv, TypeOK, WakeInv
  <2>4. PassedInv'
    BY <2>1, <2>2, OrderIsSeq DEF ReadyInv, PassedInv
  <2> QED BY <2>3, <2>4 DEF ReadyInv
<1>7. CASE StartBody
  <2>1. at = Len(order) + 1
    BY <1>7, OrderIsSeq DEF StartBody, ReadyInv, TypeOK
  <2> QED BY <1>0, <1>7, <2>1 DEF StartBody, ReadyInv, TypeOK, WakeInv, PassedInv
<1> QED BY <1>1, <1>2, <1>3, <1>4, <1>5, <1>6, <1>7 DEF MainStep

LEMMA StepReady == ReadyInv /\ [Next]_vars => ReadyInv'
<1>1. ReadyInv /\ UNCHANGED vars => ReadyInv'
  BY DEF vars, ReadyInv, TypeOK, WakeInv, PassedInv, Checked
<1> QED BY <1>1, TaskReady, MainReady DEF Next

\* The first step of the proof that TestSpec has the properties of BenchReady.
LEMMA TestIsReady == [TestNext]_tsVars => [Next]_vars
<1> SUFFICES ASSUME TestNext \/ UNCHANGED tsVars PROVE Next \/ UNCHANGED vars
  OBVIOUS
<1>1. CASE Import \/ UNCHANGED tsVars
  BY <1>1 DEF Import, tsVars, bsVars
<1>2. CASE StartBench
  BY <1>2 DEF StartBench, StartNext, BenchReset, StartStep, DriverWrites, Next, MainStep
<1> QED BY <1>1, <1>2 DEF TestNext

THEOREM ReadyInvariant == TestSpec => []ReadyInv
<1>1. TestInit => Init
  BY DEF TestInit, StartInit
<1> QED BY <1>1, InitReady, StepReady, TestIsReady, PTL DEF TestSpec

\* The types of the start of a testcase.
THEOREM ReadyTypeCorrect == TestSpec => []TypeOK
<1>1. ReadyInv => TypeOK
  BY DEF ReadyInv
<1> QED BY <1>1, ReadyInvariant, PTL

\* Neither a component nor the body starts in either of the two resets.
THEOREM StartsAfterReset == TestSpec => []NothingStartsInReset
<1>1. ReadyInv => NothingStartsInReset
  <2> SUFFICES ASSUME ReadyInv, (\E c \in Component : ready[c]) \/ main = "body"
               PROVE  ~inReset
    BY DEF NothingStartsInReset
  <2>1. main \in {"waiting", "body"}
    BY DEF ReadyInv, WakeInv, Task
  <2> QED BY <2>1 DEF ReadyInv, WakeInv
<1> QED BY <1>1, ReadyInvariant, PTL

\* Whatever the bench registers, and in whatever order: when the body starts
\* all components that the bench has are ready.
THEOREM BodyIsSafe == TestSpec => []BodyFindsAllReady
<1>1. ReadyInv => BodyFindsAllReady
  <2> SUFFICES ASSUME ReadyInv, main = "body", NEW c \in Component PROVE ready[c]
    BY DEF BodyFindsAllReady
  <2>1. Checked /\ at = Len(order) + 1
    BY DEF ReadyInv, WakeInv, PassedInv
  <2>2. PICK i \in DOMAIN order : order[i] = c
    BY <2>1 DEF Checked
  <2>3. i < at
    BY <2>1, <2>2, OrderIsSeq DEF ReadyInv
  <2> QED BY <2>2, <2>3 DEF ReadyInv, PassedInv
<1> QED BY <1>1, ReadyInvariant, PTL

-----------------------------------------------------------------------------
(* The signals: BenchStart *)

\* Components write signals of their own side of a bus only, the side opposite
\* to the design's.
OwnSide == \A c \in Component : \A s \in Uses[c] \cap Present : Input(s)

DriversInv ==
    drivers \in [Present -> SUBSET {"bench", "design"}]
    /\ \A s \in Present : drivers[s] \subseteq (IF Input(s) THEN {"bench"} ELSE {"design"})

DefinedInv ==
    /\ DOMAIN wire = Present
    /\ main \in {"first_reset", "second_reset"} => Checked
    /\ init /\ main \in {"first_reset", "second_reset"} =>
          \A s \in Present \cap Registered : Input(s) => wire[s] # Undefined

\* What initialise sets are the inputs.
LEMMA InitialisesInputs ==
    ASSUME NEW buses
    PROVE  Initialised(buses) = {s \in buses \cap Present : Input(s)}
<1>1. \A s \in Present : BusRole[s] \in Role /\ Side[s] \in Role
  BY SignalAssumption
<1> QED BY <1>1 DEF Initialised, Input, Opposite, Role

LEMMA TestSignals ==
    ASSUME OwnSide, DriversInv, [TestNext]_tsVars PROVE DriversInv'
<1>1. \/ UNCHANGED drivers
      \/ \E set \in SUBSET {s \in Present : Input(s)} :
            drivers' = [s \in Present |-> IF s \in set THEN drivers[s] \cup {"bench"}
                                          ELSE drivers[s]]
      \/ \E s \in Present : ~Input(s) /\ drivers' = [drivers EXCEPT ![s] = @ \cup {"design"}]
  <2>1. CASE Import \/ UNCHANGED tsVars \/ (StartBench /\ StartStep)
    BY <2>1 DEF Import, tsVars, bsVars, StartStep, ioVars
  <2>2. CASE BenchReset
    <3>1. Initialised(Registered) \in SUBSET {s \in Present : Input(s)}
      BY InitialisesInputs
    <3> QED BY <2>2, <3>1 DEF BenchReset, InitialiseIO, Write, ioVars
  <2>3. ASSUME NEW c \in Component, NEW s \in Signal, DriverWrites(c, s)
        PROVE  \E set \in SUBSET {r \in Present : Input(r)} :
                 drivers' = [r \in Present |-> IF r \in set THEN drivers[r] \cup {"bench"}
                                               ELSE drivers[r]]
    <3>1. {s} \cap Present \in SUBSET {r \in Present : Input(r)}
      BY <2>3 DEF DriverWrites, OwnSide
    <3> QED BY <2>3, <3>1 DEF DriverWrites, SetSignal, Write
  <2>4. ASSUME NEW s \in Signal, DesignDrives(s)
        PROVE  s \in Present /\ ~Input(s) /\ drivers' = [drivers EXCEPT ![s] = @ \cup {"design"}]
    BY <2>4 DEF DesignDrives
  <2> QED BY <2>1, <2>2, <2>3, <2>4 DEF TestNext, StartBench, StartNext
<1> QED BY <1>1 DEF DriversInv

\* If no component writes to the wrong side, bench and design never drive the
\* same signal, whatever the roles of the buses.
THEOREM NoContention == OwnSide => (TestSpec => []OneDriver)
<1> SUFFICES ASSUME OwnSide PROVE TestSpec => []OneDriver
  OBVIOUS
<1>1. TestInit => DriversInv
  BY DEF TestInit, StartInit, IOInit, DriversInv
<1>2. DriversInv /\ [TestNext]_tsVars => DriversInv'
  BY TestSignals
<1>3. DriversInv => OneDriver
  <2> SUFFICES ASSUME DriversInv, NEW s \in Present PROVE Cardinality(drivers[s]) <= 1
    BY DEF OneDriver
  <2>1. drivers[s] = {} \/ drivers[s] = {"bench"} \/ drivers[s] = {"design"}
    BY DEF DriversInv
  <2>2. Cardinality({}) = 0
    BY FS_EmptySet
  <2>3. Cardinality({"bench"}) = 1 /\ Cardinality({"design"}) = 1
    BY FS_Singleton
  <2>4. Cardinality(drivers[s]) = 0 \/ Cardinality(drivers[s]) = 1
    BY <2>1, <2>2, <2>3, Zenon
  <2> QED BY <2>4
<1> QED BY <1>1, <1>2, <1>3, PTL DEF TestSpec

\* What is written is defined.
LEMMA WriteDefines ==
    ASSUME NEW set, NEW v, Write(set, v), DOMAIN wire = Present,
           \A s \in set \cap Present : v[s] \in SUBSET (0 .. Width(s) - 1)
    PROVE  /\ DOMAIN wire' = Present
           /\ \A s \in Present : s \in set \/ wire[s] # Undefined => wire'[s] # Undefined
<1>1. wire' = [s \in Present |-> IF s \in set THEN Unpacked(v[s], s) ELSE wire[s]]
  BY DEF Write
<1>2. \A s \in set \cap Present : Unpacked(v[s], s) # Undefined
  BY UndefinedAssumption, SignalAssumption
<1> QED BY <1>1, <1>2

\* The components that were registered stay so.
LEMMA OrderStays ==
    ASSUME [TestNext]_tsVars
    PROVE  Registered' = Registered /\ Checked' = Checked
<1>1. order' = order
  BY DEF TestNext, Import, StartBench, StartNext, BenchReset, StartReset, ResetAgain, StartStep,
      DriverWrites, Refuse, SkipReset, DropReset, CompleteReset, ComponentReady, StartBody,
      TaskStep, CallReady, ReturnReady, Announce, tsVars, bsVars, vars
<1> QED BY <1>1 DEF Registered, Checked

LEMMA TestDefines ==
    ASSUME DefinedInv, [TestNext]_tsVars PROVE DefinedInv'
<1>0. Registered' = Registered /\ Checked' = Checked
  BY OrderStays
<1>1. CASE BenchReset
  <2>1. UNCHANGED init
    BY <1>1 DEF BenchReset
  <2>0. Checked
    BY <1>1 DEF BenchReset, StartReset, ResetAgain, DefinedInv
  <2>2. CASE init
    <3>1. Write(Initialised(Registered), [s \in Signal |-> {}])
      BY <1>1, <2>2 DEF BenchReset, InitialiseIO
    <3>2. \A s \in Initialised(Registered) \cap Present :
            [r \in Signal |-> {}][s] \in SUBSET (0 .. Width(s) - 1)
      BY SignalAssumption
    <3>3. /\ DOMAIN wire' = Present
          /\ \A s \in Present : s \in Initialised(Registered) => wire'[s] # Undefined
      BY <3>1, <3>2, WriteDefines DEF DefinedInv
    <3>4. \A s \in Present \cap Registered : Input(s) => s \in Initialised(Registered)
      BY InitialisesInputs
    <3> QED BY <1>0, <2>0, <3>3, <3>4 DEF DefinedInv
  <2>3. CASE ~init
    BY <1>0, <1>1, <2>0, <2>1, <2>3 DEF BenchReset, DefinedInv, ioVars
  <2> QED BY <2>2, <2>3
<1>2. ASSUME NEW c \in Component, NEW s \in Signal, DriverWrites(c, s) PROVE DefinedInv'
  <2>1. PICK v \in SUBSET (0 .. Width(s) - 1) : Write({s} \cap Present, [r \in {s} |-> v])
    BY <1>2 DEF DriverWrites, SetSignal
  <2>2. /\ DOMAIN wire' = Present
        /\ \A r \in Present : wire[r] # Undefined => wire'[r] # Undefined
    BY <2>1, WriteDefines DEF DefinedInv
  <2>3. UNCHANGED <<main, init>>
    BY <1>2 DEF DriverWrites, vars
  <2> QED BY <1>0, <2>2, <2>3 DEF DefinedInv
<1>3. ASSUME NEW s \in Signal, DesignDrives(s), UNCHANGED <<vars, init>> PROVE DefinedInv'
  <2>1. s \in Present /\ ~Input(s) /\ \E x : wire' = [wire EXCEPT ![s] = x]
    BY <1>3 DEF DesignDrives
  <2>2. UNCHANGED <<main, init>>
    BY <1>3 DEF vars
  <2> QED BY <1>0, <2>1, <2>2 DEF DefinedInv
<1>4. CASE Import \/ UNCHANGED tsVars
  BY <1>0, <1>4 DEF Import, tsVars, bsVars, vars, ioVars, DefinedInv
<1>5. CASE StartStep
  <2>1. /\ UNCHANGED <<wire, init>>
        /\ main' \in {"first_reset", "second_reset"} => main \in {"first_reset", "second_reset"}
    BY <1>5 DEF StartStep, ioVars, Refuse, SkipReset, DropReset, CompleteReset, MarkReady,
        ComponentReady, StartBody, TaskStep, CallReady, ReturnReady, Announce
  <2> QED BY <1>0, <2>1 DEF DefinedInv
<1> QED BY <1>1, <1>2, <1>3, <1>4, <1>5 DEF TestNext, StartBench, StartNext

\* A testcase that initialises the buses leaves no input of the design
\* undefined that a component's bus has, however many buses there are and in
\* whichever role.
THEOREM InputsAreDefined == TestSpec => []InputsDefined
<1>1. TestInit => DefinedInv
  BY DEF TestInit, StartInit, Init, IOInit, DefinedInv
<1>2. DefinedInv /\ [TestNext]_tsVars => DefinedInv'
  BY TestDefines
<1>3. DefinedInv => InputsDefined
  <2> SUFFICES ASSUME DefinedInv, main = "second_reset", init, NEW c \in Component,
                      NEW s \in Bus[c] \cap Present, Input(s)
               PROVE  wire[s] # Undefined
    BY DEF InputsDefined
  <2>1. PICK i \in DOMAIN order : order[i] = c
    BY DEF DefinedInv, Checked
  <2>2. s \in Registered
    BY <2>1 DEF Registered
  <2> QED BY <2>2 DEF DefinedInv
<1> QED BY <1>1, <1>2, <1>3, PTL DEF TestSpec

-----------------------------------------------------------------------------
(* The packing of the fields: SignalIO *)

LEMMA LeastNat ==
    ASSUME NEW S, S \subseteq Nat, S # {}
    PROVE  \E x \in S : \A y \in S : x <= y
<1>1. PICK x \in S : \A y \in S : ~ (<<y, x>> \in OpToRel(<, Nat))
  BY NatLessThanWellFounded, WFMin
<1>2. ASSUME NEW y \in S PROVE x <= y
  <2>1. x \in Nat /\ y \in Nat /\ ~ (y < x)
    BY <1>1, <1>2 DEF OpToRel
  <2> QED BY <2>1
<1> QED BY <1>2

\* f[i] is the sum of the first i widths, for i up to m.
Sums(w, m, f) == f = [i \in 0 .. m |-> IF i = 0 THEN 0 ELSE f[i - 1] + w[i].w]

\* There are such sums: a longest prefix without them would have a last field.
LEMMA SumsExist ==
    ASSUME NEW w, NEW n \in Nat PROVE \E f : Sums(w, n, f)
<1> DEFINE Bad == {m \in Nat : ~ \E f : Sums(w, m, f)}
<1>1. ASSUME Bad # {} PROVE FALSE
  <2>1. PICK m \in Bad : \A k \in Bad : m <= k
    BY <1>1, LeastNat
  <2>2. m # 0
    <3>1. Sums(w, 0, [i \in {0} |-> 0])
      BY DEF Sums
    <3> QED BY <3>1
  <2>3. m \in Nat /\ m - 1 \in Nat /\ m - 1 \notin Bad
    BY <2>1, <2>2
  <2>4. PICK f : Sums(w, m - 1, f)
    BY <2>3
  <2> DEFINE g == [i \in 0 .. m |-> IF i = m THEN f[m - 1] + w[m].w ELSE f[i]]
  <2>5. Sums(w, m, g)
    <3>1. \A i \in 0 .. m : g[i] = IF i = 0 THEN 0 ELSE g[i - 1] + w[i].w
      <4> SUFFICES ASSUME NEW i \in 0 .. m
                   PROVE  g[i] = IF i = 0 THEN 0 ELSE g[i - 1] + w[i].w
        OBVIOUS
      <4>1. CASE i = m
        BY <2>2, <2>3, <4>1
      <4>2. CASE i # m
        <5>1. i \in 0 .. m - 1 /\ g[i] = f[i] /\ (i # 0 => g[i - 1] = f[i - 1])
          BY <2>3, <4>2
        <5>2. f[i] = IF i = 0 THEN 0 ELSE f[i - 1] + w[i].w
          BY <2>4, <5>1 DEF Sums
        <5> QED BY <5>1, <5>2
      <4> QED BY <4>1, <4>2
    <3> HIDE DEF g
    <3>2. g = [i \in 0 .. m |-> g[i]]
      BY DEF g
    <3> QED BY <3>1, <3>2 DEF Sums
  <2> QED BY <2>1, <2>5
<1>2. n \notin Bad
  BY <1>1
<1> QED BY <1>2

LEMMA BeforeSums ==
    ASSUME NEW s \in Signal
    PROVE  /\ Len(Layout[s]) \in Nat /\ DOMAIN Layout[s] = 1 .. Len(Layout[s])
           /\ \A i \in DOMAIN Layout[s] : Layout[s][i] \in Field
           /\ Before[s][0] = 0
           /\ \A i \in 1 .. Len(Layout[s]) :
                 Before[s][i] = Before[s][i - 1] + Layout[s][i].w
<1>1. Layout[s] \in Seq(Field)
  BY LayoutAssumption
<1>2. /\ Len(Layout[s]) \in Nat /\ DOMAIN Layout[s] = 1 .. Len(Layout[s])
      /\ \A i \in DOMAIN Layout[s] : Layout[s][i] \in Field
  BY <1>1
<1>3. Before[s] = CHOOSE f : Sums(Layout[s], Len(Layout[s]), f)
  BY DEF Before, Sums
<1>4. Sums(Layout[s], Len(Layout[s]), Before[s])
  BY <1>2, <1>3, SumsExist
<1> HIDE DEF Before
<1>5. Before[s] = [i \in 0 .. Len(Layout[s]) |->
                      IF i = 0 THEN 0 ELSE Before[s][i - 1] + Layout[s][i].w]
  BY <1>4 DEF Sums
<1>6. \A i \in 0 .. Len(Layout[s]) :
        Before[s][i] = IF i = 0 THEN 0 ELSE Before[s][i - 1] + Layout[s][i].w
  BY ONLY <1>5
<1>7. 0 \in 0 .. Len(Layout[s]) /\ 1 .. Len(Layout[s]) \subseteq 0 .. Len(Layout[s])
  BY <1>2
<1>8. Before[s][0] = 0
  BY ONLY <1>6, <1>7
<1>9. ASSUME NEW i \in 1 .. Len(Layout[s])
      PROVE  Before[s][i] = Before[s][i - 1] + Layout[s][i].w
  <2>1. i \in 0 .. Len(Layout[s]) /\ i # 0
    BY <1>2
  <2> QED BY ONLY <1>6, <2>1
<1> QED BY ONLY <1>2, <1>8, <1>9

LEMMA BeforeIsNat ==
    ASSUME NEW s \in Signal, NEW n \in 0 .. Len(Layout[s]) PROVE Before[s][n] \in Nat
<1> DEFINE Bad == {m \in 0 .. Len(Layout[s]) : Before[s][m] \notin Nat}
<1>1. ASSUME Bad # {} PROVE FALSE
  <2>1. PICK m \in Bad : \A k \in Bad : m <= k
    <3>1. Bad \subseteq Nat
      BY BeforeSums
    <3> QED BY <1>1, <3>1, LeastNat
  <2>2. m # 0
    BY <2>1, BeforeSums
  <2>3. m \in 1 .. Len(Layout[s]) /\ m - 1 \in 0 .. Len(Layout[s]) /\ m - 1 \notin Bad
    BY <2>1, <2>2, BeforeSums
  <2>4. Layout[s][m].w \in Nat
    BY <2>3, BeforeSums DEF Field
  <2>5. Before[s][m - 1] \in Nat /\ Before[s][m] = Before[s][m - 1] + Layout[s][m].w
    BY <2>3, BeforeSums
  <2>6. Before[s][m] \in Nat
    BY ONLY <2>4, <2>5
  <2> QED BY <2>1, <2>6
<1> QED BY <1>1

\* The fields lie side by side in the packed value.
LEMMA FieldAt ==
    ASSUME NEW s \in Signal, NEW x \in Nat, x < Width(s)
    PROVE  \E i \in 1 .. Len(Layout[s]) :
              /\ Before[s][i - 1] \in Nat
              /\ Before[s][i - 1] <= x /\ x < Before[s][i - 1] + Layout[s][i].w
<1> DEFINE Above == {n \in 0 .. Len(Layout[s]) : x < Before[s][n]}
<1>1. Len(Layout[s]) \in Above /\ Above \subseteq Nat
  BY BeforeSums DEF Width
<1>2. PICK i \in Above : \A k \in Above : i <= k
  BY <1>1, LeastNat
<1>3. i # 0
  BY <1>2, BeforeSums
<1>4. i \in 1 .. Len(Layout[s]) /\ i - 1 \in 0 .. Len(Layout[s]) /\ i - 1 \notin Above
  BY <1>2, <1>3, BeforeSums
<1>5. Before[s][i - 1] \in Nat
  BY <1>4, BeforeIsNat
<1>6. Before[s][i - 1] <= x
  BY <1>4, <1>5
<1>7. x < Before[s][i - 1] + Layout[s][i].w
  BY <1>2, <1>4, BeforeSums
<1> QED BY <1>4, <1>5, <1>6, <1>7

\* What the setter spreads over the fields the getter collects.
LEMMA ReadsWhole ==
    ASSUME NEW s \in Signal, \A i \in DOMAIN Layout[s] : Lsb(Layout[s][i]) = 0,
           NEW v \in SUBSET (0 .. Width(s) - 1)
    PROVE  Packed(Unpacked(v, s), s) = v
<1>0. Width(s) \in Nat
  BY BeforeIsNat, BeforeSums DEF Width
<1>1. \A i \in DOMAIN Layout[s] : Base[s][i] = Before[s][i - 1]
  <2> SUFFICES ASSUME NEW i \in DOMAIN Layout[s] PROVE Base[s][i] = Before[s][i - 1]
    OBVIOUS
  <2>1. i - 1 \in 0 .. Len(Layout[s])
    BY BeforeSums
  <2>2. Base[s][i] = Before[s][i - 1] + Lsb(Layout[s][i])
    BY DEF Base
  <2>3. Before[s][i - 1] \in Nat
    BY <2>1, BeforeIsNat
  <2> QED BY <2>2, <2>3
<1> DEFINE u == Unpacked(v, s)
<1>2. \A i \in DOMAIN Layout[s] :
        u[i] = {b \in 0 .. Layout[s][i].w - 1 : b + Base[s][i] \in v}
  BY DEF Unpacked
<1> HIDE DEF u
<1>3. ASSUME NEW x \in Packed(u, s) PROVE x \in v
  <2>1. PICK i \in DOMAIN Layout[s] : \E b \in u[i] : x = b + Base[s][i]
    BY <1>3 DEF Packed
  <2> QED BY <1>2, <2>1
<1>4. ASSUME NEW x \in v PROVE x \in Packed(u, s)
  <2>1. x \in Nat /\ x < Width(s)
    BY <1>0
  <2>2. PICK i \in 1 .. Len(Layout[s]) :
          /\ Before[s][i - 1] \in Nat
          /\ Before[s][i - 1] <= x /\ x < Before[s][i - 1] + Layout[s][i].w
    BY <2>1, FieldAt
  <2>3. i \in DOMAIN Layout[s] /\ Layout[s][i].w \in Nat
    BY BeforeSums DEF Field
  <2>4. PICK n \in Nat : n = Before[s][i - 1]
    BY <2>2
  <2>5. PICK b \in Int : b = x - n
    BY <2>1, <2>4
  <2>6. b \in 0 .. Layout[s][i].w - 1 /\ b + n = x
    <3>1. PICK w \in Nat : w = Layout[s][i].w
      BY <2>3
    <3>2. n <= x /\ x < n + w
      BY ONLY <2>2, <2>4, <3>1
    <3>3. x \in Nat
      BY ONLY <2>1
    <3>4. b \in 0 .. w - 1 /\ b + n = x
      BY ONLY b \in Int, n \in Nat, w \in Nat, <2>5, <3>2, <3>3
    <3> QED BY ONLY <3>1, <3>4
  <2>7. Base[s][i] = n
    BY <1>1, <2>3, <2>4
  <2>8. b \in u[i] /\ x = b + Base[s][i]
    BY <1>2, <2>3, <2>6, <2>7
  <2> QED BY <2>3, <2>8 DEF Packed
<1>5. Packed(u, s) = v
  BY <1>3, <1>4
<1> QED BY <1>5 DEF u

\* A signal that only the bench has driven holds what the bench has set last.
BackInv ==
    /\ DOMAIN wire = Present /\ DOMAIN drivers = Present /\ DOMAIN last = Present
    /\ \A s \in Present : drivers[s] \subseteq {"bench"} =>
          \/ drivers[s] = {}
          \/ last[s] \in SUBSET (0 .. Width(s) - 1) /\ wire[s] = Unpacked(last[s], s)

LEMMA WriteBack ==
    ASSUME BackInv, NEW set, NEW v, Write(set, v),
           \A s \in set \cap Present : v[s] \in SUBSET (0 .. Width(s) - 1)
    PROVE  BackInv'
<1>1. /\ wire' = [s \in Present |-> IF s \in set THEN Unpacked(v[s], s) ELSE wire[s]]
      /\ drivers' = [s \in Present |-> IF s \in set THEN drivers[s] \cup {"bench"}
                                        ELSE drivers[s]]
      /\ last' = [s \in Present |-> IF s \in set THEN v[s] ELSE last[s]]
  BY DEF Write
<1>2. DOMAIN wire' = Present /\ DOMAIN drivers' = Present /\ DOMAIN last' = Present
  BY <1>1
<1>3. ASSUME NEW s \in Present, drivers'[s] \subseteq {"bench"}, drivers'[s] # {}
      PROVE  last'[s] \in SUBSET (0 .. Width(s) - 1) /\ wire'[s] = Unpacked(last'[s], s)
  <2>1. CASE s \in set
    BY <1>1, <2>1
  <2>2. CASE s \notin set
    <3>1. wire'[s] = wire[s] /\ last'[s] = last[s] /\ drivers'[s] = drivers[s]
      BY <1>1, <2>2
    <3> QED BY <1>3, <3>1 DEF BackInv
  <2> QED BY <2>1, <2>2
<1> QED BY <1>2, <1>3 DEF BackInv

LEMMA TestKeepsBack ==
    ASSUME BackInv, [TestNext]_tsVars PROVE BackInv'
<1>1. CASE UNCHANGED ioVars
  BY <1>1 DEF ioVars, BackInv
<1>2. CASE InitialiseIO(Registered)
  <2>1. \A s \in Initialised(Registered) \cap Present :
          [r \in Signal |-> {}][s] \in SUBSET (0 .. Width(s) - 1)
    BY SignalAssumption
  <2> QED BY <1>2, <2>1, WriteBack DEF InitialiseIO
<1>3. ASSUME NEW c \in Component, NEW s \in Signal, DriverWrites(c, s) PROVE BackInv'
  <2>1. PICK v \in SUBSET (0 .. Width(s) - 1) : Write({s} \cap Present, [r \in {s} |-> v])
    BY <1>3 DEF DriverWrites, SetSignal
  <2> QED BY <2>1, WriteBack
<1>4. ASSUME NEW s \in Signal, DesignDrives(s) PROVE BackInv'
  <2>1. /\ s \in Present /\ last' = last
        /\ drivers' = [drivers EXCEPT ![s] = @ \cup {"design"}]
        /\ \E x : wire' = [wire EXCEPT ![s] = x]
    BY <1>4 DEF DesignDrives
  <2>2. DOMAIN wire' = Present /\ DOMAIN drivers' = Present /\ DOMAIN last' = Present
    BY <2>1 DEF BackInv
  <2>3. ~ (drivers'[s] \subseteq {"bench"})
    BY <2>1 DEF BackInv
  <2>4. \A r \in Present \ {s} : wire'[r] = wire[r] /\ drivers'[r] = drivers[r]
    BY <2>1 DEF BackInv
  <2> QED BY <2>1, <2>2, <2>3, <2>4 DEF BackInv
<1>5. \/ UNCHANGED ioVars \/ InitialiseIO(Registered)
      \/ \E c \in Component, s \in Signal : DriverWrites(c, s)
      \/ \E s \in Signal : DesignDrives(s)
  BY DEF TestNext, Import, StartBench, StartNext, BenchReset, StartStep, tsVars, bsVars
<1> QED BY <1>1, <1>2, <1>3, <1>4, <1>5

\* Every field starts at index 0 of its range.
ZeroBased == \A s \in Present : \A i \in DOMAIN Layout[s] : Lsb(Layout[s][i]) = 0

\* However many fields a struct has and however wide they are: a signal that
\* only the bench drives reads back as the value that was set last, provided
\* that the ranges of the fields, as they are told, end at 0.
THEOREM StructsReadBack == ZeroBased => (TestSpec => []ReadsBack)
<1> SUFFICES ASSUME ZeroBased PROVE TestSpec => []ReadsBack
  OBVIOUS
<1>1. TestInit => BackInv
  BY DEF TestInit, StartInit, IOInit, BackInv
<1>2. BackInv /\ [TestNext]_tsVars => BackInv'
  BY TestKeepsBack
<1>3. BackInv => ReadsBack
  <2> SUFFICES ASSUME BackInv, NEW s \in Present, drivers[s] = {"bench"}
               PROVE  Get(s, {}) = last[s]
    BY DEF ReadsBack
  <2>1. last[s] \in SUBSET (0 .. Width(s) - 1) /\ wire[s] = Unpacked(last[s], s)
    BY DEF BackInv
  <2>2. s \in Signal
    BY SignalAssumption
  <2>3. wire[s] # Undefined
    BY <2>1, <2>2, UndefinedAssumption
  <2>4. Packed(Unpacked(last[s], s), s) = last[s]
    BY <2>1, <2>2, ReadsWhole DEF ZeroBased
  <2> QED BY <2>1, <2>3, <2>4 DEF Get
<1> QED BY <1>1, <1>2, <1>3, PTL DEF TestSpec

-----------------------------------------------------------------------------
(* The testcases: TestPlan *)

\* The lists in a parameter file, and the parameters, are finite.
FiniteFiles == \A f \in Files : IsFiniteSet(Combinations(f))

PlanInv ==
    /\ file \in Files /\ todo \subseteq Combinations(file)
    /\ \A c \in Combinations(file) \ todo :
          (\A d \in Combinations(file) : ~Alike(file, c, d)) =>
              Name(file, c) \in DOMAIN made /\ made[Name(file, c)] = Chosen(file, c)

\* Combinations of one name look alike, for a single one has no other.
LEMMA SameName ==
    ASSUME NEW f \in Files, FiniteFiles,
           NEW c \in Combinations(f), NEW d \in Combinations(f),
           c # d, Name(f, c) = Name(f, d)
    PROVE  Alike(f, c, d)
<1>1. Cardinality(Combinations(f)) # 1
  <2> SUFFICES ASSUME Cardinality(Combinations(f)) = 1 PROVE FALSE
    OBVIOUS
  <2>1. PICK x : Combinations(f) = {x}
    BY FS_Singleton DEF FiniteFiles
  <2> QED BY <2>1
<1>2. /\ Name(f, c) = [p \in Given(f) |-> Chosen(f, c)[p].text]
      /\ Name(f, d) = [p \in Given(f) |-> Chosen(f, d)[p].text]
  BY <1>1 DEF Name
<1>3. \A p \in Given(f) : Chosen(f, c)[p].text = Chosen(f, d)[p].text
  <2> SUFFICES ASSUME NEW p \in Given(f)
               PROVE  Chosen(f, c)[p].text = Chosen(f, d)[p].text
    OBVIOUS
  <2>1. Name(f, c)[p] = Chosen(f, c)[p].text /\ Name(f, d)[p] = Chosen(f, d)[p].text
    BY <1>2
  <2> QED BY <2>1
<1> QED BY <1>3 DEF Alike

LEMMA PlanMakes ==
    ASSUME FiniteFiles, PlanInv, NEW c \in todo, MakeTest(c) PROVE PlanInv'
<1>1. /\ todo' = todo \ {c} /\ file' = file
      /\ made' = [n \in DOMAIN made \cup {Name(file, c)} |->
                    IF n = Name(file, c) THEN Chosen(file, c) ELSE made[n]]
  BY DEF MakeTest
<1>2. file \in Files /\ c \in Combinations(file)
  BY DEF PlanInv
<1>3. ASSUME NEW d \in Combinations(file) \ todo',
             \A e \in Combinations(file) : ~Alike(file, d, e)
      PROVE  Name(file, d) \in DOMAIN made' /\ made'[Name(file, d)] = Chosen(file, d)
  <2>1. CASE d = c
    BY <1>1, <2>1
  <2>2. CASE d # c
    <3>1. d \in Combinations(file) \ todo
      BY <1>1, <1>3, <2>2
    <3>2. Name(file, d) # Name(file, c)
      BY <1>2, <1>3, <2>2, SameName
    <3>3. Name(file, d) \in DOMAIN made /\ made[Name(file, d)] = Chosen(file, d)
      BY <1>3, <3>1 DEF PlanInv
    <3> QED BY <1>1, <3>2, <3>3
  <2> QED BY <2>1, <2>2
<1>4. file' \in Files /\ todo' \subseteq Combinations(file')
  BY <1>1 DEF PlanInv
<1> QED BY <1>1, <1>3, <1>4 DEF PlanInv

\* For every parameter file, whatever it has for the testcase and for all of
\* them: no combination of values is lost but those that look like another.
THEOREM NoCombinationIsLost == FiniteFiles => (TestSpec => []EveryCombinationRuns)
<1> SUFFICES ASSUME FiniteFiles PROVE TestSpec => []EveryCombinationRuns
  OBVIOUS
<1>1. TestInit => PlanInv
  BY DEF TestInit, PlanInit, PlanInv
<1>2. PlanInv /\ [TestNext]_tsVars => PlanInv'
  <2> SUFFICES ASSUME PlanInv, [TestNext]_tsVars PROVE PlanInv'
    OBVIOUS
  <2>1. CASE \E c \in todo : MakeTest(c)
    BY <2>1, PlanMakes
  <2>2. CASE ~ \E c \in todo : MakeTest(c)
    <3>1. UNCHANGED <<file, todo, made>>
      BY <2>2 DEF TestNext, Import, PlanNext, StartBench, RunTest, tsVars, planVars
    <3> QED BY <3>1 DEF PlanInv
  <2> QED BY <2>1, <2>2
<1>3. PlanInv => EveryCombinationRuns
  BY DEF PlanInv, EveryCombinationRuns
<1> QED BY <1>1, <1>2, <1>3, PTL DEF TestSpec
=============================================================================
