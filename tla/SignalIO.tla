------------------------------- MODULE SignalIO -------------------------------
(***************************************************************************)
(* The signals between bench and design (forastero/io.py, SignalWrapper    *)
(* and BaseIO).  A signal, which may be a struct of several fields, is     *)
(* written and read as one packed value.  A bus has a role on the boundary *)
(* of the design, which with the side of a component decides whether the   *)
(* component is an input or an output of the design.  A component that the *)
(* design does not have is left out.                                       *)
(*                                                                         *)
(* A value is the set of its bits that are 1.  cocotb's handles of fields  *)
(* tell their range in one of three ways, by the version of cocotb and the *)
(* kind of signal: [w |-> width, api |-> "range" | "_range" | "none",      *)
(* left |-> , right |-> ].                                                 *)
(***************************************************************************)
EXTENDS Integers, Sequences, FiniteSets

CONSTANTS
    Signal,     \* the components of all buses
    Present,    \* those that the design has
    BusRole,    \* BusRole[s]: the role of the signal's bus on the design
    Side,       \* Side[s]: the side that drives the signal
    Layout,     \* Layout[s]: its fields, the least significant one first
    Undefined   \* the value of a signal that nobody has driven

Role == {"INITIATOR", "RESPONDER"}

ASSUME SignalAssumption ==
    /\ Present \subseteq Signal
    /\ BusRole \in [Signal -> Role] /\ Side \in [Signal -> Role]

Field == [w : Nat, api : {"range", "_range", "none"}, left : Nat, right : Nat]
ASSUME LayoutAssumption == Layout \in [Signal -> Seq(Field)]

VARIABLES
    wire,       \* the fields of each signal: sequences of sets of bits
    drivers,    \* who has driven the signal: "bench", "design"
    last        \* the value that the bench has set last

ioVars == <<wire, drivers, last>>

-----------------------------------------------------------------------------
\* Where the fields are in the packed value: a field starts at the sum of the
\* widths before it, plus its least significant index.
Before == [s \in Signal |->
    LET sum[i \in 0 .. Len(Layout[s])] == IF i = 0 THEN 0 ELSE sum[i - 1] + Layout[s][i].w
    IN  sum]

LsbMutant(f) == IF f.api = "none" THEN 0 ELSE f.right
Lsb(f) == CASE f.api = "range"  -> IF f.left >= f.right THEN f.right ELSE f.left
            [] f.api = "_range" -> f.right
            [] f.api = "none"   -> 0

Base == [s \in Signal |-> [i \in DOMAIN Layout[s] |-> Before[s][i - 1] + Lsb(Layout[s][i])]]
Width(s) == Before[s][Len(Layout[s])]

\* The getter and the setter of SignalWrapper.value.
Packed(fields, s) ==
    UNION {{b + Base[s][i] : b \in fields[i]} : i \in DOMAIN Layout[s]}
Unpacked(v, s) ==
    [i \in DOMAIN Layout[s] |-> {b \in 0 .. Layout[s][i].w - 1 : b + Base[s][i] \in v}]

\* Cannot be taken for a value.
ASSUME UndefinedAssumption ==
    \A s \in Signal : \A v \in SUBSET (0 .. Width(s) - 1) : Unpacked(v, s) # Undefined

\* BaseIO.get: a missing signal reads as the default.  (One bit alone is turned
\* into the Boolean that is equal to it, and a default may also have been set
\* beforehand: neither is told apart here.)
Get(s, default) == IF s \notin Present THEN default
                   ELSE IF wire[s] = Undefined THEN Undefined ELSE Packed(wire[s], s)

\* IORole.opposite, and the direction that the naming styles give a signal.
Opposite(role) == IF role = "INITIATOR" THEN "RESPONDER" ELSE "INITIATOR"
Input(s) == BusRole[s] # Side[s]

IOInit ==
    /\ wire = [s \in Present |-> Undefined]
    /\ drivers = [s \in Present |-> {}]
    /\ last = [s \in Present |-> Undefined]

\* The bench writes each signal s of a set with the value v[s].
Write(set, v) ==
    /\ wire' = [s \in Present |-> IF s \in set THEN Unpacked(v[s], s) ELSE wire[s]]
    /\ drivers' = [s \in Present |-> IF s \in set THEN drivers[s] \cup {"bench"}
                                     ELSE drivers[s]]
    /\ last' = [s \in Present |-> IF s \in set THEN v[s] ELSE last[s]]

\* BaseIO.set does nothing for a signal that is not there.
SetSignal(s, v) == Write({s} \cap Present, [r \in {s} |-> v])

\* BaseBench.initialise, for the buses with the given signals: the bench takes
\* the role opposite to the one that a bus has on the design, and sets the
\* signals of that side to 0.
InitialisedMutant(buses) == {s \in buses \cap Present : Side[s] = BusRole[s]}
Initialised(buses) == {s \in buses \cap Present : Side[s] = Opposite(BusRole[s])}
InitialiseIO(buses) == Write(Initialised(buses), [s \in Signal |-> {}])

\* The design drives its outputs.
DesignDrives(s) ==
    /\ s \in Present /\ ~Input(s)
    /\ \E v \in SUBSET (0 .. Width(s) - 1) :
         wire' = [wire EXCEPT ![s] = Unpacked(v, s)]
    /\ drivers' = [drivers EXCEPT ![s] = @ \cup {"design"}]
    /\ UNCHANGED last
=============================================================================
