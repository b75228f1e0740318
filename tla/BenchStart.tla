------------------------------ MODULE BenchStart ------------------------------
(***************************************************************************)
(* The start of a testcase with the signals of the design: each of the two *)
(* resets initialises the buses, and a driver writes to its bus once its   *)
(* loop has announced itself.                                              *)
(***************************************************************************)
EXTENDS BenchReady, SignalIO

CONSTANTS
    Bus,        \* Bus[c]: the signals of component c's bus (Component.io)
    Uses,       \* Uses[c]: those that component c writes
    Inits       \* what the testcase may say of "reset_init"

ASSUME BusAssumption == Bus \in [Component -> SUBSET Signal]
ASSUME UsesAssumption ==
    Uses \in [Component -> SUBSET Signal] /\ \A c \in Component : Uses[c] \subseteq Bus[c]
ASSUME InitsAssumption == Inits \subseteq BOOLEAN

VARIABLES
    init,       \* reset_init of this testcase
    written     \* the signals that a driver has written

bsVars == <<vars, ioVars, init, written>>

StartInit == Init /\ IOInit /\ init \in Inits /\ written = {}

\* The buses of the registered components.  A bus that no component was made
\* for is none of them.
Registered == UNION {Bus[order[i]] : i \in DOMAIN order}

\* BaseBench.reset asserts reset and initialises the buses of the registered
\* components, unless the testcase does not want it.
BenchReset ==
    /\ StartReset \/ ResetAgain
    /\ IF init THEN InitialiseIO(Registered) ELSE UNCHANGED ioVars
    /\ UNCHANGED <<init, written>>

\* A driver sets a signal of its bus, for one transaction after another.
DriverWrites(c, s) ==
    /\ ready[c] /\ s \in Uses[c]
    /\ \E v \in SUBSET (0 .. Width(s) - 1) : SetSignal(s, v)
    /\ written' = written \cup {s}
    /\ UNCHANGED <<vars, init>>

StartStep ==
    /\ \/ Refuse \/ SkipReset \/ DropReset \/ CompleteReset \/ ComponentReady \/ StartBody
       \/ \E t \in Task : TaskStep(t)
    /\ UNCHANGED <<ioVars, init, written>>

StartNext ==
    \/ BenchReset \/ StartStep
    \/ \E c \in Component, s \in Signal : DriverWrites(c, s)
    \/ \E s \in Signal : DesignDrives(s) /\ UNCHANGED <<vars, init, written>>

StartSpec == StartInit /\ [][StartNext]_bsVars

-----------------------------------------------------------------------------
(* Properties *)

\* The packing of structs loses nothing: a signal that only the bench drives
\* reads back as the value that was set last, whole, whatever way its fields
\* tell their ranges in.
ReadsBack ==
    \A s \in Present : drivers[s] = {"bench"} => Get(s, {}) = last[s]

\* Bench and design never drive the same signal: what initialise and the
\* drivers of a bus write are inputs of the design, whichever role the bus has.
OneDriver == \A s \in Present : Cardinality(drivers[s]) <= 1

\* At the end of the resets no input of the design is undefined that is on the
\* bus of some component: initialise has reached all of them, whichever the
\* role of the bus and in whatever order the components were registered.
InputsDefined ==
    main = "second_reset" /\ init =>
        \A c \in Component : \A s \in Bus[c] \cap Present : Input(s) => wire[s] # Undefined
=============================================================================
