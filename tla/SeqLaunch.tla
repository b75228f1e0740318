------------------------------ MODULE SeqLaunch -------------------------------
(***************************************************************************)
(* Sequences before their first statement (forastero/sequence.py): the     *)
(* decorators declare what a sequence requires and which arguments are     *)
(* random, a call collects keyword arguments, and when the scheduled task  *)
(* starts, it picks components, locks and arguments out of the keywords.   *)
(*                                                                         *)
(* The keywords of a call are one dictionary, from which the task deletes  *)
(* what it has used.  Nothing keeps a testcase from scheduling the same    *)
(* call again.                                                             *)
(*                                                                         *)
(* A name is a tuple of words, so that the suffix of an override can be    *)
(* seen: <<"x", "range">> is x_range.                                      *)
(***************************************************************************)
EXTENDS Integers, Sequences, Functions, FiniteSetsExt

CONSTANTS
    Fn,         \* sequencing functions
    Decorators, \* Decorators[f]: requires and randarg, from top to bottom
    Plain,      \* Plain[f]: other parameters, which have a default
    Kwds,       \* Kwds[f]: the keyword arguments that a testcase may give to f
    CompType,   \* CompType[v]: the type of a component
    MaxCalls,   \* number of calls (bound)
    MaxTasks    \* number of scheduled tasks (bound)

ASSUME FnAssumption == DOMAIN Decorators = Fn /\ DOMAIN Plain = Fn /\ DOMAIN Kwds = Fn
ASSUME DecoratorsAssumption ==
    \A f \in Fn :
        /\ Decorators[f] \in Seq(Range(Decorators[f]))
        /\ \A d \in Range(Decorators[f]) :
              /\ d.kind \in {"requires", "locks", "randargs"}
              /\ d.name \in Seq(STRING)
              /\ d.name \notin Plain[f]    \* Plain are the other parameters
ASSUME BoundsAssumption == MaxCalls \in Nat /\ MaxTasks \in Nat

VARIABLES
    decl,       \* the BaseSequence of each function: requirements, locks and
                \* random arguments in the order of their declaration
    undecorated,\* Python applies decorators from the bottom to the top
    calls,      \* the calls made: function, keywords left, keywords given
    tasks       \* the scheduled tasks: call, state, arguments

launchVars == <<decl, undecorated, calls, tasks>>

NoDecl == [requires |-> <<>>, locks |-> <<>>, randargs |-> <<>>]

LaunchInit ==
    /\ decl = [f \in Fn |-> NoDecl]
    /\ undecorated = Decorators
    /\ calls = <<>> /\ tasks = <<>>

-----------------------------------------------------------------------------
(* Declaration *)

Names(list) == {list[i].name : i \in DOMAIN list}

Suffix == {"bit_width", "range", "choices"}
VarNames(name) == {name} \cup {Append(name, s) : s \in Suffix}

\* How an override is meant: the suffix that the name ends in.
Mode(key) == IF Len(key) > 1 /\ key[Len(key)] \in Suffix THEN key[Len(key)] ELSE "fixed"

\* Ranges are of integers; between floats the code draws with random.uniform.
ASSUME KwdsAssumption ==
    \A f \in Fn : \A kwds \in Kwds[f] : \A k \in DOMAIN kwds :
        Mode(k) = "range" => kwds[k] \in Int \X Int

\* A random argument replaces one of the same name.
Declaring(old, d) ==
    IF d.kind = "randargs" /\ d.name \in Names(old.randargs)
    THEN [old EXCEPT !.randargs = [i \in DOMAIN old.randargs |->
            IF old.randargs[i].name = d.name THEN d ELSE old.randargs[i]]]
    ELSE [old EXCEPT ![d.kind] = Append(old[d.kind], d)]

\* A requirement and a lock must not share a name; of a random argument only
\* its own name is checked.
Decorate(f) ==
    /\ undecorated[f] # <<>>
    /\ LET d == undecorated[f][Len(undecorated[f])]
       IN  /\ d.kind \in {"requires", "locks"} =>
                d.name \notin Names(decl[f].requires) \cup Names(decl[f].locks)
           /\ d.kind = "randargs" => Mode(d.name) \notin {"range", "choices"}
           /\ decl' = [decl EXCEPT ![f] = Declaring(decl[f], d)]
    /\ undecorated' = [undecorated EXCEPT ![f] = SubSeq(@, 1, Len(@) - 1)]
    /\ UNCHANGED <<calls, tasks>>

Declared == \A f \in Fn : undecorated[f] = <<>>

-----------------------------------------------------------------------------
(* Randomisation *)

\* What SeqRandomVariable.randomise may return for one way to randomise, as
\* the random library computes it: getrandbits, randrange, choice.
Outcomes(mode, arg) ==
    CASE mode = "bit_width" -> 0 .. 2 ^ arg - 1
      [] mode = "range"     -> arg[1] .. arg[2] - 1
      [] mode = "choices"   -> Range(arg)
      [] OTHER              -> {}       \* no way declared: an exception

\* The declared way, used without an override.  It selects from choices with
\* random.choices, which returns a list of one value.
Default(rv) == IF rv.mode = "choices" THEN {<<v>> : v \in Outcomes(rv.mode, rv.arg)}
               ELSE Outcomes(rv.mode, rv.arg)

Overridden(key, value) == IF Mode(key) = "fixed" THEN {value} ELSE Outcomes(Mode(key), value)

-----------------------------------------------------------------------------
(* Calls and tasks *)

Without(kwds, names) == Restrict(kwds, DOMAIN kwds \ names)
\* Arguments and more of them: of two with one name, the first is taken.
Over(args, more) == [k \in DOMAIN args \cup DOMAIN more |->
    IF k \in DOMAIN args THEN args[k] ELSE more[k]]

\* One task at a time runs its preamble, which has no await.
Picking == \E t \in DOMAIN tasks : tasks[t].state = "picking"

Call(f, kwds) ==
    /\ Declared /\ ~Picking /\ Len(calls) < MaxCalls
    /\ calls' = Append(calls, [fn |-> f, kwds |-> kwds, given |-> kwds])
    /\ UNCHANGED <<decl, undecorated, tasks>>

\* BaseBench.schedule, of any call made before.
Schedule(c) ==
    /\ ~Picking /\ Len(tasks) < MaxTasks
    /\ tasks' = Append(tasks, [call |-> c, state |-> "new", next |-> 1, args |-> <<>>])
    /\ UNCHANGED <<decl, undecorated, calls>>

FnOf(t) == calls[tasks[t].call].fn
KwdsOf(t) == calls[tasks[t].call].kwds
Fail(t) == tasks' = [tasks EXCEPT ![t].state = "failed"]
Forget(t, names) ==
    calls' = [calls EXCEPT ![tasks[t].call].kwds = Without(@, names)]

\* The keywords that name requirements are taken one after the other; each has
\* been deleted when its type is checked.
TakeComponents(t) ==
    /\ ~Picking /\ tasks[t].state = "new"
    /\ \A u \in 1 .. t - 1 : tasks[u].state # "new"
    /\ LET req == decl[FnOf(t)].requires
           missing == {i \in DOMAIN req : req[i].name \notin DOMAIN KwdsOf(t)}
           wrong == {i \in DOMAIN req \ missing : CompType[KwdsOf(t)[req[i].name]] # req[i].type}
           bad == Min({Len(req) + 1} \cup missing \cup wrong)
       IN  /\ Forget(t, {req[i].name : i \in DOMAIN req \cap (1 .. bad)})
           /\ IF bad <= Len(req) THEN Fail(t)
              ELSE tasks' = [tasks EXCEPT ![t].state = "picking"]
    /\ UNCHANGED <<decl, undecorated>>

\* The override that was used is deleted, or the function would get it, too.
UsedMutant(overrides) == {}
Used(overrides) == overrides

\* The values that may be drawn, given the overrides.
CandidatesMutant(rv, overrides, kwds) == Default(rv)
Candidates(rv, overrides, kwds) ==
    IF overrides = {} THEN Default(rv)
    ELSE UNION {Overridden(k, kwds[k]) : k \in overrides}

\* The next random argument: its override, if there is one, or its default.
PickArgument(t) ==
    /\ tasks[t].state = "picking"
    /\ tasks[t].next \in DOMAIN decl[FnOf(t)].randargs
    /\ LET rv == decl[FnOf(t)].randargs[tasks[t].next]
           overrides == VarNames(rv.name) \cap DOMAIN KwdsOf(t)
           values == Candidates(rv, overrides, KwdsOf(t))
       IN  IF Cardinality(overrides) > 1 \/ values = {}     \* assert, ValueError
           THEN Fail(t) /\ UNCHANGED calls
           ELSE /\ \E v \in values :
                     tasks' = [tasks EXCEPT ![t].next = @ + 1, ![t].args = Over([k \in {rv.name} |-> v], @)]
                /\ Forget(t, Used(overrides))
    /\ UNCHANGED <<decl, undecorated>>

\* What is left is passed on, and Python checks the call of the function: no
\* name twice, and none that the function does not know.
Launch(t) ==
    /\ tasks[t].state = "picking"
    /\ tasks[t].next \notin DOMAIN decl[FnOf(t)].randargs
    /\ LET d == decl[FnOf(t)]
           fixed == Names(d.requires) \cup Names(d.locks)
           args == Over(KwdsOf(t), tasks[t].args)
       IN  IF DOMAIN args \subseteq (Names(d.randargs) \cup Plain[FnOf(t)]) \ fixed
           THEN tasks' = [tasks EXCEPT ![t].state = "running", ![t].args = args]
           ELSE Fail(t)
    /\ UNCHANGED <<decl, undecorated, calls>>

LaunchNext ==
    \/ \E f \in Fn : Decorate(f) \/ (\E kwds \in Kwds[f] : Call(f, kwds))
    \/ \E c \in DOMAIN calls : Schedule(c)
    \/ \E t \in DOMAIN tasks : TakeComponents(t) \/ PickArgument(t) \/ Launch(t)

LaunchSpec == LaunchInit /\ [][LaunchNext]_launchVars

-----------------------------------------------------------------------------
(* Properties *)

\* What a sequence may be declared with and called with: components of the
\* right types for its requirements, at most one override for each random
\* argument, values to choose from, and names that mean one thing.
Legal(f, given) ==
    LET d == decl[f]
        own == Names(d.requires) \cup Names(d.locks)
        rand == Names(d.randargs)
    IN  /\ \A i \in DOMAIN d.requires :
              /\ d.requires[i].name \in DOMAIN given
              /\ CompType[given[d.requires[i].name]] = d.requires[i].type
        /\ \A x \in rand :
              LET overrides == VarNames(x) \cap DOMAIN given
              IN  /\ Cardinality(overrides) <= 1
                  /\ \A k \in overrides : Overridden(k, given[k]) # {}
        /\ \A i \in DOMAIN d.randargs : Default(d.randargs[i]) # {}
        /\ DOMAIN given \subseteq
              Names(d.requires) \cup Plain[f] \cup UNION {VarNames(x) : x \in rand}
        /\ rand \cap own = {}

\* No earlier task was made from the same call.
First(t) == \A u \in 1 .. t - 1 : tasks[u].call # tasks[t].call

\* A legal call starts its sequence the first time that it is scheduled: the
\* deletions from the keywords take away what must not reach the function and
\* nothing else, whichever other sequences have been declared and started.
LegalCallStarts ==
    \A t \in DOMAIN tasks : First(t) /\ tasks[t].state = "failed" =>
        ~Legal(FnOf(t), calls[tasks[t].call].given)

\* What docs/sequences.md:382-388 promises of an override: a static value, a
\* value between two others, a number of bits, or one of some choices.
AsAsked(key, asked, value) ==
    CASE Mode(key) = "fixed"     -> value = asked
      [] Mode(key) = "range"     -> value \in asked[1] .. asked[2]
      [] Mode(key) = "bit_width" -> value \in 0 .. 2 ^ asked - 1
      [] Mode(key) = "choices"   -> \E i \in DOMAIN asked : value = asked[i]

\* A value that does justice to every override there is for the argument.
Honoured(rv, given, value) ==
    \A k \in VarNames(rv.name) \cap DOMAIN given : AsAsked(k, given[k], value)

\* "When providing an override" (docs/sequences.md): the first launch of a call
\* sees each random argument that the caller gave an override for as the caller
\* wanted it, and every other argument of the caller unchanged, although
\* keywords are taken out of the dictionary between the draws.  Of arguments
\* without an override it says nothing: a default of choices is a list of one
\* value, against docs/sequences.md:348 and 359.
OverridesHonoured ==
    \A t \in DOMAIN tasks : First(t) /\ tasks[t].state = "running" =>
        LET given == calls[tasks[t].call].given
            d == decl[FnOf(t)]
        IN  /\ \A i \in DOMAIN d.randargs :
                  Honoured(d.randargs[i], given, tasks[t].args[d.randargs[i].name])
            /\ \A k \in DOMAIN given \cap Plain[FnOf(t)] : tasks[t].args[k] = given[k]

\* A call that is scheduled again never starts with components and without the
\* overrides: what it needs is gone, so it fails, or it never had components
\* and all of its random arguments are by default.
RelaunchIsPlain ==
    \A t \in DOMAIN tasks : ~First(t) /\ tasks[t].state = "running" =>
        LET d == decl[FnOf(t)]
        IN  /\ d.requires = <<>>
            /\ \A i \in DOMAIN d.randargs :
                  tasks[t].args[d.randargs[i].name] \in Default(d.randargs[i])
=============================================================================
