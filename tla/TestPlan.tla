------------------------------- MODULE TestPlan -------------------------------
(***************************************************************************)
(* From the parameter file to the testcases (forastero/bench.py: the       *)
(* decorators testcase and parameter).  Each declared parameter is looked  *)
(* up for the testcase, then for all testcases; a list of values stands    *)
(* for several testcases, one for each combination, which are put into the *)
(* module under a name made of the values.                                 *)
(*                                                                         *)
(* A value of the file is a list of scalars [type, text] with a flag that  *)
(* tells a JSON list from a single scalar; null is a value, too.           *)
(*                                                                         *)
(* The files are such that every cast succeeds: a ValueError of the type   *)
(* or of strtobool ends the import of the module, and there is no testcase *)
(* at all.  And no text in them holds an underscore: the name is joined    *)
(* with underscores, so texts with underscores of their own can give two   *)
(* combinations one name, and what they look like differs all the same.    *)
(***************************************************************************)
EXTENDS Naturals, Sequences, Functions, FiniteSetsExt

CONSTANTS
    Param,      \* the declared parameters
    Cast,       \* Cast[p]: the type that p is declared with
    Files,      \* parameter files: [own, shared], functions from parameters
    Null        \* the JSON value null, None in Python

ASSUME CastAssumption == DOMAIN Cast = Param

VARIABLES
    file,       \* the parameter file
    todo,       \* combinations for which no testcase was made yet
    made,       \* the testcases in the module: parameters by name
    chosen      \* the testcase that runs: its parameters, or Null

planVars == <<file, todo, made, chosen>>

-----------------------------------------------------------------------------
\* "<TESTCASE>.<PARAMETER>", and "<PARAMETER>" if there is none.
Lookup(f, p) == IF p \in DOMAIN f.own THEN f.own[p]
                ELSE IF p \in DOMAIN f.shared THEN f.shared[p] ELSE Null

\* What the function's defaults do not have to provide.
Given(f) == {p \in Param : Lookup(f, p) # Null}

\* Only a string is cast, and a list is no string, whatever is in it.
CastTo(p, v) == IF v.type = "str" THEN [v EXCEPT !.type = Cast[p]] ELSE v
Values(f, p) == LET v == Lookup(f, p)
                IN  IF v.list THEN v.items ELSE <<CastTo(p, v.items[1])>>

\* itertools.product: one index for each parameter.
Combinations(f) ==
    {c \in [Given(f) -> 1 .. Max({0} \cup {Len(Values(f, p)) : p \in Given(f)})] :
        \A p \in Given(f) : c[p] <= Len(Values(f, p))}
Chosen(f, c) == [p \in Given(f) |-> Values(f, p)[c[p]]]

\* The name shows the parameters as text, and only if there are several
\* combinations.  (Without underscores in the texts, the joined name tells
\* what the text of each parameter is.)
NameMutant(f, c) == [p \in {q \in Given(f) : Lookup(f, q).list} |-> ""]
Name(f, c) == IF Cardinality(Combinations(f)) = 1 THEN <<>>
              ELSE [p \in Given(f) |-> Chosen(f, c)[p].text]

PlanInit ==
    /\ file \in Files
    /\ todo = Combinations(file)
    /\ made = <<>> /\ chosen = Null

\* One turn of the loop over the combinations: setattr replaces what is there.
\* (The order of the loop is left open.)
MakeTest(c) ==
    /\ todo' = todo \ {c}
    /\ made' = [n \in DOMAIN made \cup {Name(file, c)} |->
                  IF n = Name(file, c) THEN Chosen(file, c) ELSE made[n]]
    /\ UNCHANGED <<file, chosen>>

\* cocotb runs the testcases that it finds; here one of them.
RunTest(n) ==
    /\ todo = {} /\ chosen = Null
    /\ chosen' = made[n]
    /\ UNCHANGED <<file, todo, made>>

PlanNext == (\E c \in todo : MakeTest(c)) \/ (\E n \in DOMAIN made : RunTest(n))

-----------------------------------------------------------------------------
(* Properties *)

\* Two combinations that look the same as text.
Alike(f, c, d) == c # d /\ \A p \in Given(f) : Chosen(f, c)[p].text = Chosen(f, d)[p].text

\* No combination is lost: in the end there is a testcase for each, with
\* exactly its values, unless two of them look alike.  (For files whose
\* values can be cast and have no underscore.)
EveryCombinationRuns ==
    todo = {} => \A c \in Combinations(file) :
        (\A d \in Combinations(file) : ~Alike(file, c, d)) =>
            \E n \in DOMAIN made : made[n] = Chosen(file, c)
=============================================================================
