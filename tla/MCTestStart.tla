----------------------------- MODULE MCTestStart ------------------------------
(* One bench, and a few parameter files, for TLC.                    *)
EXTENDS TestStart, TLC

CONSTANTS d1, d2, m1, p1, adata, aready, xready, xlast, tied, len, way

SomeOrders == {<<d1, d2, m1>>, <<m1, d2, d1>>, <<d1, d2>>}

\* The design has no xlast, and no component is registered for the bus of tied.  a is a bus on which the design responds, x one
\* that it initiates; adata is a struct of two fields, whose ranges are
\* told in two ways.
Ports == {adata, aready, xready, tied}
BusRoles == [s \in Signal |-> IF s \in {adata, aready, tied} THEN "RESPONDER" ELSE "INITIATOR"]
Sides == [s \in Signal |-> IF s \in {adata, xlast, tied} THEN "INITIATOR" ELSE "RESPONDER"]
OneBit == [w |-> 1, api |-> "none", left |-> 0, right |-> 0]
Fields == [s \in Signal |-> IF s = adata
    THEN <<[w |-> 2, api |-> "range", left |-> 0, right |-> 1],
           [w |-> 1, api |-> "_range", left |-> 0, right |-> 0]>>
    ELSE <<OneBit>>]
Buses == [c \in Component |-> IF c = m1 THEN {xready, xlast} ELSE {adata, aready, xlast}]
Writes == [c \in Component |-> IF c = d1 THEN {adata, xlast} ELSE {}]

One(type, text) == [list |-> FALSE, items |-> <<[type |-> type, text |-> text]>>]
Several(type, texts) ==
    [list |-> TRUE, items |-> [i \in DOMAIN texts |-> [type |-> type, text |-> texts[i]]]]
Casts == [p \in Param |-> "int"]
SomeFiles == {
    [own |-> len :> Several("int", <<"1", "2">>),
     shared |-> len :> One("int", "3") @@ way :> Several("str", <<"7", "8">>)],
    [own |-> len :> [list |-> TRUE, items |-> <<[type |-> "int", text |-> "1"], [type |-> "str", text |-> "1"]>>],
     shared |-> way :> One("str", "2")],
    [own |-> way :> Null, shared |-> way :> One("int", "5") @@ len :> One("int", "5")],
    [own |-> <<>>, shared |-> len :> Several("int", <<>>)]}
=============================================================================
