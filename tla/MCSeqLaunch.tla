----------------------------- MODULE MCSeqLaunch ------------------------------
(* A sequence that needs a driver and a lock, and one that needs neither.    *)
EXTENDS SeqLaunch, TLC

CONSTANTS drv, mon, traffic, mode, u, v

Random(name, how, arg) == [kind |-> "randargs", name |-> name, mode |-> how, arg |-> arg]
Needs(name, type) == [kind |-> "requires", name |-> name, type |-> type]
Lock(name) == [kind |-> "locks", name |-> name]
Declarations == [f \in Fn |-> IF f = traffic
    THEN <<Needs(<<"stream">>, "driver"), Lock(<<"cfg">>), Random(<<"length">>, "range", <<1, 3>>)>>
    ELSE <<Random(<<"x">>, "choices", <<u, v>>), Random(<<"x">>, "choices", <<u>>),
           Random(<<"n">>, "bit_width", 1)>>]
Defaults == [f \in Fn |-> IF f = mode THEN {<<"width">>} ELSE {}]
Types == drv :> "driver" @@ mon :> "monitor"
With(comp) == <<"stream">> :> comp
Keywords == [f \in Fn |-> IF f = traffic
    THEN {<<>>, With(mon), With(drv), With(drv) @@ <<"length">> :> 7,
          With(drv) @@ <<"length", "range">> :> <<4, 6>>,
          With(drv) @@ <<"length", "range">> :> <<4, 4>>,
          With(drv) @@ <<"length">> :> 7 @@ <<"length", "bit_width">> :> 1}
    ELSE {<<>>, <<"x">> :> v, <<"x", "choices">> :> <<u, v>> @@ <<"width">> :> 64,
          <<"n", "range">> :> <<3, 5>>, <<"depth">> :> 2}]
=============================================================================
