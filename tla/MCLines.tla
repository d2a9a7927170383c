------------------------------ MODULE MCLines ------------------------------
(***************************************************************************)
(* Two masks, one inside the other, and connections that either matches.   *)
(***************************************************************************)
EXTENDS Lines

MCMask == {"one", "all"}
MCIncludes == {<<"one", "one">>, <<"all", "all">>, <<"all", "one">>}
MCHits == {<<"one", "here">>, <<"all", "here">>, <<"all", "there">>}
MCConfResv == {<<"CRESV", "one">>}
MCProfile ==
    {[who |-> "here", kline_exempt |-> FALSE, gline_exempt |-> FALSE],
     [who |-> "there", kline_exempt |-> FALSE, gline_exempt |-> FALSE],
     [who |-> "there", kline_exempt |-> TRUE, gline_exempt |-> FALSE],
     [who |-> "there", kline_exempt |-> FALSE, gline_exempt |-> TRUE]}
MCThemes ==
    {{<<"KLINE", "one">>, <<"KLINE", "all">>, <<"XLINE", "one">>},
     {<<"DLINE", "all">>, <<"RKLINE", "all">>},
     {<<"GLINE", "all">>, <<"RXLINE", "all">>},
     {<<"NRESV", "one">>, <<"NRESV", "all">>, <<"CRESV", "all">>}}
=============================================================================
