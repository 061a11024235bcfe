---------------------------- MODULE MCServerRun ----------------------------
(* An instance of ServerRun for TLC. *)
EXTENDS ServerRun

CONSTANTS c1, c2

\* Every combination of values on both sides of every boundary.
MCServerFiles ==
    [port  : {-1, 0, 1, 51820, 65535, 65536},
     key   : {<<"file", "k">>, <<"aws", "sm:k">>, <<"FILE", "k">>, <<"", "literal">>, <<"file", "">>},
     ip    : {<<"in", 1>>, <<"mapped", 1>>, <<"in", 2>>, <<"out", 1>>, <<"zero", 0>>,
              <<"mappedZero", 0>>, <<"bad", 0>>, <<"empty", 0>>},
     mtu   : {-1, 0, 1, 1279, 1280, 1500, 1501},
     peers : {"", "peers.yaml"},
     log   : {"", "json", "text", "xml"}]
=============================================================================
