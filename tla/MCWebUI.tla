------------------------------- MODULE MCWebUI -------------------------------
(* A small instance of the web page: what browsers ask for, addresses and    *)
(* samples at the boundaries.                                                *)
EXTENDS WebUI

MCWishes ==
  LET tags == {<<"de", "ch">>, <<"no", "no">>, <<"zh", "tw">>, <<"zh">>, <<"he", "il">>,
               <<"sv", "fi">>, <<"xx">>}
  IN {<<English>>} \cup {<<a, b>> : a, b \in tags}

MCAddresses == {<<a, b, c, d>> : a \in {192}, b \in {0, 168}, c \in {0, 129, 255},
                                 d \in {0, 1, 200, 255}}
MCPrefixes  == {-1, 0, 1, 2, 8, 9, 23, 24, 25, 30, 31, 32, 33}
MCSamples   == [ts : 1..3, rtt : {0, 9, 46, 47, 93, 1000}]
=============================================================================
