--------------------------- MODULE MCRadiusClient ---------------------------
(***************************************************************************)
(* RadiusClient for TLC: two authentication servers with different         *)
(* secrets and one accounting server, or the other way round.              *)
(***************************************************************************)
EXTENDS RadiusClient

TwoAuth == [auth |-> <<"s1", "s2">>, acct |-> <<"s1">>]
TwoAcct == [auth |-> <<"s1">>, acct |-> <<"s1", "s2">>]
=============================================================================
