--------------------------- MODULE MCDataOverWifi ---------------------------
(***************************************************************************)
(* The whole path for TLC: small messages, one try per scan and two per    *)
(* ack, a queue of one request at each access point.  Access points (and   *)
(* clients) are interchangeable.                                           *)
(***************************************************************************)
EXTENDS DataOverWifi, TLC

APSymmetry == Permutations(APs)

ClientSymmetry == Permutations(Clients)
=============================================================================
