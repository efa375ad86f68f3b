--------------------------- MODULE MCHostapdProbe ---------------------------
(***************************************************************************)
(* The access point for TLC: two clients that stuff frames (one of them    *)
(* two frames) and a station that only probes.                             *)
(***************************************************************************)
EXTENDS HostapdProbe

CONSTANTS c1, c2, sta

F(c, n) == [sa |-> c, seq |-> n]

MCRequests ==
    {[sa |-> c1, stuffed |-> F(c1, 0)], [sa |-> c1, stuffed |-> F(c1, 1)],
     [sa |-> c2, stuffed |-> F(c2, 0)], [sa |-> sta, stuffed |-> NoData]}
=============================================================================
