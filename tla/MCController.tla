---------------------------- MODULE MCController ----------------------------
(***************************************************************************)
(* The controller for TLC: three tcpclient runs.  Two carry the same frame *)
(* (a retry, or two access points that heard it), with a comma in its      *)
(* data; the third has a quotation mark in its data.                       *)
(***************************************************************************)
EXTENDS Controller, TLC

CONSTANTS p1, p2, p3

Rec(mac, ap, parts, quote) ==
    [mac |-> mac, ts |-> 1, ap |-> ap, seq |-> 0, parts |-> parts, quote |-> quote]

MCRecordOf ==
    p1 :> Rec("aa", 1, 2, FALSE) @@ p2 :> Rec("aa", 2, 2, FALSE)
        @@ p3 :> Rec("bb", 3, 1, TRUE)
=============================================================================
