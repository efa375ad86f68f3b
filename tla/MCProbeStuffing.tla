--------------------------- MODULE MCProbeStuffing --------------------------
(***************************************************************************)
(* The client for TLC.  Dumps show no ack, one, or two, with numbers both  *)
(* of the frame being sent and of frames before and after it, as the scan  *)
(* cache of a client near several access points does.                      *)
(***************************************************************************)
EXTENDS ProbeStuffing

MCDumps == {<<>>, <<0>>, <<1>>, <<2>>, <<0, 1>>, <<1, 0>>}
=============================================================================
