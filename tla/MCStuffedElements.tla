-------------------------- MODULE MCStuffedElements -------------------------
(***************************************************************************)
(* One frame for TLC, with the limits of the code: every length up to a    *)
(* full frame, and some messages that need more than one.                  *)
(***************************************************************************)
EXTENDS StuffedElements

MCMsgLens == 1 .. 1394 \cup {1395, 2787, 2788, 2789}

\* SSID, rates, and a short vendor-like element before; one after.
MCBefore == <<0, 8, 1>>
MCAfter == <<4>>
=============================================================================
