---------------------------- MODULE MCLrWpanPhy ----------------------------
(***************************************************************************)
(* A small PHY: two frames (the one being received and one that disturbs   *)
(* it), a channel the hardware supports and one that it does not.          *)
(***************************************************************************)
EXTENDS LrWpanPhy

CONSTANTS f1, f2

MCFrames == {f1, f2}
MCChannels == {11, 27}
MCSupportedChannels == {11}
AllTrxRequests == {"RX_ON", "TRX_OFF", "FORCE_TRX_OFF", "TX_ON"}
\* The two states LrWpanMac asks for when macRxOnWhenIdle is set.
MacTrxRequests == {"RX_ON", "TX_ON"}
=============================================================================
