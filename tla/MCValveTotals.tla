---------------------------- MODULE MCValveTotals ----------------------------
EXTENDS ValveTotals

MCLastBlock == [u \in Uploads |-> 1]

(* The counters and the uploads share nothing but the restarts of a node:  *)
(* they are explored one at a time.                                        *)
OneAtATime == posts = 0 \/ (polls = 0 /\ opened = PerValve(0) /\ written = {})
==============================================================================
