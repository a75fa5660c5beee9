---------------------------- MODULE MCLrWpanMac ----------------------------
(***************************************************************************)
(* One node and the kinds of frames its neighbours send: unicast data with *)
(* an ACK request, for this node or to be forwarded, a broadcast, a frame  *)
(* the filters reject, and an ACK.  One channel: the MAC never changes it. *)
(***************************************************************************)
EXTENDS LrWpanMac

Data(ackReq, transit) == [type |-> "data", accepted |-> TRUE, ackReq |-> ackReq,
                          broadcast |-> FALSE, transit |-> transit]
Broadcast == [type |-> "data", accepted |-> TRUE, ackReq |-> FALSE,
              broadcast |-> TRUE, transit |-> FALSE]
Foreign == [type |-> "data", accepted |-> FALSE, ackReq |-> TRUE,
              broadcast |-> FALSE, transit |-> FALSE]
Ack == [type |-> "ack", accepted |-> TRUE, ackReq |-> FALSE,
              broadcast |-> FALSE, transit |-> FALSE]
MCFrames == {Data(TRUE, FALSE), Data(TRUE, TRUE), Ack, Broadcast, Foreign}
TwoFrames == {Data(TRUE, FALSE), Ack}
None == {}
MCChannels == {11}
=============================================================================
