------------------------------ MODULE LrWpanMac ------------------------------
(***************************************************************************)
(* One node: the MAC of lr-wpan/mUnder_lr-wpan-mac.cc on the transceiver   *)
(* of LrWpanPhy and the channel access of LrWpanCsmaCa.                    *)
(*                                                                         *)
(* A call from one class into another is synchronous in the code.  Here    *)
(* the PHY leaves the callbacks it makes in conf, and the next step is the *)
(* MAC's handler of the first of them; a handler that calls the PHY back   *)
(* is always the last thing the calling PHY function does, or independent  *)
(* of what follows (CallbacksReenterLast).                                 *)
(*                                                                         *)
(* What the MAC schedules with ScheduleNow runs before time passes, but    *)
(* after whatever was scheduled earlier for the same time: any other event *)
(* may come first, except the end of what only begins now.                 *)
(*                                                                         *)
(* Other nodes are the environment: they put frames on the air at any      *)
(* time, whatever this node is doing.                                      *)
(***************************************************************************)
EXTENDS LrWpanPhy, LrWpanCsmaCa

CONSTANTS
    MaxFrameRetries,    \* m_macMaxFrameRetries
    IdleModes,          \* what SetRxOnWhenIdle is called with
    MaxRequests,        \* bound on MCPS-DATA requests, forwarded frames included
    MaxIncoming         \* bound on the frames other nodes send

\* Frames are what this node can receive: accepted says that PdDataIndication's
\* filters let it through, transit that its final destination is another node.  The
\* constants of the open modules for their users do not apply here, and the nodes of the
\* simulations use the unslotted algorithm: nothing calls SetSlottedCsmaCa.
ASSUME MacAssumption ==
    /\ Frames \subseteq [type : {"data", "ack"}, accepted : BOOLEAN, ackReq : BOOLEAN,
                         broadcast : BOOLEAN, transit : BOOLEAN]
    /\ \A f \in Frames : f.ackReq => ~f.broadcast
    /\ TrxRequests = {} /\ BEValues = {} /\ ~IsSlotted
    /\ MaxFrameRetries \in Nat /\ MaxRequests \in Nat /\ MaxIncoming \in Nat
    /\ IdleModes \subseteq BOOLEAN

VARIABLES
    macState,           \* m_lrWpanMacState
    txQueue,            \* m_txQueue
    txPkt,              \* m_txPkt
    retransmission,     \* m_retransmission
    setMacState,        \* m_setMacState: the state or call scheduled, or "none"
    ackWaitTimeout,     \* m_ackWaitTimeout is running
    rxOnWhenIdle,       \* m_macRxOnWhenIdle
    initialized,        \* DoInitialize has run
    macFault,           \* the NS_ASSERT or NS_FATAL_ERROR that ended the run
    confirms,           \* history: the MCPS-DATA confirms, in order
    requests,           \* history: how many requests were queued
    airings,            \* history: transmissions of the first queued frame
    owedAck,            \* history: the frame just received asked for an ACK
    incoming,           \* how many more frames the other nodes send
    begun,              \* the signals that began at the present time
    raced               \* history: a reception began at the time of a SendAck, before it

\* The transceiver but for conf, which a handler of a callback consumes.
trxRest   == <<trxVars, rxVars, air, txVars, ccaVars, edRequest, pib, fault>>
txState   == <<txQueue, txPkt, retransmission>>
timers    == <<setMacState, ackWaitTimeout>>
histVars  == <<confirms, requests, airings, owedAck>>
macRest   == <<rxOnWhenIdle, initialized, macFault, incoming>>
macVars   == <<macState, txState, timers, macRest, histVars>>
clock     == <<begun, raced>>
nodeVars  == <<phyVars, csmaVars, macVars, clock>>

NoPkt  == [id |-> 0, ackReq |-> FALSE, fits |-> TRUE]
AckPkt == [id |-> -1, ackReq |-> FALSE, fits |-> TRUE]

MacInit ==
    /\ PhyInit /\ CsmaInit
    /\ macState = "MAC_IDLE" /\ txQueue = <<>> /\ txPkt = NoPkt /\ retransmission = 0
    /\ setMacState = "none" /\ ackWaitTimeout = FALSE
    /\ rxOnWhenIdle = TRUE /\ initialized = FALSE /\ macFault = "none"
    /\ confirms = <<>> /\ requests = 0 /\ airings = 0 /\ owedAck = FALSE
    /\ incoming = MaxIncoming /\ begun = {} /\ raced = FALSE

Running == fault = "none" /\ macFault = "none"

\* An NS_ASSERT or NS_FATAL_ERROR of the MAC: the simulation ends here.
MacFail(f) ==
    /\ macFault' = f
    /\ UNCHANGED <<phyVars, csmaVars, macState, txState, timers, rxOnWhenIdle, initialized,
                   incoming, histVars>>

(***************************************************************************)
(* The transmit queue                                                      *)
(***************************************************************************)
\* Definitions named ...Slip are mutations of the one that follows them; no
\* specification uses them.
CheckQueueSlip(st, q, pkt, scheduled) ==
    IF st = "MAC_IDLE" /\ q # <<>> /\ pkt = NoPkt
    THEN txPkt' = Head(q) /\ setMacState' = "MAC_CSMA"
    ELSE txPkt' = pkt /\ setMacState' = scheduled

CheckQueueBackSlip(st, q, pkt, scheduled) ==
    IF st = "MAC_IDLE" /\ q # <<>> /\ pkt = NoPkt /\ scheduled = "none"
    THEN txPkt' = q[Len(q)] /\ setMacState' = "MAC_CSMA"
    ELSE txPkt' = pkt /\ setMacState' = scheduled

\* CheckQueue, reached with the queue q and the packet pkt in the MAC state st.
CheckQueue(st, q, pkt, scheduled) ==
    IF st = "MAC_IDLE" /\ q # <<>> /\ pkt = NoPkt /\ scheduled = "none"
    THEN txPkt' = Head(q) /\ setMacState' = "MAC_CSMA"
    ELSE txPkt' = pkt /\ setMacState' = scheduled

Frame(ackReq, fits) == [id |-> requests + 1, ackReq |-> ackReq, fits |-> fits]

\* A request that passed the checks of its parameters; one that did not is confirmed with
\* an error at once, queues nothing, and is no step here.  fits says that the frame with
\* its headers is no longer than aMaxPhyPacketSize.
McpsDataRequest(ackReq, fits) ==
    /\ requests < MaxRequests
    /\ requests' = requests + 1
    /\ txQueue' = Append(txQueue, Frame(ackReq, fits))
    /\ CheckQueue(macState, txQueue', txPkt, setMacState)
    /\ UNCHANGED <<phyVars, csmaVars, macState, retransmission, ackWaitTimeout, macRest,
                   confirms, airings, owedAck>>

ConfirmFirstSlip(status) ==
    /\ confirms' = Append(confirms, [id |-> Head(txQueue).id, status |-> status,
                                     aired |-> airings])
    /\ airings' = 0 /\ UNCHANGED retransmission

\* Confirm the first queued frame and RemoveFirstTxQElement.
ConfirmFirst(status) ==
    /\ confirms' = Append(confirms, [id |-> Head(txQueue).id, status |-> status,
                                     aired |-> airings])
    /\ retransmission' = 0 /\ airings' = 0

RetryLeftSlip == retransmission <= MaxFrameRetries
QueueLeftSlip == txQueue
PktLeftSlip   == txPkt

\* PrepareRetransmission, with the queue and m_txPkt it leaves.
RetryLeft == retransmission < MaxFrameRetries
QueueLeft == IF RetryLeft THEN txQueue ELSE Tail(txQueue)
PktLeft   == IF RetryLeft THEN txPkt ELSE NoPkt

PrepareRetransmission ==
    \/ RetryLeft /\ retransmission' = retransmission + 1 /\ UNCHANGED <<confirms, airings>>
    \/ ~RetryLeft /\ ConfirmFirst("NO_ACK")

(***************************************************************************)
(* Changes of the MAC state                                                *)
(***************************************************************************)
IdleTrxState == IF rxOnWhenIdle THEN "RX_ON" ELSE "TRX_OFF"

DoInitialize ==
    /\ ~initialized /\ initialized' = TRUE
    /\ PlmeSetTRXStateRequest(IdleTrxState)
    /\ UNCHANGED <<csmaVars, macState, txState, timers, rxOnWhenIdle, macFault, incoming,
                   histVars>>

SetRxOnWhenIdle(on) ==
    /\ rxOnWhenIdle' = on
    /\ IF macState = "MAC_IDLE" THEN PlmeSetTRXStateRequest(IF on THEN "RX_ON" ELSE "TRX_OFF")
                                ELSE UNCHANGED phyVars
    /\ UNCHANGED <<csmaVars, macState, txState, timers, initialized, macFault, incoming,
                   histVars>>

\* SetLrWpanMacState(st) with the queue q and the packet pkt, for the three states the
\* MAC itself moves to.
SetLrWpanMacState(st, q, pkt) ==
    /\ macState' = st
    /\ PlmeSetTRXStateRequest(IF st = "MAC_IDLE" THEN IdleTrxState ELSE "RX_ON")
    /\ IF st = "MAC_IDLE" THEN CheckQueue(st, q, pkt, "none")
                          ELSE txPkt' = pkt /\ setMacState' = "none"

CsmaAllowed == macState \in {"MAC_IDLE", "MAC_ACK_PENDING"}

\* m_setMacState runs.
RunSetMacState ==
    /\ setMacState \in {"MAC_IDLE", "MAC_ACK_PENDING", "MAC_CSMA"}
    /\ IF setMacState = "MAC_CSMA" /\ ~CsmaAllowed THEN MacFail("SetLrWpanMacState") ELSE
       /\ SetLrWpanMacState(setMacState, txQueue, txPkt)
       /\ UNCHANGED <<csmaVars, txQueue, retransmission, ackWaitTimeout, macRest, histVars>>

SendAck ==
    /\ setMacState = "SendAck"
    /\ IF macState # "MAC_IDLE" THEN MacFail("SendAck") ELSE
       /\ setMacState' = "none"
       /\ txPkt' = AckPkt
       /\ macState' = "MAC_SENDING" /\ PlmeSetTRXStateRequest("TX_ON")
       /\ UNCHANGED <<csmaVars, txQueue, retransmission, ackWaitTimeout, macRest, histVars>>

\* The wait takes time: it has not passed while the change that begins it is scheduled.
AckWaitTimeout ==
    /\ ackWaitTimeout /\ setMacState # "MAC_ACK_PENDING"
    /\ IF RetryLeft /\ ~CsmaAllowed THEN MacFail("SetLrWpanMacState") ELSE
       /\ ackWaitTimeout' = FALSE
       /\ PrepareRetransmission /\ txQueue' = QueueLeft
       /\ SetLrWpanMacState(IF RetryLeft THEN "MAC_CSMA" ELSE "MAC_IDLE", QueueLeft, PktLeft)
       /\ UNCHANGED <<csmaVars, macRest, requests, owedAck>>

CancelAckTimerSlip == UNCHANGED ackWaitTimeout
CancelAckTimer == ackWaitTimeout' = FALSE

(***************************************************************************)
(* The callbacks of the PHY                                                *)
(***************************************************************************)
Called(prim) == conf # <<>> /\ Head(conf).prim = prim
Status == Head(conf).status

\* The handler makes no call back into the PHY.
NoPhyCall == conf' = Tail(conf) /\ UNCHANGED trxRest

\* A data frame without a request for an ACK is delivered, forwarded or both.  The
\* frames other nodes send are not this node's own, which it would not forward.
Forwards(f) == f.type = "data" /\ (f.transit \/ f.broadcast)
ForwardedFrame(f) == Frame(~f.broadcast, TRUE)

ReceivePlain(f) ==
    /\ txQueue' = IF Forwards(f) THEN Append(txQueue, ForwardedFrame(f)) ELSE txQueue
    /\ IF Forwards(f) THEN /\ requests' = requests + 1
                           /\ CheckQueue(macState, txQueue', txPkt, setMacState)
                      ELSE UNCHANGED <<requests, txPkt, setMacState>>
    /\ UNCHANGED <<csmaVars, macState, retransmission, ackWaitTimeout, confirms, airings, owedAck>>

\* One with the request interrupts whatever the node was doing.
ReceiveAckReq(f) ==
    LET interrupts == macState = "MAC_ACK_PENDING"
        left == IF interrupts THEN QueueLeft ELSE txQueue
        pkt  == IF interrupts THEN PktLeft ELSE txPkt
    IN  /\ IF interrupts THEN PrepareRetransmission
                         ELSE UNCHANGED <<retransmission, confirms, airings>>
        /\ IF interrupts THEN CancelAckTimer ELSE UNCHANGED ackWaitTimeout
        /\ IF macState = "MAC_CSMA" THEN Cancel ELSE UNCHANGED csmaVars
        /\ macState' = "MAC_IDLE" /\ owedAck' = TRUE
        /\ IF Forwards(f)
           THEN /\ txQueue' = Append(left, ForwardedFrame(f)) /\ requests' = requests + 1
                /\ CheckQueue("MAC_IDLE", txQueue', pkt, "SendAck")
           ELSE /\ txQueue' = left /\ UNCHANGED requests
                /\ txPkt' = pkt /\ setMacState' = "SendAck"

\* An ACK names a sequence number and no node; expected says that it is the pending one's.
ReceiveAck(expected) ==
    /\ IF txPkt = NoPkt \/ macState # "MAC_ACK_PENDING"
       THEN UNCHANGED <<txState, timers, confirms, airings>>
       ELSE /\ CancelAckTimer
            /\ IF expected
               THEN /\ ConfirmFirst("SUCCESS") /\ txQueue' = Tail(txQueue) /\ txPkt' = NoPkt
                    /\ setMacState' = "MAC_IDLE"
               ELSE /\ PrepareRetransmission /\ txQueue' = QueueLeft /\ txPkt' = PktLeft
                    /\ setMacState' = IF RetryLeft THEN "MAC_CSMA" ELSE "MAC_IDLE"
    /\ UNCHANGED <<csmaVars, macState, requests, owedAck>>

PdDataIndication ==
    /\ Called("PdDataIndication")
    /\ IF macState = "MAC_SENDING" THEN MacFail("PdDataIndication") ELSE
       /\ \/ Status.accepted /\ Status.type = "data" /\ ~Status.ackReq /\ ReceivePlain(Status)
          \/ Status.accepted /\ Status.type = "data" /\ Status.ackReq /\ ReceiveAckReq(Status)
          \/ /\ Status.accepted /\ Status.type = "ack"
             /\ \E expected \in BOOLEAN : ReceiveAck(expected)
          \/ ~Status.accepted /\ UNCHANGED <<csmaVars, macState, txState, timers, histVars>>
       /\ NoPhyCall
       /\ UNCHANGED macRest

PdDataConfirm ==
    /\ Called("PdDataConfirm")
    /\ IF \/ macState # "MAC_SENDING" \/ txPkt = NoPkt
          \/ Status \notin {"SUCCESS", "UNSPECIFIED"}
          \/ Status = "SUCCESS" /\ txPkt.ackReq /\ ackWaitTimeout
       THEN MacFail("PdDataConfirm") ELSE
       /\ \/ /\ Status = "SUCCESS" /\ txPkt.ackReq
             /\ ackWaitTimeout' = TRUE /\ setMacState' = "MAC_ACK_PENDING"
             /\ UNCHANGED <<txState, confirms, airings>>
          \/ /\ txPkt # AckPkt /\ (Status = "SUCCESS" => ~txPkt.ackReq)
             /\ ConfirmFirst(IF Status = "SUCCESS" THEN "SUCCESS" ELSE "FRAME_TOO_LONG")
             /\ txQueue' = Tail(txQueue) /\ txPkt' = NoPkt
             /\ setMacState' = "MAC_IDLE" /\ UNCHANGED ackWaitTimeout
          \/ /\ txPkt = AckPkt
             /\ txPkt' = IF Status = "SUCCESS" THEN NoPkt ELSE txPkt
             /\ setMacState' = "MAC_IDLE"
             /\ UNCHANGED <<txQueue, retransmission, ackWaitTimeout, confirms, airings>>
       /\ NoPhyCall
       /\ UNCHANGED <<csmaVars, macState, macRest, requests, owedAck>>

\* The CSMA-CA object hears of it first; its verdict reaches SetLrWpanMacState, which
\* ignores it unless the MAC is in MAC_CSMA.
CcaConfirm ==
    /\ Called("PlmeCcaConfirm")
    /\ IF Verdict(Status) = "CHANNEL_ACCESS_FAILURE" /\ macState = "MAC_CSMA" /\ txPkt = NoPkt
       THEN MacFail("SetLrWpanMacState") ELSE
       /\ PlmeCcaConfirm(Status)
       /\ \/ /\ Verdict(Status) = "CHANNEL_IDLE" /\ macState = "MAC_CSMA"
             /\ macState' = "MAC_SENDING" /\ PlmeSetTRXStateRequest("TX_ON")
             /\ UNCHANGED <<txState, confirms, airings>>
          \/ /\ Verdict(Status) = "CHANNEL_ACCESS_FAILURE" /\ macState = "MAC_CSMA"
             /\ ConfirmFirst("CHANNEL_ACCESS_FAILURE")
             /\ txQueue' = Tail(txQueue) /\ txPkt' = NoPkt
             /\ macState' = "MAC_IDLE"
             /\ NoPhyCall
          \/ /\ Verdict(Status) = "none" \/ macState # "MAC_CSMA"
             /\ NoPhyCall /\ UNCHANGED <<macState, txState, confirms, airings>>
       /\ UNCHANGED <<timers, macRest, requests, owedAck>>

\* The statuses the MAC takes in its present state.
Expected ==
    CASE macState = "MAC_SENDING"     -> {"TX_ON", "SUCCESS"}
      [] macState = "MAC_IDLE"        -> {"RX_ON", "SUCCESS", "TRX_OFF"}
      [] OTHER                        -> {"RX_ON", "SUCCESS"}

PlmeSetTRXStateConfirm ==
    /\ Called("PlmeSetTRXStateConfirm")
    /\ IF Status \notin Expected \/ (macState = "MAC_SENDING" /\ txPkt = NoPkt)
       THEN MacFail("PlmeSetTRXStateConfirm") ELSE
       \/ /\ macState = "MAC_SENDING"
          /\ PdDataRequest(~txPkt.fits)
          /\ airings' = airings + (IF trxState' = "BUSY_TX" /\ txPkt # AckPkt THEN 1 ELSE 0)
          /\ owedAck' = (owedAck /\ ~(trxState' = "BUSY_TX" /\ txPkt = AckPkt))
          /\ UNCHANGED <<csmaVars, macState, txState, timers, macRest, confirms, requests>>
       \/ /\ macState = "MAC_CSMA" /\ Start
          /\ NoPhyCall /\ UNCHANGED macVars
       \/ /\ macState \in {"MAC_IDLE", "MAC_ACK_PENDING"}
          /\ NoPhyCall /\ UNCHANGED <<csmaVars, macVars>>

CallbackStep ==
    \/ PdDataIndication \/ PdDataConfirm \/ CcaConfirm \/ PlmeSetTRXStateConfirm

(***************************************************************************)
(* The node                                                                *)
(***************************************************************************)
\* What was scheduled for this very moment, once the callbacks have returned.
NowStep ==
    /\ conf = <<>>
    /\ \/ RunSetMacState
       \/ SendAck
       \/ RandomBackoffDelay /\ UNCHANGED <<phyVars, macVars>>

\* The timers of the three classes.
TimerStep ==
    /\ conf = <<>>
    /\ \/ EndSetTRXState /\ UNCHANGED <<csmaVars, macVars>>
       \/ EndTx /\ UNCHANGED <<csmaVars, macVars>>
       \/ EndCca /\ UNCHANGED <<csmaVars, macVars>>
       \/ RequestCCA /\ PlmeCcaRequest /\ UNCHANGED macVars
       \/ AckWaitTimeout

\* The signals of the other nodes.  One does not end at the time it begins.
FrameBegins(f) ==
    /\ conf = <<>> /\ incoming > 0 /\ incoming' = incoming - 1
    /\ StartRx(f)
    /\ UNCHANGED <<csmaVars, macState, txState, timers, rxOnWhenIdle, initialized, macFault,
                   histVars>>

FrameEnds(f) ==
    /\ conf = <<>> /\ f \notin begun
    /\ EndRx(f)
    /\ UNCHANGED <<csmaVars, macVars>>

EnvStep ==
    \/ \E f \in Frames : FrameBegins(f) \/ FrameEnds(f)
    \/ /\ conf = <<>>
       /\ \/ \E ackReq, fits \in BOOLEAN : McpsDataRequest(ackReq, fits)
          \/ \E on \in IdleModes : SetRxOnWhenIdle(on)

\* Time can only pass when no handler is running and nothing is scheduled for now.
TimePasses == conf = <<>> /\ setMacState = "none" /\ ~Scheduled(randomBackoff)

ClockStep ==
    /\ begun' = IF TimePasses' THEN {} ELSE begun \cup (air' \ air)
    /\ raced' = (raced \/ (setMacState = "SendAck" /\ rxFrame' \notin {rxFrame, NoFrame}))

NodeNext ==
    /\ Running
    /\ \/ DoInitialize
       \/ initialized /\ CallbackStep
       \/ initialized /\ NowStep
       \/ initialized /\ TimerStep
       \/ initialized /\ EnvStep
    /\ ClockStep

NodeSpec == MacInit /\ [][NodeNext]_nodeVars

\* ns-3 runs every event that is scheduled, the end of a signal on the air included, and
\* what is scheduled for now before any later time.  The application and the other nodes
\* need not do anything.
NodeFairSpec ==
    /\ NodeSpec
    /\ WF_nodeVars(Running /\ DoInitialize /\ ClockStep)
    /\ WF_nodeVars(Running /\ initialized /\ (CallbackStep \/ NowStep \/ TimerStep) /\ ClockStep)
    /\ \A f \in Frames : WF_nodeVars(Running /\ FrameEnds(f) /\ ClockStep)

-----------------------------------------------------------------------------
Ids == 1..(MaxRequests + MaxIncoming)

\* Type correctness of the members of the MAC and of the history of its confirms.
MacTypeOK ==
    /\ macState \in {"MAC_IDLE", "MAC_CSMA", "MAC_SENDING", "MAC_ACK_PENDING"}
    /\ txQueue \in Seq([id : Ids, ackReq : BOOLEAN, fits : BOOLEAN])
    /\ txPkt \in [id : Ids, ackReq : BOOLEAN, fits : BOOLEAN] \cup {NoPkt, AckPkt}
    /\ retransmission \in 0..MaxFrameRetries
    /\ setMacState \in {"none", "MAC_IDLE", "MAC_CSMA", "MAC_ACK_PENDING", "SendAck"}
    /\ ackWaitTimeout \in BOOLEAN /\ rxOnWhenIdle \in BOOLEAN /\ initialized \in BOOLEAN
    /\ confirms \in Seq([id : Ids, aired : Nat, status : {"SUCCESS", "NO_ACK",
                            "FRAME_TOO_LONG", "CHANNEL_ACCESS_FAILURE"}])
    /\ requests \in Nat /\ airings \in Nat /\ owedAck \in BOOLEAN /\ incoming \in Nat

\* No assertion, fatal error or abort of the MAC or of the PHY under it is reached, unless
\* a frame began to be received after PdDataIndication scheduled SendAck for the same time
\* and before SendAck ran: its end, during the ACK, switches BUSY_TX to RX_ON, and EndTx
\* aborts.
NoFault == Running \/ raced

\* A callback that may lead back into the PHY is the last one of its caller.
CallbacksReenterLast ==
    Len(conf) > 1 => Head(conf).prim \in {"PdDataIndication", "PdDataConfirm"}

\* While the MAC works on a frame, m_txPkt is the first of the queue: the one that is
\* confirmed and removed in the end is the one that was on the air.
OnAirIsFront ==
    \/ macState \in {"MAC_CSMA", "MAC_ACK_PENDING"} /\ setMacState = "none"
    \/ macState = "MAC_SENDING" /\ txPkt # AckPkt /\ setMacState = "none"
    \/ setMacState = "MAC_CSMA"
    => txQueue # <<>> /\ txPkt = Head(txQueue)

\* Requests are confirmed once each, in the order they were made, and none is lost.
ConfirmedInOrder ==
    /\ \A i \in 1..Len(confirms) : confirms[i].id = i
    /\ \A i \in 1..Len(txQueue) : txQueue[i].id = Len(confirms) + i
    /\ Len(confirms) + Len(txQueue) = requests

\* What a confirm says is what happened on the air.
ConfirmTrue ==
    \A i \in 1..Len(confirms) :
        /\ confirms[i].status = "SUCCESS" => confirms[i].aired \in 1..(MaxFrameRetries + 1)
        /\ confirms[i].status = "NO_ACK" => confirms[i].aired = MaxFrameRetries + 1
        /\ confirms[i].status = "FRAME_TOO_LONG" => confirms[i].aired = 0
        /\ confirms[i].status = "CHANNEL_ACCESS_FAILURE" => confirms[i].aired <= MaxFrameRetries

\* A frame that asked for an ACK gets one, whatever the node was doing: nothing
\* overwrites the scheduled SendAck or the packet it hands to the PHY.
OwedAckIsSent ==
    owedAck => setMacState = "SendAck" \/ (macState = "MAC_SENDING" /\ txPkt = AckPkt)

\* The ACK timer runs exactly while an ACK is awaited, so that no wait lasts forever and
\* no timeout hits the next frame: the NS_ASSERT that it has expired when a new wait
\* begins, and the one in SetLrWpanMacState when it leads back to channel access.
AckTimerOwned ==
    ackWaitTimeout <=>
        \/ macState = "MAC_ACK_PENDING" /\ setMacState = "none"
        \/ macState = "MAC_SENDING" /\ setMacState = "MAC_ACK_PENDING"

\* An ACK that is owed is on the air in the end.
OwedAckGoesOut == owedAck ~> ~owedAck

Starved == confirms # <<>> /\ confirms[Len(confirms)].status = "CHANNEL_ACCESS_FAILURE"

\* Every queued request is confirmed in the end, unless the node stops serving its queue
\* after a channel access failure, or the run ends as NoFault says.
QueueDrains == txQueue # <<>> ~> txQueue = <<>> \/ Starved \/ ~Running

(***************************************************************************)
(* What the source says of itself and the node does not do.                *)
(***************************************************************************)
\* CheckQueue: "If there are packets in the transmission queue and the MAC is idle, pick
\* the first one and initiate a packet transmission."
IdleMacServesQueue ==
    macState = "MAC_IDLE" /\ txQueue # <<>> ~>
        macState = "MAC_CSMA" \/ txQueue = <<>> \/ ~Running

\* PlmeCcaConfirm of the CSMA-CA class: "If the CSMA algorithm was canceled, we could
\* still receive this event from the PHY. In this case we ignore the event."  No backoff
\* is running while the MAC sends an ACK, for which it cancelled the algorithm.
CancelledRunEnds ==
    macState = "MAC_SENDING" /\ txPkt = AckPkt => ~Scheduled(randomBackoff)
=============================================================================
