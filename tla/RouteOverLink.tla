---------------------------- MODULE RouteOverLink ----------------------------
(***************************************************************************)
(* Several nodes with the route-over MAC (lr-wpan/rOver_lr-wpan-mac.cc) on *)
(* one channel: requests, retransmissions and acknowledgments between      *)
(* them.  The transceiver and CSMA-CA are reduced to what the MAC sees of  *)
(* them, an answer some time after it asked; LrWpanMac has them in detail. *)
(* A handler is an operator from the members of a node to their new        *)
(* values.  What is scheduled with ScheduleNow, and the propagation of a   *)
(* frame, happen before any timer, backoff or transmission ends.           *)
(***************************************************************************)
EXTENDS Integers, Sequences, FiniteSets

CONSTANTS
    Nodes,
    Everyone,           \* the broadcast address ff:ff
    MaxFrameRetries,    \* m_macMaxFrameRetries
    DsnModulus,         \* m_macDsn is a SequenceNumber8: 256 in the code
    FirstDsn,           \* the numbers a node may draw to start from: all of them in the code
    MaxRequests         \* bound on MCPS-DATA requests, of all nodes together

ASSUME LinkAssumption ==
    /\ Everyone \notin Nodes /\ MaxFrameRetries \in Nat /\ MaxRequests \in Nat /\ DsnModulus \in Nat \ {0}
    /\ FirstDsn \subseteq 0..(DsnModulus - 1)

VARIABLES
    node,               \* the members of each LrWpanMac
    air,                \* what a node is transmitting
    arriving,           \* what a node has just received to the end
    delivered           \* history: the frames requested, how often each was passed up at its address

linkVars == <<node, air, arriving, delivered>>

\* ack: the acknowledgment request bit; long: the frame passed the size test of the request
\* and is too long with its header.  An ACK names no node.
Frame ==
    [kind : {"data"}, id : 1..MaxRequests, src : Nodes, dst : Nodes \cup {Everyone},
     ack : BOOLEAN, long : BOOLEAN, dsn : 0..(DsnModulus - 1)]
Ack(d)  == [kind |-> "ack", dsn |-> d]
NoFrame == [kind |-> "none"]

\* mac: m_lrWpanMacState; tx: m_txPkt; retr: m_retransmission; next: m_setMacState, the
\* state or call scheduled; timer: m_ackWaitTimeout; log: history, the confirms.
Fresh(d) ==
    [mac |-> "IDLE", queue |-> <<>>, tx |-> NoFrame, retr |-> 0, next |-> "none",
     ackDsn |-> 0, timer |-> FALSE, dsn |-> d, log |-> <<>>]

LinkInit ==
    /\ \E d \in [Nodes -> FirstDsn] : node = [n \in Nodes |-> Fresh(d[n])]
    /\ air = [n \in Nodes |-> NoFrame] /\ arriving = [n \in Nodes |-> NoFrame]
    /\ delivered = <<>>

-----------------------------------------------------------------------------
(* The handlers. *)

CheckQueue(s) ==
    IF s.mac = "IDLE" /\ s.queue # <<>> /\ s.tx = NoFrame /\ s.next = "none"
    THEN [s EXCEPT !.tx = Head(s.queue), !.next = "CSMA"]
    ELSE s

\* The confirm, and RemoveFirstTxQElement.
Finish(s, status) ==
    [s EXCEPT !.log = Append(@, [id |-> Head(s.queue).id, status |-> status]),
              !.queue = Tail(@), !.tx = NoFrame, !.retr = 0]

\* PrepareRetransmission: true if there is an attempt left.
AttemptLeft(s) == s.retr < MaxFrameRetries
PrepareRetransmission(s) ==
    IF AttemptLeft(s) THEN [s EXCEPT !.retr = @ + 1] ELSE Finish(s, "NO_ACK")

\* SetLrWpanMacState for the states the MAC asks for itself.
SetState(s, state) ==
    IF state = "IDLE" THEN CheckQueue([s EXCEPT !.mac = "IDLE"]) ELSE [s EXCEPT !.mac = state]

\* SendAck overwrites m_txPkt, which may be the first frame of the queue.
SendAck(s) == [s EXCEPT !.tx = Ack(s.ackDsn), !.mac = "SENDING"]

RunScheduled(s) ==
    LET t == [s EXCEPT !.next = "none"]
    IN  IF s.next = "SendAck" THEN SendAck(t) ELSE SetState(t, s.next)

AckWaitTimeout(s) ==
    LET t == PrepareRetransmission([s EXCEPT !.timer = FALSE])
    IN  SetState(t, IF AttemptLeft(s) THEN "CSMA" ELSE "IDLE")

ReceiveDataSlip(s, f) ==
    LET t == IF s.mac = "ACK_PENDING" THEN PrepareRetransmission(s) ELSE s
    IN  [t EXCEPT !.mac = "IDLE", !.next = "SendAck", !.ackDsn = f.dsn]

\* PdDataIndication of a data frame for this node that asks for an ACK: whatever the node
\* was doing, the ACK is next.
ReceiveData(s, f) ==
    LET t == IF s.mac = "ACK_PENDING" THEN PrepareRetransmission([s EXCEPT !.timer = FALSE]) ELSE s
    IN  [t EXCEPT !.mac = "IDLE", !.next = "SendAck", !.ackDsn = f.dsn]

ReceiveAckSlip(s, d) ==
    IF ~(s.tx # NoFrame /\ s.mac = "ACK_PENDING")
    THEN s
    ELSE [Finish([s EXCEPT !.timer = FALSE], "SUCCESS") EXCEPT !.next = "IDLE"]

\* PdDataIndication of an ACK: any node that waits for one takes it.
ReceiveAck(s, d) ==
    LET t == [s EXCEPT !.timer = FALSE]
    IN  IF ~(s.tx # NoFrame /\ s.mac = "ACK_PENDING") THEN s
        ELSE IF s.tx.dsn = d THEN [Finish(t, "SUCCESS") EXCEPT !.next = "IDLE"]
        ELSE [PrepareRetransmission(t) EXCEPT !.next = IF AttemptLeft(s) THEN "CSMA" ELSE "IDLE"]

PdDataConfirmSlip(s) ==
    CASE s.tx.kind = "ack" -> [s EXCEPT !.next = "IDLE"]
      [] s.tx.kind # "ack" /\ s.tx.long -> [Finish(s, "FRAME_TOO_LONG") EXCEPT !.next = "IDLE"]
      [] s.tx.kind # "ack" /\ ~s.tx.long /\ ~s.tx.ack ->
           [Finish(s, "SUCCESS") EXCEPT !.next = "IDLE"]
      [] OTHER -> [s EXCEPT !.timer = TRUE, !.next = "ACK_PENDING"]

\* Status UNSPECIFIED for a frame that is too long, else SUCCESS.
PdDataConfirm(s) ==
    CASE s.tx.kind = "ack" -> [s EXCEPT !.tx = NoFrame, !.next = "IDLE"]
      [] s.tx.kind # "ack" /\ s.tx.long -> [Finish(s, "FRAME_TOO_LONG") EXCEPT !.next = "IDLE"]
      [] s.tx.kind # "ack" /\ ~s.tx.long /\ ~s.tx.ack ->
           [Finish(s, "SUCCESS") EXCEPT !.next = "IDLE"]
      [] OTHER -> [s EXCEPT !.timer = TRUE, !.next = "ACK_PENDING"]

-----------------------------------------------------------------------------
(* The steps. *)

Put(n, s) == node' = [node EXCEPT ![n] = s]
NothingArrives == \A n \in Nodes : arriving[n] = NoFrame
Settled == NothingArrives /\ \A n \in Nodes : node[n].next = "none"

\* A frame for everyone asks for no ACK, whatever the option says.
Request(n, d, long, ackOption) ==
    [kind |-> "data", id |-> Len(delivered) + 1, src |-> n, dst |-> d,
     ack |-> ackOption /\ d # Everyone, long |-> long, dsn |-> node[n].dsn]

\* McpsDataRequest whose size, address modes and options pass its tests; ackOption is
\* TX_OPTION_ACK.
McpsDataRequest(n, d, long, ackOption) ==
    LET f == Request(n, d, long, ackOption) IN
        /\ NothingArrives /\ Len(delivered) < MaxRequests
        /\ Put(n, CheckQueue([node[n] EXCEPT !.queue = Append(@, f), !.dsn = (@ + 1) % DsnModulus]))
        /\ delivered' = Append(delivered, [count |-> 0, frame |-> f])
        /\ UNCHANGED <<air, arriving>>

\* One that does not pass is confirmed at once; its sequence number is used up.
McpsDataRequestFails(n) ==
    LET f == Request(n, Everyone, TRUE, FALSE) IN
        /\ NothingArrives /\ Len(delivered) < MaxRequests
        /\ Put(n, [node[n] EXCEPT !.log = Append(@, [id |-> f.id, status |-> "INVALID"]),
                                  !.dsn = (@ + 1) % DsnModulus])
        /\ delivered' = Append(delivered, [count |-> 0, frame |-> f])
        /\ UNCHANGED <<air, arriving>>

Scheduled(n) ==
    /\ NothingArrives /\ node[n].next # "none"
    /\ Put(n, RunScheduled(node[n]))
    /\ UNCHANGED <<air, arriving, delivered>>

\* CSMA-CA answers: the transmitter is switched on, or the frame is dropped, and then
\* nothing looks at the queue.
ChannelVerdict(n, idle) ==
    /\ Settled /\ node[n].mac = "CSMA"
    /\ Put(n, IF idle THEN [node[n] EXCEPT !.mac = "SENDING"]
              ELSE [Finish(node[n], "CHANNEL_ACCESS_FAILURE") EXCEPT !.mac = "IDLE"])
    /\ UNCHANGED <<air, arriving, delivered>>

\* PlmeSetTRXStateConfirm (TX_ON), and PdDataRequest of the PHY, which refuses a long frame.
StartTx(n) ==
    /\ Settled /\ node[n].mac = "SENDING" /\ air[n] = NoFrame
    /\ IF node[n].tx.kind = "data" /\ node[n].tx.long
       THEN Put(n, PdDataConfirm(node[n])) /\ UNCHANGED air
       ELSE air' = [air EXCEPT ![n] = node[n].tx] /\ UNCHANGED node
    /\ UNCHANGED <<arriving, delivered>>

\* The transmission ends; nodes that do not transmit may or may not have received it.
EndTx(n, hearers) ==
    /\ Settled /\ air[n] # NoFrame /\ air' = [air EXCEPT ![n] = NoFrame]
    /\ \A h \in hearers : node[h].mac # "SENDING"
    /\ arriving' = [h \in Nodes |-> IF h \in hearers THEN air[n] ELSE NoFrame]
    /\ Put(n, PdDataConfirm(node[n]))
    /\ UNCHANGED delivered

\* A frame that asks for no ACK is passed up and leaves the node as it is.
PdDataIndication(n) ==
    LET f == arriving[n]
    IN  /\ f # NoFrame /\ arriving' = [arriving EXCEPT ![n] = NoFrame]
        /\ CASE f.kind = "ack" -> Put(n, ReceiveAck(node[n], f.dsn)) /\ UNCHANGED delivered
             [] f.kind # "ack" /\ f.dst = n ->
                  /\ Put(n, IF f.ack THEN ReceiveData(node[n], f) ELSE node[n])
                  /\ delivered' = [delivered EXCEPT ![f.id].count = @ + 1]
             [] OTHER -> UNCHANGED <<node, delivered>>
        /\ UNCHANGED air

Timeout(n) ==
    /\ Settled /\ node[n].timer
    /\ Put(n, AckWaitTimeout(node[n]))
    /\ UNCHANGED <<air, arriving, delivered>>

Work(n) ==
    \/ Scheduled(n) \/ StartTx(n) \/ PdDataIndication(n) \/ Timeout(n)
    \/ \E idle \in BOOLEAN : ChannelVerdict(n, idle)
    \/ \E hearers \in SUBSET (Nodes \ {n}) : EndTx(n, hearers)

LinkNext ==
    \E n \in Nodes :
        \/ Work(n)
        \/ \E d \in (Nodes \ {n}) \cup {Everyone}, long, ackOption \in BOOLEAN :
              McpsDataRequest(n, d, long, ackOption)
        \/ McpsDataRequestFails(n)

LinkSpec == LinkInit /\ [][LinkNext]_linkVars

\* The simulator runs every event it has.
LinkFairSpec == LinkSpec /\ WF_linkVars(\E n \in Nodes : Work(n))

-----------------------------------------------------------------------------
LinkTypeOK ==
    /\ \A n \in Nodes :
         /\ node[n].mac \in {"IDLE", "CSMA", "SENDING", "ACK_PENDING"}
         /\ node[n].next \in {"none", "IDLE", "CSMA", "ACK_PENDING", "SendAck"}
         /\ node[n].retr \in 0..MaxFrameRetries /\ node[n].dsn \in 0..(DsnModulus - 1)
         /\ \A i \in DOMAIN node[n].queue : node[n].queue[i] \in Frame

\* The asserts of the MAC and what they rely on, between events: it contends for, or waits
\* for the ACK of, the first frame of its queue only; it sends only what it has; the timer
\* runs only while it waits, and always then; an ACK is scheduled in state IDLE.
MacConsistent ==
    /\ LinkTypeOK
    /\ \A n \in Nodes : LET s == node[n] IN
          /\ s.next = "none" =>
               /\ s.mac \in {"CSMA", "ACK_PENDING"} => s.queue # <<>> /\ s.tx = Head(s.queue)
               /\ s.mac = "SENDING" => s.tx # NoFrame
               /\ s.timer <=> s.mac = "ACK_PENDING"
          /\ s.next = "SendAck" => s.mac = "IDLE"

\* The nodes together implement the data service.
Service == INSTANCE LinkService WITH
    MaxAttempts <- MaxFrameRetries + 1,
    pending <- [n \in Nodes |-> node[n].queue],
    log <- [n \in Nodes |-> node[n].log]
ServiceSpec == Service!Spec

\* Every request is confirmed, unless a channel access failure has left the rest of the
\* queue to the next request that is not refused.
LastFailed(n) ==
    LET l == node[n].log
    IN  \E i \in DOMAIN l :
            /\ l[i].status = "CHANNEL_ACCESS_FAILURE"
            /\ \A j \in (i + 1)..Len(l) : l[j].status = "INVALID"
RequestsConfirmed == \A n \in Nodes : node[n].queue # <<>> ~> node[n].queue = <<>> \/ LastFailed(n)
===============================================================================
