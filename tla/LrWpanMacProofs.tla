--------------------------- MODULE LrWpanMacProofs ---------------------------
(***************************************************************************)
(* The node of LrWpanMac, for any frames, retries, requests and neighbours *)
(* and any events that share the time of a ScheduleNow: its assertions are *)
(* never reached, the frame on the air is the first of the queue, requests *)
(* are confirmed once each, in order and truthfully, and an                *)
(* acknowledgement that is owed is sent.  All follow from NodeInv, which   *)
(* holds until a reception begins at the time of a SendAck (raced).        *)
(***************************************************************************)
EXTENDS LrWpanMac, SequenceTheorems, TLAPS

Pkts == [id : Ids, ackReq : BOOLEAN, fits : BOOLEAN]

\* The first callback that waits for the MAC.
Kind == IF conf = <<>> THEN "none" ELSE Head(conf).prim

\* The transceiver: with this user a frame is received exactly in BUSY_RX, a frame is
\* sent exactly in BUSY_TX, and a turnaround is neither.
PhyOK ==
    /\ trxState \in TrxStates /\ setTRXState \in BOOLEAN
    /\ rxFrame \in Frames \cup {NoFrame} /\ air \subseteq Frames
    /\ rxFrame # NoFrame <=> trxState = "BUSY_RX"
    /\ setTRXState => /\ trxState \notin {"BUSY_RX", "BUSY_TX"}
                      /\ trxStatePending \in {"RX_ON", "TX_ON"}
    /\ ~setTRXState => \/ trxStatePending = "IDLE"
                       \/ trxStatePending = "TRX_OFF" /\ trxState = "BUSY_RX"
    /\ trxState = "BUSY_RX" => ~rxCorrupt
    /\ pdDataRequest \in BOOLEAN /\ (pdDataRequest <=> trxState = "BUSY_TX")
    /\ trxState = "BUSY_TX" => ~txAborted
    /\ staleEndTx = 0 /\ edRequest = FALSE /\ fault = "none"

\* What the callbacks under way say, and when.
Indication(f) == Callback("PdDataIndication", f)

\* Nothing is scheduled for now, but for the channel access of a request made just now.
FreeToReceive == setMacState = "none" \/ (macState = "MAC_IDLE" /\ setMacState = "MAC_CSMA")

ConfOK ==
    \/ conf = <<>>
    \/ /\ conf = <<Callback("PlmeCcaConfirm", Status)>>
       /\ Status = "IDLE" => trxState \notin {"BUSY_RX", "BUSY_TX"}
    \/ conf = Trx(Status) /\ Status \in Expected
    \/ /\ \/ conf = <<Indication(Status)>>
          \/ conf = <<Indication(Status), Callback("PlmeSetTRXStateConfirm", "SUCCESS")>>
       /\ Status \in Frames /\ rxFrame = NoFrame
       /\ macState # "MAC_SENDING" /\ FreeToReceive
    \/ /\ conf = <<Callback("PdDataConfirm", Status)>>
       /\ macState = "MAC_SENDING" /\ setMacState = "none"
       /\ Status = IF txPkt.fits THEN "SUCCESS" ELSE "UNSPECIFIED"

\* What the transceiver does in each state of the MAC.  While it sends: turning round,
\* ready, on the air, and done.
SendingOK ==
    \/ /\ setMacState = "none" /\ Kind \in {"none", "PlmeCcaConfirm"}
       /\ setTRXState /\ trxStatePending = "TX_ON"
    \/ /\ setMacState = "none" /\ Kind = "PlmeSetTRXStateConfirm" /\ Status = "TX_ON"
       /\ trxState = "TX_ON" /\ ~setTRXState
    \/ /\ setMacState = "none" /\ Kind \in {"none", "PlmeCcaConfirm"}
       /\ trxState = "BUSY_TX" /\ txPkt.fits
    \/ /\ setMacState = "none" => Kind = "PdDataConfirm"
       /\ setMacState # "none" => Kind \in {"none", "PlmeCcaConfirm"}
       /\ trxState = "TX_ON" /\ ~setTRXState

LinkOK ==
    /\ macState = "MAC_SENDING" => SendingOK
    /\ macState # "MAC_SENDING" => /\ trxState # "BUSY_TX"
                                   /\ setTRXState => trxStatePending = "RX_ON"
    /\ setMacState = "SendAck" => rxFrame = NoFrame
    /\ ~initialized => macState = "MAC_IDLE" /\ setMacState = "none" /\ trxState = "TRX_OFF"

\* The packet in hand, by the MAC's state and what is scheduled.
Queued == txQueue # <<>> /\ txPkt = Head(txQueue)
Awaited == Queued /\ txPkt.ackReq /\ txPkt.fits

PktOK ==
    /\ macState = "MAC_IDLE" =>
         \/ setMacState = "none" /\ txPkt = NoPkt
         \/ setMacState = "MAC_CSMA" /\ Queued
         \/ setMacState = "SendAck" /\ (txPkt = NoPkt \/ Queued)
    /\ macState = "MAC_CSMA" => setMacState = "none" /\ Queued
    /\ macState = "MAC_SENDING" =>
         \/ setMacState = "none" /\ (txPkt = AckPkt \/ Queued)
         \/ setMacState = "MAC_IDLE" /\ txPkt = NoPkt
         \/ setMacState = "MAC_ACK_PENDING" /\ Awaited
    /\ macState = "MAC_ACK_PENDING" =>
         \/ setMacState \in {"none", "MAC_CSMA"} /\ Awaited
         \/ setMacState = "MAC_IDLE" /\ txPkt = NoPkt

\* The first queued frame has been on the air as often as it was tried again, and once
\* more from the moment a transmission of it begins until it is given up or retried.
Aired ==
    \/ /\ macState = "MAC_SENDING" /\ txPkt # AckPkt
       /\ \/ trxState = "BUSY_TX"
          \/ Kind = "PdDataConfirm" /\ txPkt.fits
          \/ setMacState = "MAC_ACK_PENDING"
    \/ macState = "MAC_ACK_PENDING" /\ setMacState = "none"

AiredOK ==
    /\ retransmission \in 0..MaxFrameRetries
    /\ airings = retransmission + (IF Aired THEN 1 ELSE 0)
    /\ txQueue = <<>> \/ ~Head(txQueue).fits => airings = 0

OwedOK ==
    owedAck => \/ setMacState = "SendAck"
               \/ /\ macState = "MAC_SENDING" /\ setMacState = "none" /\ txPkt = AckPkt
                  /\ trxState # "BUSY_TX" /\ Kind # "PdDataConfirm"

\* A frame that may still have to be forwarded counts among the incoming ones.
Arriving == IF rxFrame # NoFrame \/ Kind = "PdDataIndication" THEN 1 ELSE 0
BoundOK ==
    /\ incoming \in Nat /\ incoming + Arriving <= MaxIncoming
    /\ requests + incoming + Arriving <= MaxRequests + MaxIncoming

\* The queue and the confirms, together, are the requests in order.
ConfirmTypes == [id : Ids, aired : Nat, status : {"SUCCESS", "NO_ACK",
                    "FRAME_TOO_LONG", "CHANNEL_ACCESS_FAILURE"}]
Truthful(c) ==
    /\ c.status = "SUCCESS" => c.aired \in 1..(MaxFrameRetries + 1)
    /\ c.status = "NO_ACK" => c.aired = MaxFrameRetries + 1
    /\ c.status = "FRAME_TOO_LONG" => c.aired = 0
    /\ c.status = "CHANNEL_ACCESS_FAILURE" => c.aired <= MaxFrameRetries

Ordered(q, c, r) ==
    /\ q \in Seq(Pkts) /\ c \in Seq(ConfirmTypes) /\ r \in Nat
    /\ \A i \in 1..Len(c) : c[i].id = i /\ Truthful(c[i])
    /\ \A i \in 1..Len(q) : q[i].id = Len(c) + i
    /\ Len(c) + Len(q) = r

SwitchesOK ==
    /\ ackWaitTimeout \in BOOLEAN /\ rxOnWhenIdle \in BOOLEAN /\ initialized \in BOOLEAN
    /\ owedAck \in BOOLEAN
    /\ macState \in {"MAC_IDLE", "MAC_CSMA", "MAC_SENDING", "MAC_ACK_PENDING"}
    /\ macFault = "none"

NodeInv ==
    /\ PhyOK /\ ConfOK /\ LinkOK /\ PktOK /\ AckTimerOwned /\ AiredOK /\ OwedOK
    /\ BoundOK /\ SwitchesOK /\ Ordered(txQueue, confirms, requests)

\* A frame that may end now is not met by anything else that was scheduled for now.
BegunOK == rxFrame \in {NoFrame} \cup begun \/ FreeToReceive

-----------------------------------------------------------------------------
(***************************************************************************)
(* Sequences of callbacks, and the queue                                   *)
(***************************************************************************)
\* A list of one callback.
LEMMA OneCall ==
    ASSUME NEW p, NEW s
    PROVE  LET c == <<Callback(p, s)>>
           IN  /\ c # <<>> /\ Head(c) = Callback(p, s) /\ Tail(c) = <<>> /\ Len(c) = 1
               /\ Head(c).prim = p /\ Head(c).status = s
<1> DEFINE c == <<Callback(p, s)>>
<1>1. c \in Seq({Callback(p, s)}) /\ c # <<>> /\ Len(c) = 1 /\ c[1] = Callback(p, s)
  OBVIOUS
<1>2. Head(c) = Callback(p, s)
  BY <1>1
<1>3. Tail(c) = <<>>
  <2>1. Tail(c) \in Seq({Callback(p, s)}) /\ Len(Tail(c)) = 0
    BY <1>1, HeadTailProperties
  <2>2. QED  BY <2>1, EmptySeq
<1>4. Callback(p, s).prim = p /\ Callback(p, s).status = s
  BY DEF Callback
<1>5. QED  BY <1>1, <1>2, <1>3, <1>4

\* A list of two.
LEMMA TwoCalls ==
    ASSUME NEW x, NEW y
    PROVE  LET c == <<x, y>>
           IN c # <<>> /\ Head(c) = x /\ Tail(c) = <<y>> /\ Len(c) = 2 /\ <<x>> \o <<y>> = c
<1> DEFINE c == <<x, y>>
<1>1. c \in Seq({x, y}) /\ c # <<>> /\ Len(c) = 2 /\ c[1] = x /\ c[2] = y
  OBVIOUS
<1>2. Tail(c) = <<y>>
  <2>1. Tail(c) \in Seq({x, y}) /\ Len(Tail(c)) = 1
    BY <1>1, HeadTailProperties
  <2>2. Tail(c)[1] = y
    BY <1>1
  <2>3. <<y>> \in Seq({x, y}) /\ Len(<<y>>) = 1 /\ <<y>>[1] = y
    OBVIOUS
  <2>4. \A i \in 1 .. 1 : Tail(c)[i] = <<y>>[i]
    BY <2>2, <2>3
  <2>5. QED  BY <2>1, <2>3, <2>4, SeqEqual
<1>3. <<x>> \o <<y>> = c
  <2>1. <<x>> \in Seq({x, y}) /\ <<y>> \in Seq({x, y}) /\ Len(<<x>>) = 1 /\ Len(<<y>>) = 1
    OBVIOUS
  <2>2. <<x>> \o <<y>> \in Seq({x, y}) /\ Len(<<x>> \o <<y>>) = 2
    BY <2>1, ConcatProperties
  <2>3. (<<x>> \o <<y>>)[1] = x /\ (<<x>> \o <<y>>)[2] = y
    BY <2>1, ConcatProperties
  <2>4. \A i \in 1 .. 2 : (<<x>> \o <<y>>)[i] = c[i]
    BY <1>1, <2>3
  <2>5. QED  BY <1>1, <2>2, <2>4, SeqEqual
<1>4. QED  BY <1>1, <1>2, <1>3

\* What one callback left in conf makes of Kind and Status.
LEMMA KindNow ==
    ASSUME NEW p, NEW s, conf = <<Callback(p, s)>>
    PROVE  Kind = p /\ Status = s /\ conf # <<>> /\ Tail(conf) = <<>>
BY OneCall DEF Kind, Status

LEMMA KindNext ==
    ASSUME NEW p, NEW s, conf' = <<Callback(p, s)>>
    PROVE  Kind' = p /\ Status' = s /\ conf' # <<>>
BY OneCall DEF Kind, Status

\* The head of a queue is the first, and stays so when a frame is appended.
LEMMA QueueHead ==
    ASSUME NEW q \in Seq(Pkts), NEW p \in Pkts
    PROVE  /\ Append(q, p) # <<>>
           /\ Head(Append(q, p)) = IF q = <<>> THEN p ELSE Head(q)
           /\ q # <<>> => Head(q) \in Pkts /\ Head(q) = q[1] /\ Len(q) > 0
<1>1. Append(q, p) \in Seq(Pkts) /\ Len(Append(q, p)) = Len(q) + 1
  OBVIOUS
<1>2. Head(Append(q, p)) = Append(q, p)[1]
  BY <1>1
<1>3. CASE q = <<>>
  BY <1>1, <1>2, <1>3
<1>4. CASE q # <<>>
  <2>1. Len(q) > 0
    BY <1>4, EmptySeq
  <2>2. Append(q, p)[1] = q[1] /\ Head(q) = q[1] /\ q[1] \in Pkts
    BY <2>1
  <2>3. QED  BY <1>1, <1>2, <1>4, <2>1, <2>2
<1>5. QED  BY <1>3, <1>4

\* A request is queued behind the others.
LEMMA Enqueue ==
    ASSUME NEW q, NEW c, NEW r, Ordered(q, c, r), NEW p \in Pkts, p.id = r + 1
    PROVE  Ordered(Append(q, p), c, r + 1)
<1>1. Append(q, p) \in Seq(Pkts) /\ Len(Append(q, p)) = Len(q) + 1
  BY DEF Ordered
<1>2. \A i \in 1..Len(q) : Append(q, p)[i] = q[i]
  BY DEF Ordered
<1>3. Append(q, p)[Len(q) + 1] = p
  BY DEF Ordered
<1>4. Len(q) \in Nat /\ Len(c) \in Nat
  BY DEF Ordered
<1>5. Len(c) + Len(q) = r
  BY DEF Ordered
<1>6. \A i \in 1..Len(Append(q, p)) : Append(q, p)[i].id = Len(c) + i
  <2> TAKE i \in 1..Len(Append(q, p))
  <2>1. CASE i = Len(q) + 1
    BY <1>3, <1>4, <1>5, <2>1
  <2>2. CASE i # Len(q) + 1
    <3>1. i \in 1..Len(q)
      BY <1>1, <1>4, <2>2
    <3>2. q[i].id = Len(c) + i
      BY <3>1 DEF Ordered
    <3>3. QED  BY <1>2, <3>1, <3>2
  <2>3. QED  BY <2>1, <2>2
<1>7. Len(c) + Len(Append(q, p)) = r + 1 /\ r + 1 \in Nat
  BY <1>1, <1>4, <1>5
<1>8. QED
  BY <1>1, <1>6, <1>7 DEF Ordered

\* The first request is confirmed and removed.
LEMMA Dequeue ==
    ASSUME NEW q, NEW c, NEW r, Ordered(q, c, r), q # <<>>,
           NEW x \in ConfirmTypes, x.id = Head(q).id, Truthful(x)
    PROVE  Ordered(Tail(q), Append(c, x), r)
<1>0. q \in Seq(Pkts) /\ c \in Seq(ConfirmTypes) /\ Len(q) \in Nat /\ Len(c) \in Nat /\ Len(q) > 0
  BY EmptySeq DEF Ordered
<1>1. x.id = Len(c) + 1
  BY <1>0 DEF Ordered
<1>2. Append(c, x) \in Seq(ConfirmTypes) /\ Len(Append(c, x)) = Len(c) + 1
  BY <1>0
<1>3. \A i \in 1..Len(c) + 1 : Append(c, x)[i] = IF i <= Len(c) THEN c[i] ELSE x
  BY <1>0
<1>4. \A i \in 1..Len(Append(c, x)) : Append(c, x)[i].id = i /\ Truthful(Append(c, x)[i])
  <2> TAKE i \in 1..Len(Append(c, x))
  <2>1. CASE i <= Len(c)
    <3>1. i \in 1..Len(c) /\ Append(c, x)[i] = c[i]
      BY <1>0, <1>2, <1>3, <2>1
    <3>2. QED  BY <3>1 DEF Ordered
  <2>2. CASE i > Len(c)
    <3>1. i = Len(c) + 1 /\ Append(c, x)[i] = x
      BY <1>0, <1>2, <1>3, <2>2
    <3>2. QED  BY <1>1, <3>1
  <2>3. QED  BY <1>0, <1>2, <2>1, <2>2
<1>5. Tail(q) \in Seq(Pkts) /\ Len(Tail(q)) = Len(q) - 1
  BY <1>0, EmptySeq
<1>6. \A i \in 1..Len(Tail(q)) : Tail(q)[i] = q[i + 1]
  BY <1>0, <1>5, EmptySeq
<1>7. \A i \in 1..Len(Tail(q)) : Tail(q)[i].id = Len(Append(c, x)) + i
  <2> TAKE i \in 1..Len(Tail(q))
  <2>1. i + 1 \in 1..Len(q) /\ Tail(q)[i] = q[i + 1]
    BY <1>0, <1>5, <1>6
  <2>2. q[i + 1].id = Len(c) + (i + 1)
    BY <2>1 DEF Ordered
  <2>3. QED  BY <1>0, <1>2, <1>5, <2>1, <2>2
<1>8. Len(Append(c, x)) + Len(Tail(q)) = r
  <2>1. Len(c) + Len(q) = r
    BY DEF Ordered
  <2>2. QED  BY <1>0, <1>2, <1>5, <2>1
<1>9. QED
  BY <1>2, <1>4, <1>5, <1>7, <1>8 DEF Ordered

-----------------------------------------------------------------------------
(***************************************************************************)
(* What the MAC's requests of the transceiver do                           *)
(***************************************************************************)
\* With no energy detection under way, CancelEd reports nothing.
LEMMA NoEdCancelled ==
    ASSUME NEW s, NEW t, edRequest = FALSE
    PROVE  EdCancelled(s) = <<>> /\ <<>> \o Trx(t) = Trx(t)
           /\ <<>> \o <<Callback("PlmeCcaConfirm", "BUSY")>> = <<Callback("PlmeCcaConfirm", "BUSY")>>
           /\ <<>> \o <<>> = <<>>
<1>1. EdCancelled(s) = <<>>
  BY DEF EdCancelled
<1>2. \A x : <<>> \o <<x>> = <<x>>
  <2> TAKE x
  <2>1. <<x>> \in Seq({x})
    OBVIOUS
  <2>2. QED  BY <2>1, ConcatEmptySeq
<1>3. <<>> \o <<>> = <<>>
  OBVIOUS
<1>4. QED  BY <1>1, <1>2, <1>3 DEF Trx

\* A request for the receiver, or to switch off, while nothing is being sent: done at
\* once, after a turnaround, or, to switch off during a reception, at its end.
LEMMA RestRequest ==
    ASSUME PhyOK, trxState # "BUSY_TX", NEW s \in {"RX_ON", "TRX_OFF"},
           PlmeSetTRXStateRequest(s)
    PROVE  /\ PhyOK' /\ trxState' # "BUSY_TX" /\ rxFrame' = rxFrame
           /\ setTRXState' => trxStatePending' = "RX_ON"
           /\ conf' \in {<<>>, Trx(s)}
<1> USE DEF PhyOK, TrxStates, trxVars, rxVars
<1>0. UNCHANGED <<air, pdDataRequest, staleEndTx>>
  BY DEF PlmeSetTRXStateRequest
<1>1. CASE /\ setTRXState /\ trxStatePending = s /\ conf' = <<>>
           /\ UNCHANGED <<trxVars, rxVars, txAborted, ccaRequest, edRequest, fault>>
  BY <1>0, <1>1
<1>2. CASE /\ s = trxState /\ SwitchNow(s, Trx(s))
           /\ UNCHANGED <<rxVars, txAborted, ccaRequest, edRequest, fault>>
  BY <1>0, <1>2 DEF SwitchNow
<1>3. CASE s = "TRX_OFF" /\ s # trxState /\ RequestTrxOff /\ UNCHANGED <<txAborted, ccaRequest>>
  <2>1. EdCancelled("TRX_OFF") = <<>> /\ EdCancelled("TRX_OFF") \o Trx("TRX_OFF") = Trx("TRX_OFF")
    BY NoEdCancelled
  <2>2. CASE trxState = "BUSY_RX"
    <3>1. /\ trxStatePending' = "TRX_OFF" /\ setTRXState' = FALSE
          /\ conf' = EdCancelled("TRX_OFF") /\ edRequest' = FALSE
          /\ UNCHANGED <<trxState, rxVars, fault>>
      BY <1>3, <2>2 DEF RequestTrxOff
    <3>2. QED  BY <1>0, <1>3, <2>1, <2>2, <3>1
  <2>3. CASE trxState \in {"RX_ON", "TX_ON"}
    <3>1. /\ SwitchNow("TRX_OFF", EdCancelled("TRX_OFF") \o Trx("TRX_OFF"))
          /\ edRequest' = FALSE /\ UNCHANGED <<rxVars, fault>>
      BY <1>3, <2>3 DEF RequestTrxOff
    <3>2. QED  BY <1>0, <1>3, <2>1, <2>3, <3>1 DEF SwitchNow
  <2>4. QED  BY <1>3, <2>2, <2>3
<1>4. CASE /\ s = "RX_ON" /\ s # trxState /\ RequestRxOn
           /\ UNCHANGED <<rxVars, txAborted, ccaRequest, edRequest, fault>>
  BY <1>0, <1>4 DEF RequestRxOn, SwitchNow, TurnAround, Defer
<1>5. QED
  BY <1>1, <1>2, <1>3, <1>4 DEF PlmeSetTRXStateRequest

\* A request for the transmitter while nothing is received or sent.
LEMMA SendRequest ==
    ASSUME PhyOK, trxState \notin {"BUSY_TX", "BUSY_RX"},
           setTRXState => trxStatePending = "RX_ON",
           PlmeSetTRXStateRequest("TX_ON")
    PROVE  /\ PhyOK' /\ rxFrame' = rxFrame /\ trxState' \notin {"BUSY_TX", "BUSY_RX"}
           /\ \/ trxState' = "TX_ON" /\ ~setTRXState' /\ conf' = Trx("TX_ON")
              \/ /\ setTRXState' /\ trxStatePending' = "TX_ON"
                 /\ conf' \in {<<>>, <<Callback("PlmeCcaConfirm", "BUSY")>>}
<1> USE DEF PhyOK, TrxStates, trxVars, rxVars
<1>0. UNCHANGED <<air, pdDataRequest, staleEndTx>>
  BY DEF PlmeSetTRXStateRequest
<1>1. CASE /\ trxState = "TX_ON" /\ SwitchNow("TX_ON", Trx("TX_ON"))
           /\ UNCHANGED <<rxVars, txAborted, ccaRequest, edRequest, fault>>
  BY <1>0, <1>1 DEF SwitchNow
<1>2. CASE trxState # "TX_ON" /\ RequestTxOn
  <2>1. /\ EdCancelled("TX_ON") = <<>> /\ EdCancelled("TX_ON") \o Trx("TX_ON") = Trx("TX_ON")
        /\ EdCancelled("TX_ON") \o <<Callback("PlmeCcaConfirm", "BUSY")>>
             = <<Callback("PlmeCcaConfirm", "BUSY")>>
        /\ EdCancelled("TX_ON") \o <<>> = <<>>
    BY NoEdCancelled
  <2>2. CASE trxState = "TRX_OFF"
    BY <1>0, <1>2, <2>1, <2>2 DEF RequestTxOn, SwitchNow
  <2>3. CASE trxState = "RX_ON"
    <3>1. DiscardReception /\ TurnAround("TX_ON", EdCancelled("TX_ON") \o
             (IF ccaRequest THEN <<Callback("PlmeCcaConfirm", "BUSY")>> ELSE <<>>))
          /\ edRequest' = FALSE /\ UNCHANGED <<txAborted, fault>>
      BY <1>2, <2>3 DEF RequestTxOn
    <3>2. conf' \in {<<>>, <<Callback("PlmeCcaConfirm", "BUSY")>>}
      BY <2>1, <3>1 DEF TurnAround
    <3>3. QED  BY <1>0, <2>3, <3>1, <3>2 DEF TurnAround, DiscardReception
  <2>4. QED  BY <1>2, <2>2, <2>3 DEF RequestTxOn
<1>3. QED
  BY <1>1, <1>2 DEF PlmeSetTRXStateRequest

\* The MAC goes to one of its resting states, or stays in MAC_IDLE.
LEMMA Settle ==
    ASSUME PhyOK, trxState # "BUSY_TX",
           NEW s \in {"RX_ON", "TRX_OFF"}, PlmeSetTRXStateRequest(s),
           macState' \in {"MAC_IDLE", "MAC_CSMA", "MAC_ACK_PENDING"},
           s = "TRX_OFF" => macState' = "MAC_IDLE",
           initialized', setMacState' = "SendAck" => rxFrame = NoFrame
    PROVE  /\ PhyOK' /\ ConfOK' /\ LinkOK' /\ rxFrame' = rxFrame
           /\ Kind' \in {"none", "PlmeSetTRXStateConfirm"}
<1>1. /\ PhyOK' /\ trxState' # "BUSY_TX" /\ rxFrame' = rxFrame
      /\ setTRXState' => trxStatePending' = "RX_ON"
      /\ conf' \in {<<>>, Trx(s)}
  BY RestRequest
<1>2. LinkOK'
  BY <1>1 DEF LinkOK
<1>3. CASE conf' = <<>>
  BY <1>1, <1>2, <1>3 DEF ConfOK, Kind
<1>4. CASE conf' = Trx(s)
  <2>1. Kind' = "PlmeSetTRXStateConfirm" /\ Status' = s
    BY <1>4, KindNext DEF Trx
  <2>2. s \in Expected'
    BY DEF Expected
  <2>3. ConfOK'
    BY <1>4, <2>1, <2>2 DEF ConfOK
  <2>4. QED  BY <1>1, <1>2, <2>1, <2>3
<1>5. QED  BY <1>1, <1>3, <1>4

\* The MAC goes to MAC_SENDING.
LEMMA BeginSending ==
    ASSUME PhyOK, trxState \notin {"BUSY_TX", "BUSY_RX"},
           setTRXState => trxStatePending = "RX_ON",
           PlmeSetTRXStateRequest("TX_ON"),
           macState' = "MAC_SENDING", setMacState' = "none", initialized'
    PROVE  /\ PhyOK' /\ ConfOK' /\ LinkOK' /\ rxFrame' = rxFrame /\ trxState' # "BUSY_TX"
           /\ Kind' \in {"none", "PlmeCcaConfirm", "PlmeSetTRXStateConfirm"}
<1>1. /\ PhyOK' /\ rxFrame' = rxFrame /\ trxState' \notin {"BUSY_TX", "BUSY_RX"}
      /\ \/ trxState' = "TX_ON" /\ ~setTRXState' /\ conf' = Trx("TX_ON")
         \/ /\ setTRXState' /\ trxStatePending' = "TX_ON"
            /\ conf' \in {<<>>, <<Callback("PlmeCcaConfirm", "BUSY")>>}
  BY SendRequest
<1>2. CASE trxState' = "TX_ON" /\ ~setTRXState' /\ conf' = Trx("TX_ON")
  <2>1. Kind' = "PlmeSetTRXStateConfirm" /\ Status' = "TX_ON"
    BY <1>2, KindNext DEF Trx
  <2>2. ConfOK'
    BY <1>2, <2>1 DEF ConfOK, Expected
  <2>3. LinkOK'
    BY <1>1, <1>2, <2>1 DEF LinkOK, SendingOK
  <2>4. QED  BY <1>1, <2>1, <2>2, <2>3
<1>3. CASE setTRXState' /\ trxStatePending' = "TX_ON" /\ conf' = <<>>
  BY <1>1, <1>3 DEF ConfOK, Kind, LinkOK, SendingOK
<1>4. CASE /\ setTRXState' /\ trxStatePending' = "TX_ON"
           /\ conf' = <<Callback("PlmeCcaConfirm", "BUSY")>>
  <2>1. Kind' = "PlmeCcaConfirm" /\ Status' = "BUSY"
    BY <1>4, KindNext
  <2>2. ConfOK'
    BY <1>4, <2>1 DEF ConfOK
  <2>3. LinkOK'
    BY <1>1, <1>4, <2>1 DEF LinkOK, SendingOK
  <2>4. QED  BY <1>1, <2>1, <2>2, <2>3
<1>5. QED  BY <1>1, <1>2, <1>3, <1>4

-----------------------------------------------------------------------------
(***************************************************************************)
(* NodeInv holds initially, and every step keeps it                        *)
(***************************************************************************)
\* A queued packet is neither of the two special ones.
LEMMA QueuedIsPkt ==
    ASSUME NodeInv
    PROVE  /\ NoPkt # AckPkt /\ ~NoPkt.ackReq /\ NoPkt.fits /\ ~AckPkt.ackReq /\ AckPkt.fits
           /\ txQueue # <<>> => /\ Head(txQueue) \in Pkts
                                /\ Head(txQueue) # NoPkt /\ Head(txQueue) # AckPkt
           /\ Queued => txPkt \in Pkts /\ txPkt # NoPkt /\ txPkt # AckPkt
           /\ txPkt \in Pkts \cup {NoPkt, AckPkt}
<1>1. NoPkt # AckPkt /\ ~NoPkt.ackReq /\ NoPkt.fits /\ ~AckPkt.ackReq /\ AckPkt.fits
  BY DEF NoPkt, AckPkt
<1>2. ASSUME NEW p \in Pkts PROVE p # NoPkt /\ p # AckPkt
  <2>1. p.id \in Nat /\ p.id > 0
    BY MacAssumption DEF Pkts, Ids, MacAssumption
  <2>2. NoPkt.id = 0 /\ AckPkt.id = -1
    BY DEF NoPkt, AckPkt
  <2>3. QED  BY <2>1, <2>2
<1>3. txQueue # <<>> => Head(txQueue) \in Pkts
  BY DEF NodeInv, Ordered
<1>4. txPkt \in Pkts \cup {NoPkt, AckPkt}
  BY <1>3 DEF NodeInv, SwitchesOK, PktOK, Queued, Awaited
<1>5. QED  BY <1>1, <1>2, <1>3, <1>4 DEF Queued

\* The bound on frames is kept when none begins or ends to arrive.
LEMMA BoundKept ==
    ASSUME NodeInv, rxFrame' = rxFrame, Kind' # "PdDataIndication",
           UNCHANGED <<incoming, requests>>
    PROVE  BoundOK'
BY MacAssumption DEF NodeInv, BoundOK, Arriving, Ordered, MacAssumption

LEMMA NodeInvInit == MacInit => NodeInv
<1> SUFFICES ASSUME MacInit PROVE NodeInv
  OBVIOUS
<1> USE DEF MacInit, PhyInit
<1>1. PhyOK
  BY PhyAssumption DEF PhyOK, PhyAssumption, TrxStates
<1>2. Kind = "none"
  BY DEF Kind
<1>3. ConfOK /\ LinkOK /\ PktOK /\ AckTimerOwned /\ OwedOK /\ SwitchesOK
  BY DEF ConfOK, LinkOK, PktOK, AckTimerOwned, OwedOK, SwitchesOK
<1>4. AiredOK /\ BoundOK
  BY <1>2, MacAssumption DEF AiredOK, Aired, BoundOK, Arriving, MacAssumption
<1>5. Ordered(<<>>, <<>>, 0)
  BY DEF Ordered
<1>6. QED
  BY <1>1, <1>3, <1>4, <1>5 DEF NodeInv

LEMMA InitializeStep ==
    ASSUME NodeInv, DoInitialize
    PROVE  NodeInv'
<1>1. /\ macState = "MAC_IDLE" /\ setMacState = "none" /\ trxState = "TRX_OFF"
      /\ IdleTrxState \in {"RX_ON", "TRX_OFF"}
  BY DEF DoInitialize, NodeInv, LinkOK, IdleTrxState
<1>2. /\ PlmeSetTRXStateRequest(IdleTrxState) /\ initialized' = TRUE
      /\ UNCHANGED <<macState, txQueue, txPkt, retransmission, setMacState, ackWaitTimeout,
                     rxOnWhenIdle, macFault, incoming, confirms, requests, airings, owedAck>>
  BY DEF DoInitialize, txState, timers, histVars
<1>3. /\ PhyOK' /\ ConfOK' /\ LinkOK' /\ rxFrame' = rxFrame
      /\ Kind' \in {"none", "PlmeSetTRXStateConfirm"}
  BY <1>1, <1>2, Settle DEF NodeInv
<1>4. PktOK' /\ AckTimerOwned' /\ AiredOK' /\ OwedOK' /\ SwitchesOK'
  BY <1>1, <1>2 DEF NodeInv, PktOK, Queued, AckTimerOwned, AiredOK, Aired, OwedOK, SwitchesOK
<1>5. BoundOK'
  BY <1>2, <1>3, BoundKept
<1>6. Ordered(txQueue, confirms, requests)'
  BY <1>2 DEF NodeInv
<1>7. QED
  BY <1>3, <1>4, <1>5, <1>6 DEF NodeInv

LEMMA IdleModeStep ==
    ASSUME NodeInv, conf = <<>>, initialized,
           NEW on \in IdleModes, SetRxOnWhenIdle(on)
    PROVE  NodeInv'
<1>1. /\ rxOnWhenIdle' = on /\ on \in BOOLEAN
      /\ UNCHANGED <<macState, txQueue, txPkt, retransmission, setMacState, ackWaitTimeout,
                     initialized, macFault, incoming, confirms, requests, airings, owedAck>>
  BY MacAssumption DEF SetRxOnWhenIdle, txState, timers, histVars, MacAssumption
<1>2. CASE macState = "MAC_IDLE"
  <2>1. PlmeSetTRXStateRequest(IF on THEN "RX_ON" ELSE "TRX_OFF")
    BY <1>2 DEF SetRxOnWhenIdle
  <2>2. trxState # "BUSY_TX" /\ (setMacState' = "SendAck" => rxFrame = NoFrame)
    BY <1>1, <1>2 DEF NodeInv, LinkOK
  <2>3. /\ PhyOK' /\ ConfOK' /\ LinkOK' /\ rxFrame' = rxFrame
        /\ Kind' \in {"none", "PlmeSetTRXStateConfirm"}
    BY <1>1, <1>2, <2>1, <2>2, Settle DEF NodeInv
  <2>4. PktOK' /\ AckTimerOwned' /\ AiredOK' /\ OwedOK' /\ SwitchesOK'
    BY <1>1, <1>2, <2>2, <2>3
    DEF NodeInv, PktOK, Queued, AckTimerOwned, AiredOK, Aired, OwedOK, SwitchesOK
  <2>5. BoundOK'
    BY <1>1, <2>3, BoundKept
  <2>6. Ordered(txQueue, confirms, requests)'
    BY <1>1 DEF NodeInv
  <2>7. QED
    BY <2>3, <2>4, <2>5, <2>6 DEF NodeInv
<1>3. CASE macState # "MAC_IDLE"
  <2>1. UNCHANGED <<trxVars, rxVars, air, txVars, edRequest, conf, fault>>
    BY <1>3 DEF SetRxOnWhenIdle, phyVars
  <2>2. PhyOK' /\ ConfOK' /\ LinkOK' /\ PktOK' /\ AckTimerOwned' /\ AiredOK' /\ OwedOK'
    BY <1>1, <2>1 DEF NodeInv, PhyOK, ConfOK, LinkOK, SendingOK, PktOK, Queued, Awaited, Kind,
       Status, AckTimerOwned, AiredOK, Aired, OwedOK, trxVars, rxVars, txVars
  <2>3. SwitchesOK' /\ BoundOK' /\ Ordered(txQueue, confirms, requests)'
    BY <1>1, <2>1 DEF NodeInv, SwitchesOK, BoundOK, Arriving, Kind, rxVars
  <2>4. QED
    BY <2>2, <2>3 DEF NodeInv
<1>4. QED  BY <1>2, <1>3

LEMMA DataRequestStep ==
    ASSUME NodeInv, conf = <<>>, initialized,
           NEW ackReq \in BOOLEAN, NEW fits \in BOOLEAN, McpsDataRequest(ackReq, fits)
    PROVE  NodeInv'
<1> DEFINE p == Frame(ackReq, fits)
<1>1. /\ requests < MaxRequests /\ requests' = requests + 1 /\ txQueue' = Append(txQueue, p)
      /\ CheckQueue(macState, txQueue', txPkt, setMacState)
      /\ UNCHANGED <<trxVars, rxVars, air, txVars, edRequest, conf, fault>>
      /\ UNCHANGED <<macState, retransmission, ackWaitTimeout, rxOnWhenIdle, initialized,
                     macFault, incoming, confirms, airings, owedAck>>
  BY DEF McpsDataRequest, phyVars, macRest
<1>2. p \in Pkts /\ p.id = requests + 1
  <2>1. requests + 1 \in Ids
    BY <1>1, MacAssumption DEF NodeInv, Ordered, Ids, MacAssumption
  <2>2. QED  BY <2>1 DEF Frame, Pkts
<1>3. txQueue' # <<>> /\ Head(txQueue') = IF txQueue = <<>> THEN p ELSE Head(txQueue)
  BY <1>1, <1>2, QueueHead DEF NodeInv, Ordered
<1>4. Kind' = Kind /\ Kind = "none"
  BY <1>1 DEF Kind
<1>5. IF macState = "MAC_IDLE" /\ setMacState = "none"
      THEN txPkt = NoPkt /\ txPkt' = Head(txQueue') /\ setMacState' = "MAC_CSMA"
      ELSE txPkt' = txPkt /\ setMacState' = setMacState
  BY <1>1, <1>3 DEF CheckQueue, NodeInv, PktOK
<1>6. Queued => Queued'
  BY <1>3, <1>5, QueuedIsPkt DEF Queued
<1>7. PhyOK' /\ ConfOK'
  BY <1>1, <1>4 DEF NodeInv, PhyOK, ConfOK, trxVars, rxVars, txVars
<1>8. LinkOK'
  BY <1>1, <1>4, <1>5 DEF NodeInv, LinkOK, SendingOK, Status, trxVars, rxVars
<1>9. PktOK'
  BY <1>1, <1>3, <1>5, <1>6 DEF NodeInv, PktOK, Queued, Awaited, SwitchesOK
<1>10. AckTimerOwned' /\ OwedOK' /\ SwitchesOK'
  BY <1>1, <1>4, <1>5 DEF NodeInv, AckTimerOwned, OwedOK, SwitchesOK, trxVars
<1>11. Aired' = Aired
  BY <1>1, <1>4, <1>5 DEF Aired, trxVars
<1>12. AiredOK'
  BY <1>1, <1>3, <1>11 DEF NodeInv, AiredOK
<1>13. BoundOK'
  BY <1>1, <1>4, MacAssumption DEF NodeInv, BoundOK, Arriving, Ordered, rxVars, MacAssumption
<1>14. Ordered(txQueue, confirms, requests)'
  <2>1. Ordered(Append(txQueue, p), confirms, requests + 1)
    BY <1>2, Enqueue DEF NodeInv
  <2>2. QED  BY <1>1, <2>1
<1>15. QED
  BY <1>7, <1>8, <1>9, <1>10, <1>12, <1>13, <1>14 DEF NodeInv

\* What the members of the MAC alone make of the invariant.
MacOK == PktOK /\ AckTimerOwned /\ SwitchesOK /\ Ordered(txQueue, confirms, requests)

LEMMA MacKept ==
    ASSUME NodeInv, UNCHANGED <<macState, txState, timers, rxOnWhenIdle, initialized, macFault,
                                histVars>>
    PROVE  MacOK'
BY DEF NodeInv, MacOK, PktOK, Queued, Awaited, AckTimerOwned, SwitchesOK, txState, timers, histVars

\* The transmissions counted are the same unless the transceiver begins or ends one.
LEMMA AiringsKept ==
    ASSUME NodeInv, UNCHANGED <<macState, txState, timers, histVars>>,
           trxState' = "BUSY_TX" <=> trxState = "BUSY_TX",
           Kind # "PdDataConfirm", Kind' # "PdDataConfirm"
    PROVE  AiredOK' /\ OwedOK'
<1>1. Aired' = Aired
  BY DEF Aired, txState, timers
<1>2. QED
  BY <1>1 DEF NodeInv, AiredOK, OwedOK, txState, timers, histVars

LEMMA EndTurnaroundStep ==
    ASSUME NodeInv, conf = <<>>, initialized,
           EndSetTRXState, UNCHANGED <<csmaVars, macVars>>
    PROVE  NodeInv'
<1>0. Kind = "none" /\ UNCHANGED <<macState, txState, timers, rxOnWhenIdle, initialized, macFault,
                                   incoming, histVars>>
  BY DEF Kind, macVars, macRest
<1>1. /\ setTRXState /\ trxStatePending \in {"RX_ON", "TX_ON"}
      /\ trxState \notin {"BUSY_RX", "BUSY_TX"} /\ rxFrame = NoFrame
  BY DEF EndSetTRXState, NodeInv, PhyOK
<1>2. /\ trxState' = trxStatePending /\ trxStatePending' = "IDLE" /\ setTRXState' = FALSE
      /\ conf' = Trx(trxStatePending)
      /\ UNCHANGED <<rxVars, air, txVars, edRequest, fault>>
  BY <1>1 DEF EndSetTRXState, SwitchNow
<1>3. Kind' = "PlmeSetTRXStateConfirm" /\ Status' = trxStatePending
  BY <1>2, KindNext DEF Trx
<1>4. trxStatePending = "TX_ON" <=> macState = "MAC_SENDING"
  BY <1>0, <1>1 DEF NodeInv, LinkOK, SendingOK
<1>5. PhyOK'
  BY <1>1, <1>2 DEF NodeInv, PhyOK, TrxStates, rxVars, txVars
<1>6. Status' \in Expected'
  BY <1>0, <1>1, <1>3, <1>4 DEF Expected
<1>7. ConfOK'
  BY <1>2, <1>3, <1>6 DEF ConfOK
<1>8. LinkOK'
  BY <1>0, <1>1, <1>2, <1>3, <1>4 DEF NodeInv, LinkOK, SendingOK, timers, rxVars
<1>9. MacOK' /\ AiredOK' /\ OwedOK'
  BY <1>0, <1>1, <1>2, <1>3, MacKept, AiringsKept
<1>10. BoundOK'
  BY <1>0, <1>2, <1>3, BoundKept DEF rxVars, histVars
<1>11. QED
  BY <1>5, <1>7, <1>8, <1>9, <1>10 DEF NodeInv, MacOK

LEMMA EndTxStep ==
    ASSUME NodeInv, conf = <<>>, initialized,
           EndTx, UNCHANGED <<csmaVars, macVars>>
    PROVE  NodeInv'
<1>0. Kind = "none" /\ UNCHANGED <<macState, txState, timers, rxOnWhenIdle, initialized, macFault,
                                   incoming, histVars>>
  BY DEF Kind, macVars, macRest
<1>1. /\ trxState = "BUSY_TX" /\ pdDataRequest /\ staleEndTx = 0 /\ ~txAborted
      /\ trxStatePending = "IDLE" /\ ~setTRXState /\ rxFrame = NoFrame
  BY DEF EndTx, NodeInv, PhyOK
<1>2. /\ trxState' = "TX_ON" /\ UNCHANGED <<trxStatePending, setTRXState>>
      /\ pdDataRequest' = FALSE /\ staleEndTx' = 0
      /\ conf' = <<Callback("PdDataConfirm", "SUCCESS")>>
      /\ UNCHANGED <<rxVars, air, edRequest, fault>>
  BY <1>1 DEF EndTx, ApplyPending
<1>3. Kind' = "PdDataConfirm" /\ Status' = "SUCCESS"
  BY <1>2, KindNext
<1>4. macState = "MAC_SENDING" /\ txPkt.fits
  BY <1>0, <1>1 DEF NodeInv, LinkOK, SendingOK
<1>5. PhyOK'
  BY <1>1, <1>2 DEF NodeInv, PhyOK, TrxStates, rxVars
<1>6. ConfOK' /\ LinkOK'
  BY <1>0, <1>1, <1>2, <1>3, <1>4 DEF NodeInv, ConfOK, LinkOK, SendingOK, timers, txState, rxVars
<1>7. MacOK'
  BY <1>0, MacKept
<1>8. Aired' = Aired
  BY <1>0, <1>1, <1>3, <1>4 DEF Aired, txState, timers
<1>9. AiredOK' /\ OwedOK'
  BY <1>0, <1>1, <1>8 DEF NodeInv, AiredOK, OwedOK, txState, timers, histVars
<1>10. BoundOK'
  BY <1>0, <1>2, <1>3, BoundKept DEF rxVars, histVars
<1>11. QED
  BY <1>5, <1>6, <1>7, <1>9, <1>10 DEF NodeInv, MacOK

\* An assessment begins or ends: the transceiver keeps its state.
LEMMA AssessmentStep ==
    ASSUME NodeInv, conf = <<>>, initialized,
           EndCca \/ PlmeCcaRequest, UNCHANGED macVars
    PROVE  NodeInv'
<1>0. Kind = "none" /\ UNCHANGED <<macState, txState, timers, rxOnWhenIdle, initialized, macFault,
                                   incoming, histVars>>
  BY DEF Kind, macVars, macRest
<1>1. UNCHANGED <<trxVars, rxVars, air, txVars, edRequest, fault>>
  BY DEF EndCca, PlmeCcaRequest
<1>2. /\ Kind' \in {"none", "PlmeCcaConfirm"} /\ ConfOK'
  <2>1. CASE EndCca
    <3>1. PICK sensed \in SensedStates : conf' = <<Callback("PlmeCcaConfirm", sensed)>>
      BY <2>1 DEF EndCca
    <3>2. Kind' = "PlmeCcaConfirm" /\ Status' = sensed
      BY <3>1, KindNext
    <3>3. sensed = "IDLE" => trxState \notin {"BUSY_RX", "BUSY_TX"}
      BY DEF SensedStates, PhyIsBusy
    <3>4. QED  BY <1>1, <3>1, <3>2, <3>3 DEF ConfOK, trxVars
  <2>2. CASE PlmeCcaRequest /\ trxState \in {"RX_ON", "BUSY_RX"}
    <3>1. conf' = <<>>
      BY <2>2 DEF PlmeCcaRequest
    <3>2. QED  BY <3>1 DEF ConfOK, Kind
  <2>3. CASE PlmeCcaRequest /\ trxState \notin {"RX_ON", "BUSY_RX"}
    <3>1. PICK s \in {"TRX_OFF", "BUSY"} : conf' = <<Callback("PlmeCcaConfirm", s)>>
      BY <2>3 DEF PlmeCcaRequest
    <3>2. Kind' = "PlmeCcaConfirm" /\ Status' = s
      BY <3>1, KindNext
    <3>3. QED  BY <3>1, <3>2 DEF ConfOK
  <2>4. QED  BY <2>1, <2>2, <2>3
<1>3. PhyOK'
  BY <1>1 DEF NodeInv, PhyOK, trxVars, rxVars, txVars
<1>4. LinkOK'
  BY <1>0, <1>1, <1>2 DEF NodeInv, LinkOK, SendingOK, timers, txState, trxVars, rxVars
<1>5. MacOK' /\ AiredOK' /\ OwedOK'
  BY <1>0, <1>1, <1>2, MacKept, AiringsKept DEF trxVars
<1>6. BoundOK'
  BY <1>0, <1>1, <1>2, BoundKept DEF rxVars, histVars
<1>7. QED
  BY <1>2, <1>3, <1>4, <1>5, <1>6 DEF NodeInv, MacOK

LEMMA StartRxStep ==
    ASSUME NodeInv, conf = <<>>, initialized,
           NEW f \in Frames, incoming > 0, incoming' = incoming - 1, StartRx(f),
           setMacState = "SendAck" => rxFrame' \in {rxFrame, NoFrame},
           UNCHANGED <<macState, txState, timers, rxOnWhenIdle, initialized, macFault, histVars>>
    PROVE  NodeInv'
<1>0. Kind = "none"
  BY DEF Kind
<1>1. ~CheckInterferenceFails
  BY DEF CheckInterferenceFails, NodeInv, PhyOK
<1>2. /\ air' = air \cup {f} /\ conf' = <<>>
      /\ UNCHANGED <<trxStatePending, setTRXState, txVars, edRequest, fault>>
      /\ \/ /\ trxState = "RX_ON" /\ ~setTRXState
            /\ trxState' = "BUSY_RX" /\ rxFrame' = f /\ rxCorrupt' = FALSE
         \/ UNCHANGED <<trxState, rxVars>>
  BY <1>1 DEF StartRx
<1>3. Kind' = "none" /\ f # NoFrame
  BY <1>2, PhyAssumption DEF Kind, PhyAssumption
<1>4. PhyOK' /\ ConfOK'
  BY <1>2, <1>3 DEF NodeInv, PhyOK, TrxStates, ConfOK, txVars, rxVars
<1>5. LinkOK'
  BY <1>0, <1>2, <1>3 DEF NodeInv, LinkOK, SendingOK, timers, txState
<1>6. MacOK' /\ AiredOK' /\ OwedOK'
  BY <1>0, <1>2, <1>3, MacKept, AiringsKept
<1>7. BoundOK'
  <2>1. incoming' \in Nat /\ Arriving \in {0, 1} /\ Arriving' <= Arriving + 1 /\ Arriving' \in {0, 1}
    BY DEF NodeInv, BoundOK, Arriving
  <2>2. requests' = requests /\ requests \in Nat
    BY DEF NodeInv, Ordered, histVars
  <2>3. /\ incoming \in Nat /\ incoming + Arriving <= MaxIncoming
        /\ requests + incoming + Arriving <= MaxRequests + MaxIncoming
    BY DEF NodeInv, BoundOK
  <2>4. /\ incoming' + Arriving' <= MaxIncoming
        /\ requests' + incoming' + Arriving' <= MaxRequests + MaxIncoming
    <3>1. MaxIncoming \in Nat /\ MaxRequests \in Nat
      BY MacAssumption DEF MacAssumption
    <3>2. PICK a \in {0, 1} : a = Arriving
      BY <2>1
    <3>3. PICK b \in {0, 1} : b = Arriving'
      BY <2>1
    <3>4. b <= a + 1
      BY <2>1, <3>2, <3>3
    <3>5. incoming' + b <= MaxIncoming /\ requests' + incoming' + b <= MaxRequests + MaxIncoming
      BY <2>2, <2>3, <3>1, <3>2, <3>4
    <3>6. QED  BY <3>3, <3>5
  <2>5. QED  BY <2>1, <2>4 DEF BoundOK
<1>8. QED
  BY <1>4, <1>5, <1>6, <1>7 DEF NodeInv, MacOK

LEMMA EndRxStep ==
    ASSUME NodeInv, BegunOK, conf = <<>>, initialized,
           NEW f \in air, f \notin begun, EndRx(f), UNCHANGED <<csmaVars, macVars>>
    PROVE  NodeInv'
<1>0. Kind = "none" /\ UNCHANGED <<macState, txState, timers, rxOnWhenIdle, initialized, macFault,
                                   incoming, histVars>>
  BY DEF Kind, macVars, macRest
<1>1. f \in Frames /\ f # NoFrame /\ air' \subseteq Frames /\ UNCHANGED <<txVars, edRequest, fault>>
  BY PhyAssumption DEF EndRx, NodeInv, PhyOK, PhyAssumption
<1>2. MacOK'
  BY <1>0, MacKept
<1>3. CASE rxFrame # f
  <2>1. conf' = <<>> /\ UNCHANGED <<trxVars, rxVars>>
    BY <1>3 DEF EndRx
  <2>2. Kind' = "none"
    BY <2>1 DEF Kind
  <2>3. PhyOK' /\ ConfOK' /\ LinkOK'
    BY <1>0, <1>1, <2>1, <2>2 DEF NodeInv, PhyOK, ConfOK, LinkOK, SendingOK, timers, txState,
       trxVars, rxVars, txVars
  <2>4. AiredOK' /\ OwedOK' /\ BoundOK'
    BY <1>0, <2>1, <2>2, AiringsKept, BoundKept DEF trxVars, rxVars, histVars
  <2>5. QED  BY <1>2, <2>3, <2>4 DEF NodeInv, MacOK
<1>4. CASE rxFrame = f
  <2>1. /\ trxState = "BUSY_RX" /\ setTRXState = FALSE /\ ~rxCorrupt /\ macState # "MAC_SENDING"
        /\ trxStatePending \in {"IDLE", "TRX_OFF"}
    BY <1>0, <1>1, <1>4 DEF NodeInv, PhyOK, LinkOK, SendingOK
  <2>2. rxFrame' = NoFrame /\ ApplyPending("RX_ON", <<Indication(f)>>)
    BY <1>4, <2>1 DEF EndRx, Indication
  <2>3. /\ trxState' \in {"RX_ON", "TRX_OFF"} /\ trxStatePending' = "IDLE" /\ setTRXState' = FALSE
        /\ \/ conf' = <<Indication(f)>>
           \/ conf' = <<Indication(f), Callback("PlmeSetTRXStateConfirm", "SUCCESS")>>
    <3>1. <<Indication(f)>> \o Trx("SUCCESS")
            = <<Indication(f), Callback("PlmeSetTRXStateConfirm", "SUCCESS")>>
      BY TwoCalls DEF Trx
    <3>2. CASE trxStatePending = "IDLE"
      BY <2>1, <2>2, <3>2 DEF ApplyPending
    <3>3. CASE trxStatePending = "TRX_OFF"
      BY <2>1, <2>2, <3>1, <3>3 DEF ApplyPending, SwitchNow
    <3>4. QED  BY <2>1, <3>2, <3>3
  <2>4. Kind' = "PdDataIndication" /\ Status' = f
    <3>1. Indication(f).prim = "PdDataIndication" /\ Indication(f).status = f
      BY DEF Indication, Callback
    <3>2. conf' # <<>> /\ Head(conf') = Indication(f)
      BY <2>3, OneCall, TwoCalls DEF Indication
    <3>3. QED  BY <3>1, <3>2 DEF Kind, Status
  <2>5. PhyOK'
    BY <1>1, <2>1, <2>2, <2>3 DEF NodeInv, PhyOK, TrxStates, txVars
  <2>6. ConfOK'
    <3>1. FreeToReceive
      BY <1>1, <1>4 DEF BegunOK
    <3>2. FreeToReceive'
      BY <1>0, <3>1 DEF FreeToReceive, timers
    <3>3. QED  BY <1>0, <1>1, <2>1, <2>2, <2>3, <2>4, <3>2 DEF ConfOK
  <2>7. LinkOK'
    BY <1>0, <2>1, <2>2, <2>3 DEF NodeInv, LinkOK, timers
  <2>8. AiredOK' /\ OwedOK'
    BY <1>0, <2>1, <2>3, <2>4, AiringsKept
  <2>9. BoundOK'
    BY <1>0, <1>1, <1>4, <2>2, <2>4 DEF NodeInv, BoundOK, Arriving, histVars
  <2>10. QED  BY <1>2, <2>5, <2>6, <2>7, <2>8, <2>9 DEF NodeInv, MacOK
<1>5. QED  BY <1>3, <1>4

\* The callback under way, by its kind.
LEMMA CallbackCases ==
    ASSUME NodeInv, conf # <<>>
    PROVE  /\ Kind = "PlmeCcaConfirm" =>
                /\ Tail(conf) = <<>>
                /\ Status = "IDLE" => trxState \notin {"BUSY_RX", "BUSY_TX"}
           /\ Kind = "PlmeSetTRXStateConfirm" => Tail(conf) = <<>> /\ Status \in Expected
           /\ Kind = "PdDataIndication" =>
                /\ Tail(conf) \in {<<>>, Trx("SUCCESS")}
                /\ Status \in Frames /\ rxFrame = NoFrame
                /\ macState # "MAC_SENDING" /\ FreeToReceive
           /\ Kind = "PdDataConfirm" =>
                /\ Tail(conf) = <<>> /\ macState = "MAC_SENDING" /\ setMacState = "none"
                /\ Status = IF txPkt.fits THEN "SUCCESS" ELSE "UNSPECIFIED"
           /\ Len(conf) > 1 => Kind = "PdDataIndication"
<1>1. CASE /\ conf = <<Callback("PlmeCcaConfirm", Status)>>
           /\ Status = "IDLE" => trxState \notin {"BUSY_RX", "BUSY_TX"}
  BY <1>1, KindNow, OneCall
<1>2. CASE conf = Trx(Status) /\ Status \in Expected
  BY <1>2, KindNow, OneCall DEF Trx
<1>3. CASE /\ \/ conf = <<Indication(Status)>>
              \/ conf = <<Indication(Status), Callback("PlmeSetTRXStateConfirm", "SUCCESS")>>
           /\ Status \in Frames /\ rxFrame = NoFrame
           /\ macState # "MAC_SENDING" /\ FreeToReceive
  <2>1. Head(conf) = Indication(Status) /\ Tail(conf) \in {<<>>, Trx("SUCCESS")}
    <3>1. CASE conf = <<Indication(Status)>>
      BY <3>1, OneCall DEF Indication
    <3>2. CASE conf = <<Indication(Status), Callback("PlmeSetTRXStateConfirm", "SUCCESS")>>
      BY <3>2, TwoCalls DEF Trx
    <3>3. QED  BY <1>3, <3>1, <3>2
  <2>2. Kind = "PdDataIndication"
    BY <2>1 DEF Kind, Indication, Callback
  <2>3. QED  BY <1>3, <2>1, <2>2
<1>4. CASE /\ conf = <<Callback("PdDataConfirm", Status)>>
           /\ macState = "MAC_SENDING" /\ setMacState = "none"
           /\ Status = IF txPkt.fits THEN "SUCCESS" ELSE "UNSPECIFIED"
  BY <1>4, KindNow, OneCall
<1>5. QED
  BY <1>1, <1>2, <1>3, <1>4 DEF NodeInv, ConfOK

\* ConfirmFirst with a status that tells the truth.
LEMMA ConfirmFirstKeeps ==
    ASSUME NodeInv, txQueue # <<>>,
           NEW st \in {"SUCCESS", "NO_ACK", "FRAME_TOO_LONG", "CHANNEL_ACCESS_FAILURE"},
           ConfirmFirst(st),
           st = "SUCCESS" => airings \in 1..(MaxFrameRetries + 1),
           st = "NO_ACK" => airings = MaxFrameRetries + 1,
           st = "FRAME_TOO_LONG" => airings = 0,
           st = "CHANNEL_ACCESS_FAILURE" => airings <= MaxFrameRetries
    PROVE  /\ Ordered(Tail(txQueue), confirms', requests)
           /\ retransmission' = 0 /\ airings' = 0
<1> DEFINE x == [id |-> Head(txQueue).id, status |-> st, aired |-> airings]
<1>1. confirms' = Append(confirms, x) /\ retransmission' = 0 /\ airings' = 0
  BY DEF ConfirmFirst
<1>2. airings \in Nat
  BY MacAssumption DEF NodeInv, AiredOK, MacAssumption
<1>3. Head(txQueue) \in Pkts
  BY QueuedIsPkt
<1>4. x \in ConfirmTypes
  BY <1>2, <1>3 DEF ConfirmTypes, Pkts
<1>5. Truthful(x)
  BY DEF Truthful
<1>6. Ordered(Tail(txQueue), Append(confirms, x), requests)
  BY <1>4, <1>5, Dequeue DEF NodeInv
<1>7. QED  BY <1>1, <1>6

\* PrepareRetransmission, for a frame that has been on the air once more than retried.
LEMMA RetryKeeps ==
    ASSUME NodeInv, Queued, airings = retransmission + 1, PrepareRetransmission
    PROVE  /\ Ordered(QueueLeft, confirms', requests)
           /\ retransmission' \in 0..MaxFrameRetries /\ airings' = retransmission'
           /\ RetryLeft => airings' = airings /\ QueueLeft = txQueue /\ PktLeft = txPkt
           /\ ~RetryLeft => airings' = 0 /\ PktLeft = NoPkt
<1>1. retransmission \in 0..MaxFrameRetries /\ MaxFrameRetries \in Nat
  BY MacAssumption DEF NodeInv, AiredOK, MacAssumption
<1>2. CASE RetryLeft
  <2>1. retransmission' = retransmission + 1 /\ UNCHANGED <<confirms, airings>>
    BY <1>2 DEF PrepareRetransmission
  <2>2. QED
    BY <1>1, <1>2, <2>1 DEF RetryLeft, QueueLeft, PktLeft, NodeInv
<1>3. CASE ~RetryLeft
  <2>1. ConfirmFirst("NO_ACK")
    BY <1>3 DEF PrepareRetransmission
  <2>2. airings = MaxFrameRetries + 1
    BY <1>1, <1>3 DEF RetryLeft
  <2>3. Ordered(Tail(txQueue), confirms', requests) /\ retransmission' = 0 /\ airings' = 0
    BY <2>1, <2>2, ConfirmFirstKeeps DEF Queued
  <2>4. QED
    BY <1>1, <1>3, <2>3 DEF QueueLeft, PktLeft
<1>4. QED  BY <1>2, <1>3

LEMMA DataConfirmStep ==
    ASSUME NodeInv, initialized, PdDataConfirm
    PROVE  NodeInv'
<1>1. /\ Kind = "PdDataConfirm" /\ Tail(conf) = <<>> /\ macState = "MAC_SENDING"
      /\ setMacState = "none" /\ Status = IF txPkt.fits THEN "SUCCESS" ELSE "UNSPECIFIED"
  BY CallbackCases DEF PdDataConfirm, Called, Kind
<1>2. trxState = "TX_ON" /\ ~setTRXState /\ ~ackWaitTimeout /\ ~owedAck
      /\ (txPkt = AckPkt \/ Queued) /\ txPkt # NoPkt
  BY <1>1, QueuedIsPkt DEF NodeInv, LinkOK, SendingOK, AckTimerOwned, OwedOK, PktOK
<1>3. /\ NoPhyCall /\ conf' = <<>>
      /\ UNCHANGED <<macState, rxOnWhenIdle, initialized, macFault, incoming, requests, owedAck>>
      /\ UNCHANGED <<trxVars, rxVars, air, txVars, edRequest, fault>>
  BY <1>1, <1>2 DEF PdDataConfirm, NoPhyCall, macRest, trxRest
<1>4. Kind' = "none"
  BY <1>3 DEF Kind
<1>5. PhyOK' /\ ConfOK' /\ BoundOK'
  BY <1>3, <1>4, BoundKept DEF NodeInv, PhyOK, ConfOK, trxVars, rxVars, txVars
<1>6. setMacState' # "none" => LinkOK'
  BY <1>1, <1>2, <1>3, <1>4 DEF NodeInv, PhyOK, LinkOK, SendingOK, trxVars, rxVars
<1>7. CASE /\ Status = "SUCCESS" /\ txPkt.ackReq
           /\ ackWaitTimeout' = TRUE /\ setMacState' = "MAC_ACK_PENDING"
           /\ UNCHANGED <<txState, confirms, airings>>
  <2>1. Awaited
    BY <1>1, <1>2, <1>7, QueuedIsPkt DEF Awaited
  <2>2. PktOK' /\ AckTimerOwned' /\ OwedOK' /\ SwitchesOK'
    BY <1>1, <1>2, <1>3, <1>7, <2>1 DEF NodeInv, PktOK, Awaited, Queued, AckTimerOwned, OwedOK,
       SwitchesOK, txState
  <2>3. Aired /\ Aired'
    BY <1>1, <1>2, <1>3, <1>7, <2>1, QueuedIsPkt DEF Aired, Awaited, txState
  <2>4. AiredOK' /\ Ordered(txQueue, confirms, requests)'
    BY <1>3, <1>7, <2>3 DEF NodeInv, AiredOK, txState
  <2>5. QED
    BY <1>5, <1>6, <1>7, <2>2, <2>4 DEF NodeInv
<1>8. CASE /\ txPkt # AckPkt /\ (Status = "SUCCESS" => ~txPkt.ackReq)
           /\ ConfirmFirst(IF Status = "SUCCESS" THEN "SUCCESS" ELSE "FRAME_TOO_LONG")
           /\ txQueue' = Tail(txQueue) /\ txPkt' = NoPkt
           /\ setMacState' = "MAC_IDLE" /\ UNCHANGED ackWaitTimeout
  <2>1. Queued /\ retransmission \in 0..MaxFrameRetries /\ MaxFrameRetries \in Nat
    BY <1>2, <1>8, MacAssumption DEF NodeInv, AiredOK, MacAssumption
  <2>2. Status = "SUCCESS" => airings = retransmission + 1
    BY <1>1, <1>8 DEF NodeInv, AiredOK, Aired
  <2>3. Status # "SUCCESS" => airings = 0
    BY <1>1, <2>1 DEF NodeInv, AiredOK, Queued
  <2>4. /\ Ordered(Tail(txQueue), confirms', requests)
        /\ retransmission' = 0 /\ airings' = 0
    <3>1. CASE Status = "SUCCESS"
      BY <1>8, <2>1, <2>2, <3>1, ConfirmFirstKeeps DEF Queued
    <3>2. CASE Status # "SUCCESS"
      BY <1>8, <2>1, <2>3, <3>2, ConfirmFirstKeeps DEF Queued
    <3>3. QED  BY <3>1, <3>2
  <2>5. PktOK' /\ AckTimerOwned' /\ OwedOK' /\ SwitchesOK'
    BY <1>1, <1>2, <1>3, <1>8 DEF NodeInv, PktOK, AckTimerOwned, OwedOK, SwitchesOK
  <2>6. ~Aired'
    BY <1>1, <1>2, <1>3, <1>4, <1>8 DEF Aired, trxVars
  <2>7. AiredOK' /\ Ordered(txQueue, confirms, requests)'
    BY <1>3, <1>8, <2>1, <2>4, <2>6 DEF AiredOK
  <2>8. QED
    BY <1>5, <1>6, <1>8, <2>5, <2>7 DEF NodeInv
<1>9. CASE /\ txPkt = AckPkt
           /\ txPkt' = IF Status = "SUCCESS" THEN NoPkt ELSE txPkt
           /\ setMacState' = "MAC_IDLE"
           /\ UNCHANGED <<txQueue, retransmission, ackWaitTimeout, confirms, airings>>
  <2>1. txPkt' = NoPkt
    BY <1>1, <1>9, QueuedIsPkt
  <2>2. PktOK' /\ AckTimerOwned' /\ OwedOK' /\ SwitchesOK'
    BY <1>1, <1>2, <1>3, <1>9, <2>1 DEF NodeInv, PktOK, AckTimerOwned, OwedOK, SwitchesOK
  <2>3. ~Aired /\ ~Aired'
    BY <1>1, <1>2, <1>3, <1>4, <1>9 DEF Aired, trxVars
  <2>4. AiredOK' /\ Ordered(txQueue, confirms, requests)'
    BY <1>3, <1>9, <2>3 DEF NodeInv, AiredOK
  <2>5. QED
    BY <1>5, <1>6, <1>9, <2>2, <2>4 DEF NodeInv
<1>10. QED
  BY <1>1, <1>2, <1>7, <1>8, <1>9 DEF PdDataConfirm

\* A callback that changes nothing of the MAC and calls nobody: it only leaves conf.
LEMMA CallbackIgnored ==
    ASSUME NodeInv, initialized, conf # <<>>, Kind \in {"PlmeCcaConfirm", "PlmeSetTRXStateConfirm"},
           Kind = "PlmeSetTRXStateConfirm" => macState # "MAC_SENDING",
           NoPhyCall, UNCHANGED macVars
    PROVE  NodeInv'
<1>0. UNCHANGED <<macState, txState, timers, rxOnWhenIdle, initialized, macFault, incoming, histVars>>
  BY DEF macVars, macRest
<1>1. conf' = <<>> /\ UNCHANGED <<trxVars, rxVars, air, txVars, edRequest, fault>>
  BY CallbackCases DEF NoPhyCall, trxRest
<1>2. Kind' = "none"
  BY <1>1 DEF Kind
<1>3. PhyOK' /\ ConfOK'
  BY <1>1 DEF NodeInv, PhyOK, ConfOK, trxVars, rxVars, txVars
<1>4. LinkOK'
  <2>1. CASE macState = "MAC_SENDING"
    <3>1. /\ SendingOK /\ Kind = "PlmeCcaConfirm"
      BY <2>1 DEF NodeInv, LinkOK
    <3>2. SendingOK'
      BY <1>0, <1>1, <1>2, <3>1 DEF SendingOK, timers, txState, trxVars
    <3>3. QED  BY <1>0, <1>1, <2>1, <3>2 DEF NodeInv, LinkOK, timers, rxVars
  <2>2. CASE macState # "MAC_SENDING"
    BY <1>0, <1>1, <2>2 DEF NodeInv, LinkOK, timers, trxVars, rxVars
  <2>3. QED  BY <2>1, <2>2
<1>5. MacOK' /\ AiredOK' /\ OwedOK' /\ BoundOK'
  BY <1>0, <1>1, <1>2, MacKept, AiringsKept, BoundKept DEF trxVars, rxVars, histVars
<1>6. QED
  BY <1>3, <1>4, <1>5 DEF NodeInv, MacOK

LEMMA CcaConfirmStep ==
    ASSUME NodeInv, initialized, CcaConfirm
    PROVE  NodeInv'
<1>0. ~(macState = "MAC_CSMA" /\ txPkt = NoPkt)
  BY QueuedIsPkt DEF NodeInv, PktOK
<1>1. /\ conf # <<>> /\ Kind = "PlmeCcaConfirm" /\ Tail(conf) = <<>>
      /\ Status = "IDLE" => trxState \notin {"BUSY_RX", "BUSY_TX"}
  BY CallbackCases DEF CcaConfirm, Called, Kind
<1>2. UNCHANGED <<setMacState, ackWaitTimeout, rxOnWhenIdle, initialized, macFault, incoming,
                  requests, owedAck>>
  BY <1>0 DEF CcaConfirm, timers, macRest
<1>3. CASE /\ Verdict(Status) = "CHANNEL_IDLE" /\ macState = "MAC_CSMA"
           /\ macState' = "MAC_SENDING" /\ PlmeSetTRXStateRequest("TX_ON")
           /\ UNCHANGED <<txState, confirms, airings>>
  <2>1. Status = "IDLE"
    BY <1>3 DEF Verdict
  <2>2. setMacState = "none" /\ Queued /\ ~ackWaitTimeout /\ ~owedAck
        /\ (setTRXState => trxStatePending = "RX_ON")
    BY <1>3 DEF NodeInv, PktOK, AckTimerOwned, OwedOK, LinkOK
  <2>3. /\ PhyOK' /\ ConfOK' /\ LinkOK' /\ rxFrame' = rxFrame /\ trxState' # "BUSY_TX"
        /\ Kind' \in {"none", "PlmeCcaConfirm", "PlmeSetTRXStateConfirm"}
    BY <1>1, <1>2, <1>3, <2>1, <2>2, BeginSending DEF NodeInv
  <2>4. PktOK' /\ AckTimerOwned' /\ OwedOK' /\ SwitchesOK'
    BY <1>2, <1>3, <2>2 DEF NodeInv, PktOK, Queued, AckTimerOwned, OwedOK, SwitchesOK, txState
  <2>5. ~Aired /\ ~Aired'
    BY <1>2, <1>3, <2>2, <2>3 DEF Aired
  <2>6. AiredOK' /\ Ordered(txQueue, confirms, requests)'
    BY <1>2, <1>3, <2>5 DEF NodeInv, AiredOK, txState
  <2>7. BoundOK'
    BY <1>2, <2>3, BoundKept
  <2>8. QED  BY <2>3, <2>4, <2>6, <2>7 DEF NodeInv
<1>4. CASE /\ Verdict(Status) = "CHANNEL_ACCESS_FAILURE" /\ macState = "MAC_CSMA"
           /\ ConfirmFirst("CHANNEL_ACCESS_FAILURE")
           /\ txQueue' = Tail(txQueue) /\ txPkt' = NoPkt
           /\ macState' = "MAC_IDLE"
           /\ NoPhyCall
  <2>1. conf' = <<>> /\ UNCHANGED <<trxVars, rxVars, air, txVars, edRequest, fault>>
    BY <1>1, <1>4 DEF NoPhyCall, trxRest
  <2>2. setMacState = "none" /\ Queued /\ ~ackWaitTimeout /\ ~owedAck /\ ~Aired
    BY <1>4 DEF NodeInv, PktOK, AckTimerOwned, OwedOK, Aired
  <2>3. airings <= MaxFrameRetries
    BY <2>2, MacAssumption DEF NodeInv, AiredOK, MacAssumption
  <2>4. Ordered(Tail(txQueue), confirms', requests) /\ retransmission' = 0 /\ airings' = 0
    BY <1>4, <2>2, <2>3, ConfirmFirstKeeps DEF Queued
  <2>5. Kind' = "none" /\ ~Aired'
    BY <1>4, <2>1 DEF Kind, Aired
  <2>6. PhyOK' /\ ConfOK' /\ LinkOK'
    BY <1>2, <1>4, <2>1, <2>2 DEF NodeInv, PhyOK, ConfOK, LinkOK, trxVars, rxVars, txVars
  <2>7. PktOK' /\ AckTimerOwned' /\ OwedOK' /\ SwitchesOK'
    BY <1>2, <1>4, <2>2 DEF NodeInv, PktOK, AckTimerOwned, OwedOK, SwitchesOK
  <2>8. AiredOK' /\ Ordered(txQueue, confirms, requests)'
    BY <1>2, <1>4, <2>4, <2>5, MacAssumption DEF AiredOK, MacAssumption
  <2>9. BoundOK'
    BY <1>2, <2>1, <2>5, BoundKept DEF rxVars
  <2>10. QED  BY <2>6, <2>7, <2>8, <2>9 DEF NodeInv
<1>5. CASE NoPhyCall /\ UNCHANGED <<macState, txState, confirms, airings>>
  <2>1. UNCHANGED macVars
    BY <1>2, <1>5 DEF macVars, macRest, timers, histVars
  <2>2. QED  BY <1>1, <1>5, <2>1, CallbackIgnored
<1>6. QED
  BY <1>0, <1>3, <1>4, <1>5 DEF CcaConfirm

LEMMA TrxConfirmStep ==
    ASSUME NodeInv, initialized, PlmeSetTRXStateConfirm
    PROVE  NodeInv'
<1>1. conf # <<>> /\ Kind = "PlmeSetTRXStateConfirm" /\ Tail(conf) = <<>> /\ Status \in Expected
  BY CallbackCases DEF PlmeSetTRXStateConfirm, Called, Kind
<1>2. macState = "MAC_SENDING" =>
        /\ setMacState = "none" /\ trxState = "TX_ON" /\ ~setTRXState
        /\ (txPkt = AckPkt \/ Queued) /\ txPkt # NoPkt
  BY <1>1, QueuedIsPkt DEF NodeInv, LinkOK, SendingOK, PktOK
<1>3. CASE macState = "MAC_SENDING"
  <2>1. /\ PdDataRequest(~txPkt.fits)
        /\ airings' = airings + (IF trxState' = "BUSY_TX" /\ txPkt # AckPkt THEN 1 ELSE 0)
        /\ owedAck' = (owedAck /\ ~(trxState' = "BUSY_TX" /\ txPkt = AckPkt))
        /\ UNCHANGED <<macState, txQueue, txPkt, retransmission, setMacState, ackWaitTimeout,
                       rxOnWhenIdle, initialized, macFault, incoming, confirms, requests>>
    BY <1>1, <1>2, <1>3 DEF PlmeSetTRXStateConfirm, txState, timers, macRest
  <2>2. ~Aired /\ ~ackWaitTimeout /\ rxFrame = NoFrame
    BY <1>1, <1>2, <1>3 DEF Aired, NodeInv, AckTimerOwned, PhyOK
  <2>3. PktOK' /\ AckTimerOwned' /\ SwitchesOK' /\ Ordered(txQueue, confirms, requests)'
    BY <2>1 DEF NodeInv, PktOK, Queued, Awaited, AckTimerOwned, SwitchesOK
  <2>4. CASE txPkt.fits
    <3>1. /\ trxState' = "BUSY_TX" /\ pdDataRequest' = TRUE /\ txAborted' = FALSE
          /\ staleEndTx' = 0 /\ conf' = <<>>
          /\ UNCHANGED <<trxStatePending, setTRXState, rxVars, air, edRequest, fault>>
      BY <1>2, <1>3, <2>1, <2>4 DEF PdDataRequest, BeginTx, NodeInv, PhyOK
    <3>2. Kind' = "none"
      BY <3>1 DEF Kind
    <3>3. PhyOK' /\ ConfOK'
      BY <1>2, <1>3, <2>2, <3>1 DEF NodeInv, PhyOK, TrxStates, ConfOK, rxVars
    <3>4. LinkOK'
      BY <1>2, <1>3, <2>1, <2>2, <2>4, <3>1, <3>2 DEF NodeInv, LinkOK, SendingOK, rxVars
    <3>5. Aired' <=> txPkt # AckPkt
      BY <1>3, <2>1, <3>1 DEF Aired
    <3>6. AiredOK' /\ OwedOK'
      <4>1. retransmission \in Nat /\ airings = retransmission
        BY <2>2, MacAssumption DEF NodeInv, AiredOK, MacAssumption
      <4>2. airings' = retransmission' + (IF Aired' THEN 1 ELSE 0)
        BY <2>1, <3>1, <3>5, <4>1
      <4>3. retransmission' \in 0..MaxFrameRetries
        BY <2>1 DEF NodeInv, AiredOK
      <4>4. txQueue' = <<>> \/ ~Head(txQueue').fits => airings' = 0
        <5>1. CASE txPkt = AckPkt
          BY <2>1, <4>1, <5>1 DEF NodeInv, AiredOK
        <5>2. CASE txPkt # AckPkt
          BY <1>2, <1>3, <2>1, <2>4, <5>2 DEF Queued
        <5>3. QED  BY <5>1, <5>2
      <4>5. OwedOK'
        BY <1>2, <1>3, <2>1, <3>1 DEF NodeInv, OwedOK
      <4>6. QED  BY <4>2, <4>3, <4>4, <4>5 DEF AiredOK
    <3>7. BoundOK'
      BY <2>1, <3>1, <3>2, BoundKept DEF rxVars
    <3>8. QED  BY <2>3, <3>3, <3>4, <3>6, <3>7 DEF NodeInv
  <2>5. CASE ~txPkt.fits
    <3>1. /\ conf' = <<Callback("PdDataConfirm", "UNSPECIFIED")>>
          /\ UNCHANGED <<trxVars, rxVars, air, txVars, edRequest, fault>>
      BY <1>2, <1>3, <2>1, <2>5 DEF PdDataRequest
    <3>2. Kind' = "PdDataConfirm" /\ Status' = "UNSPECIFIED"
      BY <3>1, KindNext
    <3>3. PhyOK'
      BY <3>1 DEF NodeInv, PhyOK, trxVars, rxVars, txVars
    <3>4. ConfOK' /\ LinkOK'
      BY <1>2, <1>3, <2>1, <2>2, <2>5, <3>1, <3>2
      DEF NodeInv, ConfOK, LinkOK, SendingOK, trxVars, rxVars
    <3>5. ~Aired' /\ txPkt # AckPkt /\ airings' = airings
      BY <1>2, <1>3, <2>1, <2>5, <3>1, QueuedIsPkt, MacAssumption
      DEF Aired, trxVars, NodeInv, AiredOK, MacAssumption
    <3>6. AiredOK' /\ OwedOK'
      BY <1>2, <1>3, <2>1, <2>2, <3>5 DEF NodeInv, AiredOK, OwedOK
    <3>7. BoundOK'
      BY <2>1, <3>1, <3>2, BoundKept DEF rxVars
    <3>8. QED  BY <2>3, <3>3, <3>4, <3>6, <3>7 DEF NodeInv
  <2>6. QED  BY <2>4, <2>5
<1>4. CASE macState # "MAC_SENDING"
  <2>1. NoPhyCall /\ UNCHANGED macVars
    BY <1>1, <1>4 DEF PlmeSetTRXStateConfirm
  <2>2. QED  BY <1>1, <1>4, <2>1, CallbackIgnored
<1>5. QED  BY <1>3, <1>4

\* Wherever the frame indicated leads, the transceiver keeps its state, and a deferred
\* switch that was done with it is confirmed next.
LEMMA IndicationPhy ==
    ASSUME NodeInv, initialized, conf # <<>>, Kind = "PdDataIndication", NoPhyCall,
           UNCHANGED macRest, macState' # "MAC_SENDING"
    PROVE  /\ PhyOK' /\ ConfOK' /\ LinkOK' /\ trxState' = trxState
           /\ Kind' \in {"none", "PlmeSetTRXStateConfirm"}
<1>1. /\ Tail(conf) \in {<<>>, Trx("SUCCESS")} /\ rxFrame = NoFrame
      /\ macState # "MAC_SENDING"
  BY CallbackCases
<1>2. /\ conf' \in {<<>>, Trx("SUCCESS")}
      /\ UNCHANGED <<trxVars, rxVars, air, txVars, edRequest, fault>> /\ initialized'
  BY <1>1 DEF NoPhyCall, trxRest, macRest
<1>3. PhyOK' /\ trxState' = trxState
  BY <1>2 DEF NodeInv, PhyOK, trxVars, rxVars, txVars
<1>4. LinkOK'
  BY <1>1, <1>2 DEF NodeInv, LinkOK, trxVars, rxVars
<1>5. CASE conf' = <<>>
  BY <1>3, <1>4, <1>5 DEF ConfOK, Kind
<1>6. CASE conf' = Trx("SUCCESS")
  <2>1. Kind' = "PlmeSetTRXStateConfirm" /\ Status' = "SUCCESS"
    BY <1>6, KindNext DEF Trx
  <2>2. "SUCCESS" \in Expected'
    BY DEF Expected
  <2>3. ConfOK'
    BY <1>6, <2>1, <2>2 DEF ConfOK
  <2>4. QED  BY <1>3, <1>4, <2>1, <2>3
<1>7. QED  BY <1>2, <1>5, <1>6

\* While a frame is indicated there is room for its forwarded copy, under the next number.
LEMMA ForwardRoom ==
    ASSUME NodeInv, Kind = "PdDataIndication", NEW f \in Frames
    PROVE  /\ ForwardedFrame(f) \in Pkts /\ ForwardedFrame(f).id = requests + 1
           /\ requests \in Nat
           /\ incoming \in Nat /\ incoming + 1 <= MaxIncoming
           /\ requests + 1 + incoming <= MaxRequests + MaxIncoming
<1>1. /\ requests \in Nat /\ incoming \in Nat /\ incoming + 1 <= MaxIncoming
      /\ requests + incoming + 1 <= MaxRequests + MaxIncoming
  BY DEF NodeInv, Ordered, BoundOK, Arriving
<1>2. requests + 1 \in Ids /\ requests + 1 + incoming <= MaxRequests + MaxIncoming
  BY <1>1, MacAssumption DEF Ids, MacAssumption
<1>3. f.broadcast \in BOOLEAN
  BY MacAssumption DEF MacAssumption
<1>4. QED
  BY <1>1, <1>2, <1>3 DEF ForwardedFrame, Frame, Pkts

\* The bound, and the queue, with the forwarded copy or without.
LEMMA IndicationQueue ==
    ASSUME NodeInv, Kind = "PdDataIndication", NEW f \in Frames,
           NEW q, Ordered(q, confirms', requests),
           \/ txQueue' = q /\ requests' = requests
           \/ txQueue' = Append(q, ForwardedFrame(f)) /\ requests' = requests + 1,
           rxFrame' = rxFrame, rxFrame = NoFrame, incoming' = incoming,
           Kind' # "PdDataIndication"
    PROVE  /\ Ordered(txQueue, confirms, requests)' /\ BoundOK'
           /\ q # <<>> => txQueue' # <<>> /\ Head(txQueue') = Head(q)
           /\ q = <<>> => txQueue' = <<>> \/ Head(txQueue') = ForwardedFrame(f)
<1>1. /\ ForwardedFrame(f) \in Pkts /\ ForwardedFrame(f).id = requests + 1
      /\ requests \in Nat
      /\ incoming \in Nat /\ incoming + 1 <= MaxIncoming
      /\ requests + 1 + incoming <= MaxRequests + MaxIncoming
  BY ForwardRoom
<1>2. Arriving' = 0
  BY DEF Arriving
<1>3. BoundOK'
  BY <1>1, <1>2, MacAssumption DEF BoundOK, MacAssumption
<1>4. Ordered(txQueue', confirms', requests')
  <2>1. Ordered(Append(q, ForwardedFrame(f)), confirms', requests + 1)
    BY <1>1, Enqueue
  <2>2. QED  BY <2>1
<1>5. q \in Seq(Pkts)
  BY DEF Ordered
<1>6. QED
  BY <1>1, <1>3, <1>4, <1>5, QueueHead

LEMMA ReceivePlainStep ==
    ASSUME NodeInv, initialized, conf # <<>>, Kind = "PdDataIndication", NoPhyCall,
           UNCHANGED macRest, NEW f \in Frames, ReceivePlain(f)
    PROVE  NodeInv'
<1>1. /\ FreeToReceive /\ macState # "MAC_SENDING" /\ rxFrame = NoFrame
      /\ UNCHANGED <<macState, retransmission, ackWaitTimeout, confirms, airings, owedAck>>
      /\ UNCHANGED <<rxVars, rxOnWhenIdle, initialized, macFault, incoming>>
  BY CallbackCases DEF ReceivePlain, macRest, NoPhyCall, trxRest
<1>2. /\ PhyOK' /\ ConfOK' /\ LinkOK' /\ trxState' = trxState
      /\ Kind' \in {"none", "PlmeSetTRXStateConfirm"}
  BY <1>1, IndicationPhy
<1>3. /\ Ordered(txQueue, confirms, requests)' /\ BoundOK'
      /\ txQueue # <<>> => txQueue' # <<>> /\ Head(txQueue') = Head(txQueue)
  <2>1. Ordered(txQueue, confirms', requests)
    BY <1>1 DEF NodeInv
  <2>2. \/ txQueue' = txQueue /\ requests' = requests
        \/ txQueue' = Append(txQueue, ForwardedFrame(f)) /\ requests' = requests + 1
    BY DEF ReceivePlain
  <2>3. rxFrame' = rxFrame /\ rxFrame = NoFrame /\ incoming' = incoming
        /\ Kind' # "PdDataIndication"
    BY <1>1, <1>2 DEF rxVars
  <2>4. QED  BY <2>1, <2>2, <2>3, IndicationQueue
<1>4. \/ txPkt' = txPkt /\ setMacState' = setMacState
      \/ /\ macState = "MAC_IDLE" /\ txQueue' # <<>> /\ txPkt = NoPkt /\ setMacState = "none"
         /\ txPkt' = Head(txQueue') /\ setMacState' = "MAC_CSMA"
  BY <1>1 DEF ReceivePlain, CheckQueue
<1>5. ~owedAck
  BY <1>1 DEF NodeInv, OwedOK, FreeToReceive
<1>6. Queued /\ txPkt' = txPkt => Queued'
  BY <1>3 DEF Queued
<1>7. PktOK'
  BY <1>1, <1>3, <1>4, <1>6 DEF NodeInv, PktOK, Queued, Awaited, SwitchesOK
<1>8. AckTimerOwned' /\ OwedOK' /\ SwitchesOK'
  BY <1>1, <1>4, <1>5 DEF NodeInv, AckTimerOwned, OwedOK, SwitchesOK
<1>9. Aired' <=> Aired
  BY <1>1, <1>4 DEF Aired
<1>10. AiredOK'
  BY <1>1, <1>3, <1>9 DEF NodeInv, AiredOK
<1>11. QED
  BY <1>2, <1>3, <1>7, <1>8, <1>10 DEF NodeInv

LEMMA ReceiveAckReqStep ==
    ASSUME NodeInv, initialized, conf # <<>>, Kind = "PdDataIndication", NoPhyCall,
           UNCHANGED macRest, NEW f \in Frames, ReceiveAckReq(f)
    PROVE  NodeInv'
<1> DEFINE interrupts == macState = "MAC_ACK_PENDING"
           left == IF interrupts THEN QueueLeft ELSE txQueue
           pkt  == IF interrupts THEN PktLeft ELSE txPkt
<1>1. /\ FreeToReceive /\ macState # "MAC_SENDING" /\ rxFrame = NoFrame
      /\ UNCHANGED <<rxVars, rxOnWhenIdle, initialized, macFault, incoming>>
  BY CallbackCases DEF macRest, NoPhyCall, trxRest
<1>2. /\ macState' = "MAC_IDLE" /\ owedAck' = TRUE /\ setMacState' = "SendAck" /\ txPkt' = pkt
      /\ \/ txQueue' = left /\ requests' = requests
         \/ txQueue' = Append(left, ForwardedFrame(f)) /\ requests' = requests + 1
      /\ interrupts => PrepareRetransmission /\ ackWaitTimeout' = FALSE
      /\ ~interrupts => UNCHANGED <<retransmission, confirms, airings, ackWaitTimeout>>
  BY DEF ReceiveAckReq, CheckQueue, CancelAckTimer
<1>3. /\ PhyOK' /\ ConfOK' /\ LinkOK' /\ trxState' = trxState
      /\ Kind' \in {"none", "PlmeSetTRXStateConfirm"}
  BY <1>1, <1>2, IndicationPhy
<1>4. /\ Ordered(left, confirms', requests) /\ ackWaitTimeout' = FALSE
      /\ retransmission' \in 0..MaxFrameRetries /\ airings' = retransmission'
      /\ left = <<>> \/ ~Head(left).fits => airings' = 0
      /\ pkt = NoPkt \/ (left # <<>> /\ pkt = Head(left))
  <2>1. CASE interrupts
    <3>1. Awaited /\ Aired
      BY <1>1, <2>1 DEF NodeInv, PktOK, Aired, FreeToReceive
    <3>2. airings = retransmission + 1
      BY <3>1 DEF NodeInv, AiredOK
    <3>3. /\ Ordered(QueueLeft, confirms', requests)
          /\ retransmission' \in 0..MaxFrameRetries /\ airings' = retransmission'
          /\ RetryLeft => airings' = airings /\ QueueLeft = txQueue /\ PktLeft = txPkt
          /\ ~RetryLeft => airings' = 0 /\ PktLeft = NoPkt
      BY <1>2, <2>1, <3>1, <3>2, RetryKeeps DEF Awaited
    <3>4. QED
      BY <1>2, <2>1, <3>1, <3>3 DEF Awaited, Queued
  <2>2. CASE ~interrupts
    <3>1. ~Aired /\ ~ackWaitTimeout /\ (txPkt = NoPkt \/ Queued)
      BY <1>1, <2>2 DEF NodeInv, PktOK, Aired, AckTimerOwned, SwitchesOK, FreeToReceive
    <3>2. retransmission \in 0..MaxFrameRetries /\ airings = retransmission
      BY <3>1, MacAssumption DEF NodeInv, AiredOK, MacAssumption
    <3>3. Ordered(txQueue, confirms', requests)
      BY <1>2, <2>2 DEF NodeInv
    <3>4. ackWaitTimeout' = FALSE
      BY <1>2, <2>2, <3>1 DEF NodeInv, SwitchesOK
    <3>5. QED
      BY <1>2, <2>2, <3>1, <3>2, <3>3, <3>4 DEF Queued, NodeInv, AiredOK
  <2>3. QED  BY <2>1, <2>2
<1>5. /\ Ordered(txQueue, confirms, requests)' /\ BoundOK'
      /\ left # <<>> => txQueue' # <<>> /\ Head(txQueue') = Head(left)
  <2>1. rxFrame' = rxFrame /\ rxFrame = NoFrame /\ incoming' = incoming
        /\ Kind' # "PdDataIndication"
    BY <1>1, <1>3 DEF rxVars
  <2>2. Ordered(left, confirms', requests)
    BY <1>4
  <2>3. \/ txQueue' = left /\ requests' = requests
        \/ txQueue' = Append(left, ForwardedFrame(f)) /\ requests' = requests + 1
    BY <1>2
  <2> HIDE DEF left
  <2>4. QED  BY <2>1, <2>2, <2>3, IndicationQueue
<1>6. PktOK' /\ AckTimerOwned' /\ OwedOK' /\ SwitchesOK'
  BY <1>1, <1>2, <1>4, <1>5 DEF NodeInv, PktOK, Queued, AckTimerOwned, OwedOK, SwitchesOK
<1>7. ~Aired'
  BY <1>2 DEF Aired
<1>8. AiredOK'
  <2>1. retransmission' \in Nat
    BY <1>4, MacAssumption DEF MacAssumption
  <2>2. airings' = retransmission' + (IF Aired' THEN 1 ELSE 0)
    <3>1. PICK r \in Nat : r = retransmission'
      BY <2>1
    <3>2. r + 0 = r
      OBVIOUS
    <3>3. QED  BY <1>4, <1>7, <3>1, <3>2
  <2>3. txQueue' = <<>> \/ ~Head(txQueue').fits => airings' = 0
    BY <1>4, <1>5
  <2>4. QED  BY <1>4, <2>2, <2>3 DEF AiredOK
<1>9. QED
  BY <1>3, <1>5, <1>6, <1>8 DEF NodeInv

LEMMA ReceiveAckStep ==
    ASSUME NodeInv, initialized, conf # <<>>, Kind = "PdDataIndication", NoPhyCall,
           UNCHANGED macRest, NEW expected \in BOOLEAN, ReceiveAck(expected)
    PROVE  NodeInv'
<1>1. /\ FreeToReceive /\ macState # "MAC_SENDING" /\ rxFrame = NoFrame
      /\ UNCHANGED <<macState, requests, owedAck>>
      /\ UNCHANGED <<rxVars, rxOnWhenIdle, initialized, macFault, incoming>>
  BY CallbackCases DEF ReceiveAck, macRest, NoPhyCall, trxRest
<1>2. /\ PhyOK' /\ ConfOK' /\ LinkOK' /\ trxState' = trxState
      /\ Kind' \in {"none", "PlmeSetTRXStateConfirm"}
  BY <1>1, IndicationPhy
<1>3. BoundOK'
  BY <1>1, <1>2, BoundKept DEF rxVars
<1>4. ~owedAck
  BY <1>1 DEF NodeInv, OwedOK, FreeToReceive
<1>5. CASE UNCHANGED <<txState, timers, confirms, airings>>
  <2>1. MacOK'
    BY <1>1, <1>5, MacKept DEF histVars
  <2>2. Aired' <=> Aired
    BY <1>1, <1>5 DEF Aired, timers, txState
  <2>3. AiredOK' /\ OwedOK'
    BY <1>1, <1>4, <1>5, <2>2 DEF NodeInv, AiredOK, OwedOK, txState
  <2>4. QED  BY <1>2, <1>3, <2>1, <2>3 DEF NodeInv, MacOK
<1>6. CASE ~(txPkt = NoPkt \/ macState # "MAC_ACK_PENDING")
  <2>1. Awaited /\ airings = retransmission + 1 /\ retransmission \in 0..MaxFrameRetries
    BY <1>1, <1>6 DEF NodeInv, PktOK, AiredOK, Aired, FreeToReceive
  <2>2. ackWaitTimeout' = FALSE
    BY <1>6 DEF ReceiveAck, CancelAckTimer
  <2>3. CASE expected
    <3>1. /\ ConfirmFirst("SUCCESS") /\ txQueue' = Tail(txQueue) /\ txPkt' = NoPkt
          /\ setMacState' = "MAC_IDLE"
      BY <1>6, <2>3 DEF ReceiveAck
    <3>2. airings \in 1..(MaxFrameRetries + 1)
      BY <2>1, MacAssumption DEF MacAssumption
    <3>3. /\ Ordered(Tail(txQueue), confirms', requests)
          /\ retransmission' = 0 /\ airings' = 0
      BY <2>1, <3>1, <3>2, ConfirmFirstKeeps DEF Awaited, Queued
    <3>4. PktOK' /\ AckTimerOwned' /\ OwedOK' /\ SwitchesOK'
      BY <1>1, <1>4, <1>6, <2>2, <3>1 DEF NodeInv, PktOK, AckTimerOwned, OwedOK, SwitchesOK
    <3>5. ~Aired'
      BY <1>1, <1>6, <3>1 DEF Aired
    <3>6. AiredOK' /\ Ordered(txQueue, confirms, requests)'
      BY <1>1, <3>1, <3>3, <3>5, MacAssumption DEF AiredOK, MacAssumption
    <3>7. QED  BY <1>2, <1>3, <3>4, <3>6 DEF NodeInv
  <2>4. CASE ~expected
    <3>1. /\ PrepareRetransmission /\ txQueue' = QueueLeft /\ txPkt' = PktLeft
          /\ setMacState' = IF RetryLeft THEN "MAC_CSMA" ELSE "MAC_IDLE"
      BY <1>6, <2>4 DEF ReceiveAck
    <3>2. /\ Ordered(QueueLeft, confirms', requests)
          /\ retransmission' \in 0..MaxFrameRetries /\ airings' = retransmission'
          /\ RetryLeft => airings' = airings /\ QueueLeft = txQueue /\ PktLeft = txPkt
          /\ ~RetryLeft => airings' = 0 /\ PktLeft = NoPkt
      BY <2>1, <3>1, RetryKeeps DEF Awaited
    <3>3. PktOK' /\ AckTimerOwned' /\ OwedOK' /\ SwitchesOK'
      BY <1>1, <1>4, <1>6, <2>1, <2>2, <3>1, <3>2
      DEF NodeInv, PktOK, Awaited, Queued, AckTimerOwned, OwedOK, SwitchesOK
    <3>4. ~Aired'
      BY <1>1, <1>6, <3>1 DEF Aired
    <3>5. txQueue' = <<>> \/ ~Head(txQueue').fits => airings' = 0
      BY <2>1, <3>1, <3>2 DEF Awaited, Queued
    <3>6. AiredOK' /\ Ordered(txQueue, confirms, requests)'
      <4>1. retransmission' \in Nat
        BY <3>2, MacAssumption DEF MacAssumption
      <4>2. airings' = retransmission' + (IF Aired' THEN 1 ELSE 0)
        <5>1. PICK r \in Nat : r = retransmission'
          BY <4>1
        <5>2. r + 0 = r
          OBVIOUS
        <5>3. QED  BY <3>2, <3>4, <5>1, <5>2
      <4>3. Ordered(txQueue', confirms', requests')
        BY <1>1, <3>1, <3>2
      <4>4. QED  BY <3>2, <3>5, <4>2, <4>3 DEF AiredOK
    <3>7. QED  BY <1>2, <1>3, <3>3, <3>6 DEF NodeInv
  <2>5. QED  BY <2>3, <2>4
<1>7. QED  BY <1>5, <1>6 DEF ReceiveAck

LEMMA DataIndicationStep ==
    ASSUME NodeInv, initialized, PdDataIndication
    PROVE  NodeInv'
<1>1. conf # <<>> /\ Kind = "PdDataIndication" /\ macState # "MAC_SENDING" /\ Status \in Frames
  BY CallbackCases DEF PdDataIndication, Called, Kind
<1>2. NoPhyCall /\ UNCHANGED macRest
  BY <1>1 DEF PdDataIndication
<1>3. CASE ReceivePlain(Status)
  BY <1>1, <1>2, <1>3, ReceivePlainStep
<1>4. CASE ReceiveAckReq(Status)
  BY <1>1, <1>2, <1>4, ReceiveAckReqStep
<1>5. CASE \E expected \in BOOLEAN : ReceiveAck(expected)
  BY <1>1, <1>2, <1>5, ReceiveAckStep
<1>6. CASE UNCHANGED <<csmaVars, macState, txState, timers, histVars>>
  <2>1. /\ PhyOK' /\ ConfOK' /\ LinkOK' /\ trxState' = trxState
        /\ Kind' \in {"none", "PlmeSetTRXStateConfirm"}
    BY <1>1, <1>2, <1>6, IndicationPhy
  <2>2. MacOK'
    BY <1>2, <1>6, MacKept DEF macRest
  <2>3. Aired' <=> Aired
    BY <1>1, <1>6, <2>1 DEF Aired, timers, txState
  <2>4. ~owedAck \/ setMacState = "SendAck"
    BY <1>1 DEF NodeInv, OwedOK
  <2>5. AiredOK' /\ OwedOK'
    BY <1>6, <2>3, <2>4 DEF NodeInv, AiredOK, OwedOK, txState, timers, histVars
  <2>6. BoundOK'
    BY <1>2, <1>6, <2>1, BoundKept DEF macRest, histVars, NoPhyCall, trxRest, rxVars
  <2>7. QED  BY <2>1, <2>2, <2>5, <2>6 DEF NodeInv, MacOK
<1>7. QED
  BY <1>1, <1>3, <1>4, <1>5, <1>6 DEF PdDataIndication

LEMMA RunSetMacStateStep ==
    ASSUME NodeInv, initialized, conf = <<>>, RunSetMacState
    PROVE  NodeInv'
<1> DEFINE s == IF setMacState = "MAC_IDLE" THEN IdleTrxState ELSE "RX_ON"
<1>1. /\ setMacState \in {"MAC_IDLE", "MAC_ACK_PENDING", "MAC_CSMA"}
      /\ setMacState = "MAC_CSMA" => CsmaAllowed /\ Queued
      /\ setMacState = "MAC_ACK_PENDING" => macState = "MAC_SENDING" /\ Awaited
      /\ setMacState = "MAC_IDLE" => txPkt = NoPkt
  BY DEF RunSetMacState, NodeInv, PktOK, SwitchesOK, CsmaAllowed, Awaited
<1>2. SetLrWpanMacState(setMacState, txQueue, txPkt)
      /\ UNCHANGED <<txQueue, retransmission, ackWaitTimeout, rxOnWhenIdle, initialized,
                     macFault, incoming, confirms, requests, airings, owedAck>>
  BY <1>1 DEF RunSetMacState, macRest, histVars
<1>3. /\ macState' = setMacState /\ PlmeSetTRXStateRequest(s)
      /\ s \in {"RX_ON", "TRX_OFF"} /\ (s = "TRX_OFF" => macState' = "MAC_IDLE")
      /\ setMacState = "MAC_IDLE" =>
           \/ txQueue # <<>> /\ txPkt' = Head(txQueue) /\ setMacState' = "MAC_CSMA"
           \/ txPkt' = txPkt /\ setMacState' = "none"
      /\ setMacState # "MAC_IDLE" => txPkt' = txPkt /\ setMacState' = "none"
  BY <1>2 DEF SetLrWpanMacState, CheckQueue, IdleTrxState
<1>4. trxState # "BUSY_TX"
  BY <1>1 DEF NodeInv, LinkOK, SendingOK
<1>5. /\ PhyOK' /\ ConfOK' /\ LinkOK' /\ rxFrame' = rxFrame
      /\ Kind' \in {"none", "PlmeSetTRXStateConfirm"}
  <2>1. macState' \in {"MAC_IDLE", "MAC_CSMA", "MAC_ACK_PENDING"} /\ initialized'
        /\ setMacState' # "SendAck"
    BY <1>1, <1>2, <1>3
  <2> HIDE DEF s
  <2>2. QED  BY <1>3, <1>4, <2>1, Settle DEF NodeInv
<1>6. PktOK' /\ AckTimerOwned' /\ SwitchesOK'
  BY <1>1, <1>2, <1>3 DEF NodeInv, PktOK, Queued, Awaited, AckTimerOwned, SwitchesOK, CsmaAllowed
<1>7. ~owedAck
  BY <1>1 DEF NodeInv, OwedOK
<1>8. Kind = "none"
  BY DEF Kind
<1>9. Aired' <=> Aired
  BY <1>1, <1>3, <1>4, <1>5, <1>8, QueuedIsPkt DEF Aired, Awaited
<1>10. AiredOK' /\ OwedOK'
  BY <1>2, <1>7, <1>9 DEF NodeInv, AiredOK, OwedOK
<1>11. BoundOK' /\ Ordered(txQueue, confirms, requests)'
  BY <1>2, <1>5, BoundKept DEF NodeInv
<1>12. QED
  BY <1>5, <1>6, <1>10, <1>11 DEF NodeInv

LEMMA SendAckStep ==
    ASSUME NodeInv, initialized, conf = <<>>, SendAck
    PROVE  NodeInv'
<1>1. /\ setMacState = "SendAck" /\ macState = "MAC_IDLE" /\ rxFrame = NoFrame /\ ~ackWaitTimeout
      /\ trxState \notin {"BUSY_TX", "BUSY_RX"} /\ (setTRXState => trxStatePending = "RX_ON")
  BY DEF SendAck, NodeInv, PktOK, SwitchesOK, LinkOK, PhyOK, AckTimerOwned
<1>2. /\ setMacState' = "none" /\ txPkt' = AckPkt /\ macState' = "MAC_SENDING"
      /\ PlmeSetTRXStateRequest("TX_ON")
      /\ UNCHANGED <<txQueue, retransmission, ackWaitTimeout, rxOnWhenIdle, initialized,
                     macFault, incoming, confirms, requests, airings, owedAck>>
  BY <1>1 DEF SendAck, macRest, histVars
<1>3. /\ PhyOK' /\ ConfOK' /\ LinkOK' /\ rxFrame' = rxFrame /\ trxState' # "BUSY_TX"
      /\ Kind' \in {"none", "PlmeCcaConfirm", "PlmeSetTRXStateConfirm"}
  BY <1>1, <1>2, BeginSending DEF NodeInv
<1>4. PktOK' /\ AckTimerOwned' /\ SwitchesOK' /\ OwedOK'
  BY <1>1, <1>2, <1>3 DEF NodeInv, PktOK, AckTimerOwned, SwitchesOK, OwedOK
<1>5. ~Aired /\ ~Aired'
  BY <1>1, <1>2 DEF Aired
<1>6. AiredOK'
  BY <1>2, <1>5 DEF NodeInv, AiredOK
<1>7. BoundOK' /\ Ordered(txQueue, confirms, requests)'
  BY <1>2, <1>3, BoundKept DEF NodeInv
<1>8. QED
  BY <1>3, <1>4, <1>6, <1>7 DEF NodeInv

LEMMA AckWaitTimeoutStep ==
    ASSUME NodeInv, initialized, conf = <<>>, AckWaitTimeout
    PROVE  NodeInv'
<1> DEFINE st == IF RetryLeft THEN "MAC_CSMA" ELSE "MAC_IDLE"
           s == IF st = "MAC_IDLE" THEN IdleTrxState ELSE "RX_ON"
<1>1. /\ macState = "MAC_ACK_PENDING" /\ setMacState = "none" /\ Awaited /\ ~owedAck
      /\ trxState # "BUSY_TX"
  BY DEF AckWaitTimeout, NodeInv, AckTimerOwned, PktOK, OwedOK, LinkOK
<1>2. airings = retransmission + 1
  BY <1>1 DEF NodeInv, AiredOK, Aired
<1>3. /\ ackWaitTimeout' = FALSE /\ PrepareRetransmission /\ txQueue' = QueueLeft
      /\ SetLrWpanMacState(st, QueueLeft, PktLeft)
      /\ UNCHANGED <<rxOnWhenIdle, initialized, macFault, incoming, requests, owedAck>>
  BY <1>1 DEF AckWaitTimeout, CsmaAllowed, macRest
<1>4. /\ Ordered(QueueLeft, confirms', requests)
      /\ retransmission' \in 0..MaxFrameRetries /\ airings' = retransmission'
      /\ RetryLeft => airings' = airings /\ QueueLeft = txQueue /\ PktLeft = txPkt
      /\ ~RetryLeft => airings' = 0 /\ PktLeft = NoPkt
  BY <1>1, <1>2, <1>3, RetryKeeps DEF Awaited
<1>5. /\ macState' = st /\ PlmeSetTRXStateRequest(s)
      /\ s \in {"RX_ON", "TRX_OFF"} /\ (s = "TRX_OFF" => macState' = "MAC_IDLE")
      /\ RetryLeft => txPkt' = txPkt /\ setMacState' = "none"
      /\ ~RetryLeft =>
           \/ QueueLeft # <<>> /\ txPkt' = Head(QueueLeft) /\ setMacState' = "MAC_CSMA"
           \/ txPkt' = NoPkt /\ setMacState' = "none"
  BY <1>3, <1>4 DEF SetLrWpanMacState, CheckQueue, IdleTrxState
<1>6. /\ PhyOK' /\ ConfOK' /\ LinkOK' /\ rxFrame' = rxFrame
      /\ Kind' \in {"none", "PlmeSetTRXStateConfirm"}
  <2>1. macState' \in {"MAC_IDLE", "MAC_CSMA", "MAC_ACK_PENDING"} /\ initialized'
        /\ setMacState' # "SendAck"
    BY <1>3, <1>5
  <2> HIDE DEF s
  <2>2. QED  BY <1>1, <1>5, <2>1, Settle DEF NodeInv
<1>7. PktOK' /\ AckTimerOwned' /\ SwitchesOK' /\ OwedOK'
  BY <1>1, <1>3, <1>4, <1>5
  DEF NodeInv, PktOK, Queued, Awaited, AckTimerOwned, SwitchesOK, OwedOK
<1>8. ~Aired'
  BY <1>5 DEF Aired
<1>9. AiredOK'
  <2>1. airings' = retransmission' + (IF Aired' THEN 1 ELSE 0)
    <3>1. PICK r \in Nat : r = retransmission'
      BY <1>4, MacAssumption DEF MacAssumption
    <3>2. r + 0 = r
      OBVIOUS
    <3>3. QED  BY <1>4, <1>8, <3>1, <3>2
  <2>2. txQueue' = <<>> \/ ~Head(txQueue').fits => airings' = 0
    BY <1>1, <1>3, <1>4 DEF Awaited, Queued
  <2>3. QED  BY <1>4, <2>1, <2>2 DEF AiredOK
<1>10. Ordered(txQueue, confirms, requests)'
  <2>1. Ordered(txQueue', confirms', requests')
    BY <1>3, <1>4
  <2>2. QED  BY <2>1
<1>11. BoundOK'
  BY <1>3, <1>6, BoundKept
<1>12. QED
  BY <1>6, <1>7, <1>9, <1>10, <1>11 DEF NodeInv

\* A step of the CSMA-CA object alone, or none.
LEMMA NodeInvUnchanged ==
    ASSUME NodeInv, UNCHANGED <<phyVars, macVars>>
    PROVE  NodeInv'
<1>1. UNCHANGED <<macState, txState, timers, rxOnWhenIdle, initialized, macFault, incoming, histVars>>
      /\ UNCHANGED <<trxVars, rxVars, air, txVars, edRequest, fault, conf>>
  BY DEF macVars, macRest, phyVars
<1>2. PhyOK' /\ ConfOK' /\ LinkOK' /\ PktOK' /\ AckTimerOwned' /\ AiredOK' /\ OwedOK'
  BY <1>1 DEF NodeInv, PhyOK, ConfOK, FreeToReceive, LinkOK, SendingOK, PktOK, Queued, Awaited,
     Kind, Status, Expected, AckTimerOwned, AiredOK, Aired, OwedOK, trxVars, rxVars, txVars,
     txState, timers, histVars
<1>3. SwitchesOK' /\ BoundOK' /\ Ordered(txQueue, confirms, requests)'
  BY <1>1 DEF NodeInv, SwitchesOK, BoundOK, Arriving, Kind, rxVars, txState, timers, histVars
<1>4. QED  BY <1>2, <1>3 DEF NodeInv

LEMMA NodeStep ==
    ASSUME NodeInv, BegunOK, [NodeNext]_nodeVars, ~raced'
    PROVE  NodeInv'
<1>1. CASE DoInitialize
  BY <1>1, InitializeStep
<1>2. CASE initialized /\ CallbackStep
  BY <1>2, DataIndicationStep, DataConfirmStep, CcaConfirmStep, TrxConfirmStep DEF CallbackStep
<1>3. CASE initialized /\ NowStep
  BY <1>3, RunSetMacStateStep, SendAckStep, NodeInvUnchanged DEF NowStep
<1>4. CASE initialized /\ TimerStep
  <2>1. CASE EndSetTRXState /\ UNCHANGED <<csmaVars, macVars>>
    BY <1>4, <2>1, EndTurnaroundStep DEF TimerStep
  <2>2. CASE EndTx /\ UNCHANGED <<csmaVars, macVars>>
    BY <1>4, <2>2, EndTxStep DEF TimerStep
  <2>3. CASE (EndCca \/ PlmeCcaRequest) /\ UNCHANGED macVars
    BY <1>4, <2>3, AssessmentStep DEF TimerStep
  <2>4. CASE AckWaitTimeout
    BY <1>4, <2>4, AckWaitTimeoutStep DEF TimerStep
  <2>5. QED
    BY <1>4, <2>1, <2>2, <2>3, <2>4 DEF TimerStep
<1>5. CASE initialized /\ EnvStep /\ NodeNext
  <2>1. CASE \E f \in Frames : FrameBegins(f)
    <3>1. setMacState = "SendAck" => rxFrame' \in {rxFrame, NoFrame}
      BY <1>5 DEF NodeNext, ClockStep
    <3>2. QED  BY <1>5, <2>1, <3>1, StartRxStep DEF FrameBegins
  <2>2. CASE \E f \in Frames : FrameEnds(f)
    BY <1>5, <2>2, EndRxStep DEF FrameEnds, EndRx
  <2>3. CASE conf = <<>> /\ \E ackReq, fits \in BOOLEAN : McpsDataRequest(ackReq, fits)
    BY <1>5, <2>3, DataRequestStep
  <2>4. CASE conf = <<>> /\ \E on \in IdleModes : SetRxOnWhenIdle(on)
    BY <1>5, <2>4, IdleModeStep
  <2>5. QED
    BY <1>5, <2>1, <2>2, <2>3, <2>4 DEF EnvStep
<1>6. CASE UNCHANGED nodeVars
  BY <1>6, NodeInvUnchanged DEF nodeVars
<1>7. QED
  BY <1>1, <1>2, <1>3, <1>4, <1>5, <1>6 DEF NodeNext

\* A request of the transceiver's state leaves m_currentRxPacket.first alone.
LEMMA RequestKeepsFrame ==
    ASSUME NEW s, PlmeSetTRXStateRequest(s)
    PROVE  rxFrame' = rxFrame
BY DEF PlmeSetTRXStateRequest, RequestTrxOff, RequestTxOn, RequestForceTrxOff, DiscardReception,
       rxVars

\* What each step makes of the frame being received and of what is scheduled for now.
LEMMA BegunStep ==
    ASSUME NodeInv, BegunOK, [NodeNext]_nodeVars
    PROVE  BegunOK'
<1> DEFINE SameNow == UNCHANGED <<macState, setMacState>>
           SameRx  == rxFrame' = rxFrame
<1>1. ASSUME SameRx \/ rxFrame' = NoFrame, SameNow \/ FreeToReceive' \/ rxFrame = NoFrame, NodeNext
      PROVE  BegunOK'
  <2>1. TimePasses' => setMacState' = "none"
    BY DEF TimePasses
  <2>2. ~TimePasses' => begun \subseteq begun'
    BY <1>1 DEF NodeNext, ClockStep
  <2>3. QED  BY <1>1, <2>1, <2>2 DEF BegunOK, FreeToReceive
<1>2. CASE DoInitialize /\ NodeNext
  BY <1>1, <1>2, RequestKeepsFrame DEF DoInitialize, timers
<1>3. CASE PdDataIndication /\ NodeNext
  <2>1. rxFrame = NoFrame /\ macState # "MAC_SENDING"
    BY <1>3, CallbackCases DEF PdDataIndication, Called, Kind
  <2>2. rxFrame' = rxFrame
    BY <1>3, <2>1 DEF PdDataIndication, NoPhyCall, trxRest, rxVars
  <2>3. QED  BY <1>1, <1>3, <2>1, <2>2
<1>4. CASE PdDataConfirm /\ NodeNext
  <2>1. macState = "MAC_SENDING" /\ Kind = "PdDataConfirm"
    BY <1>4, CallbackCases DEF PdDataConfirm, Called, Kind
  <2>2. rxFrame = NoFrame
    BY <2>1 DEF NodeInv, LinkOK, SendingOK, PhyOK
  <2>3. rxFrame' = rxFrame
    BY <1>4 DEF PdDataConfirm, MacFail, NoPhyCall, trxRest, phyVars, rxVars
  <2>4. QED  BY <1>1, <1>4, <2>2, <2>3
<1>5. CASE CcaConfirm /\ NodeNext
  <2>1. rxFrame' = rxFrame
    BY <1>5, RequestKeepsFrame DEF CcaConfirm, MacFail, NoPhyCall, trxRest, phyVars, rxVars
  <2>2. setMacState' = setMacState
    BY <1>5 DEF CcaConfirm, MacFail, timers
  <2>3. macState' = macState \/ macState = "MAC_CSMA"
    BY <1>5 DEF CcaConfirm, MacFail
  <2>4. macState = "MAC_CSMA" => setMacState = "none"
    BY DEF NodeInv, PktOK
  <2>5. QED  BY <1>1, <1>5, <2>1, <2>2, <2>3, <2>4 DEF FreeToReceive
<1>6. CASE PlmeSetTRXStateConfirm /\ NodeNext
  BY <1>1, <1>6
  DEF PlmeSetTRXStateConfirm, MacFail, PdDataRequest, NoPhyCall, Fail, trxRest, phyVars, rxVars,
      macVars, timers
<1>7. CASE RunSetMacState /\ NodeNext
  BY <1>1, <1>7, RequestKeepsFrame
  DEF RunSetMacState, SetLrWpanMacState, CheckQueue, MacFail, phyVars, rxVars, timers, FreeToReceive
<1>8. CASE SendAck /\ NodeNext
  BY <1>1, <1>8, RequestKeepsFrame DEF SendAck, MacFail, phyVars, rxVars, timers, FreeToReceive
<1>9. CASE UNCHANGED <<phyVars, macVars>> /\ NodeNext
  BY <1>1, <1>9 DEF phyVars, rxVars, macVars, timers
<1>10. CASE (EndSetTRXState \/ EndTx \/ EndCca \/ PlmeCcaRequest) /\ UNCHANGED macVars /\ NodeNext
  BY <1>1, <1>10 DEF EndSetTRXState, EndTx, EndCca, PlmeCcaRequest, Fail, rxVars, macVars, timers
<1>11. CASE AckWaitTimeout /\ NodeNext
  BY <1>1, <1>11, RequestKeepsFrame
  DEF AckWaitTimeout, SetLrWpanMacState, CheckQueue, MacFail, phyVars, rxVars, timers, FreeToReceive
<1>12. CASE \E f \in Frames : FrameBegins(f) /\ NodeNext
  <2>1. PICK f \in Frames : FrameBegins(f) /\ NodeNext
    BY <1>12
  <2>2. SameNow
    BY <2>1 DEF FrameBegins, timers
  <2>3. CASE SameRx
    BY <1>1, <2>1, <2>2, <2>3
  <2>4. CASE ~SameRx
    <3>1. rxFrame' \in air' \ air
      BY <2>1, <2>4 DEF FrameBegins, StartRx, Fail, rxVars
    <3>2. QED  BY <2>1, <3>1 DEF NodeNext, ClockStep, BegunOK, FreeToReceive, TimePasses
  <2>5. QED  BY <2>3, <2>4
<1>13. CASE \E f \in Frames : FrameEnds(f) /\ NodeNext
  BY <1>1, <1>13 DEF FrameEnds, EndRx, rxVars, macVars, timers
<1>14. CASE (\E ackReq, fits \in BOOLEAN : McpsDataRequest(ackReq, fits)) /\ NodeNext
  BY <1>1, <1>14 DEF McpsDataRequest, CheckQueue, phyVars, rxVars, FreeToReceive
<1>15. CASE (\E on \in IdleModes : SetRxOnWhenIdle(on)) /\ NodeNext
  BY <1>1, <1>15, RequestKeepsFrame DEF SetRxOnWhenIdle, phyVars, rxVars, timers
<1>16. CASE UNCHANGED nodeVars
  BY <1>16 DEF nodeVars, phyVars, rxVars, macVars, timers, clock, BegunOK, FreeToReceive
<1>17. QED
  <2>1. CASE CallbackStep /\ NodeNext
    BY <1>3, <1>4, <1>5, <1>6, <2>1 DEF CallbackStep
  <2>2. CASE NowStep /\ NodeNext
    BY <1>7, <1>8, <1>9, <2>2 DEF NowStep
  <2>3. CASE TimerStep /\ NodeNext
    BY <1>10, <1>11, <2>3 DEF TimerStep
  <2>4. CASE EnvStep /\ NodeNext
    BY <1>12, <1>13, <1>14, <1>15, <2>4 DEF EnvStep
  <2>5. QED  BY <1>2, <1>16, <2>1, <2>2, <2>3, <2>4 DEF NodeNext

\* NodeInv is an invariant of the node until a reception begins at the time of a SendAck.
THEOREM NodeInvariant == NodeSpec => [](raced \/ (NodeInv /\ BegunOK))
<1>1. MacInit => NodeInv /\ BegunOK
  BY NodeInvInit DEF MacInit, BegunOK, FreeToReceive
<1>2. (raced \/ (NodeInv /\ BegunOK)) /\ [NodeNext]_nodeVars => (raced \/ (NodeInv /\ BegunOK))'
  <2> SUFFICES ASSUME raced \/ (NodeInv /\ BegunOK), [NodeNext]_nodeVars, ~raced'
               PROVE  NodeInv' /\ BegunOK'
    OBVIOUS
  <2>1. ~raced
    BY DEF NodeNext, ClockStep, nodeVars, clock
  <2>2. QED  BY <2>1, NodeStep, BegunStep
<1>3. QED
  BY <1>1, <1>2, PTL DEF NodeSpec

-----------------------------------------------------------------------------
(***************************************************************************)
(* What follows: NoFault always, the others until raced.  (The run finds   *)
(* them kept in its instance even then.)                                   *)
(***************************************************************************)
\* The members of the MAC and the history of its confirms keep their types until raced.
THEOREM MacTypes == NodeSpec => [](raced \/ MacTypeOK)
<1>1. NodeInv => MacTypeOK
  <2> SUFFICES ASSUME NodeInv PROVE MacTypeOK
    OBVIOUS
  <2>1. /\ txQueue \in Seq([id : Ids, ackReq : BOOLEAN, fits : BOOLEAN])
        /\ confirms \in Seq([id : Ids, aired : Nat, status : {"SUCCESS", "NO_ACK",
                            "FRAME_TOO_LONG", "CHANNEL_ACCESS_FAILURE"}])
        /\ requests \in Nat
    BY DEF NodeInv, Ordered, Pkts, ConfirmTypes
  <2>2. txPkt \in [id : Ids, ackReq : BOOLEAN, fits : BOOLEAN] \cup {NoPkt, AckPkt}
    BY QueuedIsPkt DEF Pkts
  <2>3. setMacState \in {"none", "MAC_IDLE", "MAC_CSMA", "MAC_ACK_PENDING", "SendAck"}
    BY DEF NodeInv, PktOK, SwitchesOK
  <2>4. retransmission \in 0..MaxFrameRetries /\ airings \in Nat /\ incoming \in Nat
    BY MacAssumption DEF NodeInv, AiredOK, BoundOK, MacAssumption
  <2>5. QED
    BY <2>1, <2>2, <2>3, <2>4 DEF MacTypeOK, NodeInv, SwitchesOK
<1>2. QED  BY <1>1, NodeInvariant, PTL

\* No NS_ASSERT, NS_FATAL_ERROR or NS_ABORT of the MAC and of the PHY under it is reached,
\* whatever shares the time of a ScheduleNow, unless it is a reception that begins at the
\* time of a SendAck and before it.
THEOREM NoFaultReached == NodeSpec => []NoFault
<1>1. raced \/ NodeInv => NoFault
  BY DEF NodeInv, PhyOK, SwitchesOK, NoFault, Running
<1>2. QED  BY <1>1, NodeInvariant, PTL

\* A callback that may lead back into the PHY is the last one of its caller, until raced.
THEOREM ReenteredLast == NodeSpec => [](raced \/ CallbacksReenterLast)
<1>1. NodeInv => CallbacksReenterLast
  <2> SUFFICES ASSUME NodeInv, Len(conf) > 1
               PROVE  Head(conf).prim \in {"PdDataIndication", "PdDataConfirm"}
    BY DEF CallbacksReenterLast
  <2>1. conf # <<>>
    BY EmptySeq
  <2>2. QED  BY <2>1, CallbackCases DEF Kind
<1>2. QED  BY <1>1, NodeInvariant, PTL

\* The frame the MAC works on is the first of the queue, until raced.
THEOREM WorksOnFront == NodeSpec => [](raced \/ OnAirIsFront)
<1>1. NodeInv => OnAirIsFront
  BY DEF NodeInv, PktOK, SwitchesOK, Queued, Awaited, OnAirIsFront
<1>2. QED  BY <1>1, NodeInvariant, PTL

\* Every request is confirmed once, in the order of the requests, until raced.
THEOREM ConfirmsInOrder == NodeSpec => [](raced \/ ConfirmedInOrder)
<1>1. NodeInv => ConfirmedInOrder
  BY DEF NodeInv, Ordered, ConfirmedInOrder
<1>2. QED  BY <1>1, NodeInvariant, PTL

\* A confirm tells what happened on the air, until raced.
THEOREM ConfirmsTrue == NodeSpec => [](raced \/ ConfirmTrue)
<1>1. NodeInv => ConfirmTrue
  BY DEF NodeInv, Ordered, Truthful, ConfirmTrue
<1>2. QED  BY <1>1, NodeInvariant, PTL

\* An acknowledgement that is owed is scheduled or in the transmitter's hands, until raced.
THEOREM OwedAcks == NodeSpec => [](raced \/ OwedAckIsSent)
<1>1. NodeInv => OwedAckIsSent
  BY DEF NodeInv, OwedOK, OwedAckIsSent
<1>2. QED  BY <1>1, NodeInvariant, PTL

\* The acknowledgement timer runs exactly while one is awaited, until raced.
THEOREM TimerOwned == NodeSpec => [](raced \/ AckTimerOwned)
<1>1. NodeInv => AckTimerOwned
  BY DEF NodeInv
<1>2. QED  BY <1>1, NodeInvariant, PTL
=============================================================================
