------------------------------ MODULE LrWpanPhy ------------------------------
(***************************************************************************)
(* The transceiver of lr-wpan/lr-wpan-phy.cc: the state the device is in,  *)
(* the state change it still owes its user, the frame being received, the  *)
(* frame being sent, and the simulator events (EndRx, EndTx, EndCca,       *)
(* EndEd, EndSetTRXState) scheduled to end those activities.               *)
(*                                                                         *)
(* Time is abstracted to the order of events: a scheduled event may fire   *)
(* at any later point.  Signal power is abstracted to "some signal is on   *)
(* the air", and whether that is enough to synchronise or to sense a busy  *)
(* channel is a choice.  The module is open: PlmeSetTRXStateRequest and    *)
(* the other requests are issued by whoever uses the PHY (Next below lets  *)
(* any user issue any of them; LrWpanMac is the user this repository has). *)
(***************************************************************************)
EXTENDS Naturals, Sequences, FiniteSets

CONSTANTS
    Frames,             \* frames other nodes may put on the air
    NoFrame,            \* the null frame pointer
    TrxRequests,        \* the states users of the PHY ask for
    Channels,           \* channel numbers passed to PlmeSetAttributeRequest
    SupportedChannels,  \* those with their bit set in phyChannelsSupported
    MaxStale            \* bound on EndTx and EndCca events no EventId refers to

ASSUME PhyAssumption ==
    /\ NoFrame \notin Frames
    /\ TrxRequests \subseteq {"RX_ON", "TRX_OFF", "FORCE_TRX_OFF", "TX_ON"}
    /\ SupportedChannels \subseteq Channels /\ SupportedChannels # {}
    /\ MaxStale \in Nat

VARIABLES
    trxState,           \* m_trxState
    trxStatePending,    \* m_trxStatePending, "IDLE" when nothing is owed
    setTRXState,        \* m_setTRXState is running: EndSetTRXState is scheduled
    rxFrame,            \* m_currentRxPacket.first
    rxCorrupt,          \* m_currentRxPacket.second
    air,                \* signals in m_signal, each with its EndRx scheduled
    pdDataRequest,      \* m_pdDataRequest is running: EndTx is scheduled
    staleEndTx,         \* EndTx events of transmissions m_pdDataRequest forgot
    txAborted,          \* m_currentTxPacket.second
    ccaRequest,         \* m_ccaRequest is running: EndCca is scheduled
    staleEndCca,        \* EndCca events m_ccaRequest forgot
    ccaSeen,            \* a signal was folded into m_ccaPeakPower
    edRequest,          \* m_edRequest is running: EndEd is scheduled
    pib,                \* phyCurrentChannel and phyCCAMode of m_phyPIBAttributes
    conf,               \* the callbacks the last handler made, in order
    fault               \* what ended the run, "none" while it goes on

rxVars  == <<rxFrame, rxCorrupt>>
txVars  == <<pdDataRequest, staleEndTx, txAborted>>
ccaVars == <<ccaRequest, staleEndCca, ccaSeen>>
trxVars == <<trxState, trxStatePending, setTRXState>>
phyVars == <<trxVars, rxVars, air, txVars, ccaVars, edRequest, pib, conf, fault>>

TrxStates == {"TRX_OFF", "RX_ON", "TX_ON", "BUSY_RX", "BUSY_TX"}
Faults    == {"none", "EndSetTRXState abort", "EndTx abort", "unexpected transition",
              "PdDataRequest unreachable", "null m_currentRxPacket"}

Callback(prim, status) == [prim |-> prim, status |-> status]
Trx(status) == <<Callback("PlmeSetTRXStateConfirm", status)>>
Callbacks == [prim : {"PlmeSetTRXStateConfirm", "PdDataConfirm", "PlmeCcaConfirm",
                      "PlmeEdConfirm", "PlmeSetAttributeConfirm", "PdDataIndication"},
              status : TrxStates \cup Frames \cup
                       {"IDLE", "BUSY", "SUCCESS", "UNSPECIFIED", "INVALID_PARAMETER"}]

PhyInit ==
    /\ trxState = "TRX_OFF" /\ trxStatePending = "IDLE" /\ setTRXState = FALSE
    /\ rxFrame = NoFrame /\ rxCorrupt = TRUE
    /\ air = {}
    /\ pdDataRequest = FALSE /\ staleEndTx = 0 /\ txAborted = TRUE
    /\ ccaRequest = FALSE /\ staleEndCca = 0 /\ ccaSeen = FALSE
    /\ edRequest = FALSE
    /\ pib \in [channel : SupportedChannels, ccaMode : {1}]
    /\ conf = <<>> /\ fault = "none"

\* NS_FATAL_ERROR, NS_ABORT_IF or a null dereference: the simulation ends here.
Fail(f) ==
    /\ fault' = f /\ conf' = <<>>
    /\ UNCHANGED <<trxVars, rxVars, air, txVars, ccaVars, edRequest, pib>>

PhyIsBusy == trxState \in {"BUSY_TX", "BUSY_RX"}

\* Definitions named ...Slip are mutations of the one that follows them: what the code
\* would be with one line missing.  No specification uses them; they show that the
\* properties can fail.
DiscardReceptionSlip == UNCHANGED rxVars

\* A frame being received is never delivered once it is marked here.
DiscardReception == rxCorrupt' = (rxCorrupt \/ rxFrame # NoFrame) /\ UNCHANGED rxFrame

(***************************************************************************)
(* PLME-SET-TRX-STATE                                                      *)
(***************************************************************************)
SwitchNowSlip(st, cs) ==
    /\ trxState' = st /\ trxStatePending' = "IDLE" /\ UNCHANGED setTRXState
    /\ conf' = cs

\* The new state at once, nothing pending, and the confirm cs.
SwitchNow(st, cs) ==
    /\ trxState' = st /\ trxStatePending' = "IDLE" /\ setTRXState' = FALSE
    /\ conf' = cs

\* Only remember the request: EndTx or EndRx will apply it.
Defer(s) ==
    /\ trxStatePending' = s /\ setTRXState' = FALSE
    /\ conf' = <<>> /\ UNCHANGED trxState

\* Schedule EndSetTRXState after the turnaround time.
TurnAround(s, cs) ==
    /\ trxStatePending' = s /\ setTRXState' = TRUE
    /\ conf' = cs /\ UNCHANGED trxState

\* CancelEd's confirm comes before anything the rest of the handler reports.
EdCancelled(s) == IF edRequest THEN <<Callback("PlmeEdConfirm", s)>> ELSE <<>>

RequestTrxOff ==
    \/ /\ trxState = "BUSY_TX" /\ Defer("TRX_OFF")
       /\ UNCHANGED <<rxVars, edRequest, fault>>
    \/ /\ trxState = "BUSY_RX" /\ rxFrame # NoFrame /\ ~rxCorrupt
       /\ trxStatePending' = "TRX_OFF" /\ setTRXState' = FALSE
       /\ conf' = EdCancelled("TRX_OFF") /\ edRequest' = FALSE
       /\ UNCHANGED <<trxState, rxVars, fault>>
    \/ /\ trxState \in {"RX_ON", "TX_ON"}
       /\ SwitchNow("TRX_OFF", EdCancelled("TRX_OFF") \o Trx("TRX_OFF")) /\ edRequest' = FALSE
       /\ UNCHANGED <<rxVars, fault>>
    \/ /\ trxState = "BUSY_RX" /\ (rxFrame = NoFrame \/ rxCorrupt)
       /\ fault' = "unexpected transition" /\ conf' = <<>>
       /\ UNCHANGED <<trxVars, rxVars, edRequest>>

RequestTxOn ==
    /\ \/ /\ trxState \in {"RX_ON", "BUSY_RX"}
          /\ DiscardReception
          /\ ccaRequest' = FALSE
          /\ TurnAround("TX_ON",
                EdCancelled("TX_ON") \o
                (IF ccaRequest THEN <<Callback("PlmeCcaConfirm", "BUSY")>> ELSE <<>>))
       \/ /\ trxState = "BUSY_TX"
          /\ SwitchNow("BUSY_TX", EdCancelled("TX_ON") \o Trx("TX_ON"))
          /\ UNCHANGED <<rxVars, ccaRequest>>
       \/ /\ trxState = "TRX_OFF"
          /\ SwitchNow("TX_ON", EdCancelled("TX_ON") \o Trx("TX_ON"))
          /\ UNCHANGED <<rxVars, ccaRequest>>
    /\ edRequest' = FALSE
    /\ UNCHANGED <<txAborted, fault>>

RequestForceTrxOff ==
    /\ \/ trxState = "TRX_OFF" /\ UNCHANGED <<rxVars, txAborted>>
       \/ /\ trxState # "TRX_OFF" /\ DiscardReception
          /\ txAborted' = (txAborted \/ trxState = "BUSY_TX")
    /\ SwitchNow("TRX_OFF", Trx("SUCCESS"))
    /\ UNCHANGED <<ccaRequest, edRequest, fault>>

RequestRxOn ==
    \/ trxState \in {"TX_ON", "TRX_OFF"} /\ TurnAround("RX_ON", <<>>)
    \/ trxState = "BUSY_TX" /\ Defer("RX_ON")
    \/ trxState = "BUSY_RX" /\ SwitchNow("BUSY_RX", Trx("RX_ON"))

\* A request overrides the previous one unless the same switch is under way.
PlmeSetTRXStateRequest(s) ==
    /\ \/ /\ setTRXState /\ trxStatePending = s
          /\ conf' = <<>>
          /\ UNCHANGED <<trxVars, rxVars, txAborted, ccaRequest, edRequest, fault>>
       \/ /\ ~(setTRXState /\ trxStatePending = s)
          /\ \/ /\ s = trxState /\ SwitchNow(s, Trx(s))
                /\ UNCHANGED <<rxVars, txAborted, ccaRequest, edRequest, fault>>
             \/ /\ s # trxState /\ s = "TRX_OFF" /\ RequestTrxOff
                /\ UNCHANGED <<txAborted, ccaRequest>>
             \/ /\ s # trxState /\ s = "TX_ON" /\ RequestTxOn
             \/ /\ s = "FORCE_TRX_OFF" /\ RequestForceTrxOff
             \/ /\ s # trxState /\ s = "RX_ON" /\ RequestRxOn
                /\ UNCHANGED <<rxVars, txAborted, ccaRequest, edRequest, fault>>
    /\ UNCHANGED <<air, pdDataRequest, staleEndTx, staleEndCca, ccaSeen, pib>>

EndSetTRXStateSlip ==
    /\ setTRXState /\ SwitchNow(trxStatePending, <<>>)
    /\ UNCHANGED <<rxVars, air, txVars, ccaVars, edRequest, pib, fault>>

\* The scheduled end of a turnaround.
EndSetTRXState ==
    /\ setTRXState
    /\ IF trxStatePending \in {"RX_ON", "TX_ON"}
       THEN /\ SwitchNow(trxStatePending, Trx(trxStatePending))
            /\ UNCHANGED <<rxVars, air, txVars, ccaVars, edRequest, pib, fault>>
       ELSE Fail("EndSetTRXState abort")

ApplyPendingSlip(st, cs) ==
    \/ /\ trxStatePending = "IDLE" /\ trxState' = st /\ conf' = cs
       /\ UNCHANGED <<trxStatePending, setTRXState>>
    \/ /\ trxStatePending # "IDLE" /\ ~setTRXState
       /\ trxState' = trxStatePending /\ conf' = cs \o Trx("SUCCESS")
       /\ UNCHANGED <<trxStatePending, setTRXState>>
    \/ /\ trxStatePending # "IDLE" /\ setTRXState
       /\ conf' = cs /\ UNCHANGED trxVars

ApplyPendingOrderSlip(st, cs) ==
    IF trxStatePending # "IDLE" /\ ~setTRXState
    THEN SwitchNow(trxStatePending, Trx("SUCCESS") \o cs)
    ELSE /\ trxState' = (IF setTRXState THEN trxState ELSE st) /\ conf' = cs
         /\ UNCHANGED <<trxStatePending, setTRXState>>

\* EndRx and EndTx apply a deferred change themselves, or else go to st.
ApplyPending(st, cs) ==
    \/ /\ trxStatePending = "IDLE" /\ trxState' = st /\ conf' = cs
       /\ UNCHANGED <<trxStatePending, setTRXState>>
    \/ /\ trxStatePending # "IDLE" /\ ~setTRXState
       /\ SwitchNow(trxStatePending, cs \o Trx("SUCCESS"))
    \/ /\ trxStatePending # "IDLE" /\ setTRXState
       /\ conf' = cs /\ UNCHANGED trxVars

(***************************************************************************)
(* Reception                                                               *)
(***************************************************************************)
\* CheckInterference dereferences m_currentRxPacket.first when BUSY_RX.  With the
\* packet error rate fixed at 0 it never marks the frame as destroyed.
CheckInterferenceFails == trxState = "BUSY_RX" /\ rxFrame = NoFrame

StartRx(f) ==
    /\ f \notin air
    /\ IF CheckInterferenceFails THEN Fail("null m_currentRxPacket") ELSE
       /\ air' = air \cup {f}
       /\ ccaSeen' = (ccaSeen \/ ccaRequest)
       /\ \/ /\ trxState = "RX_ON" /\ ~setTRXState  \* the SINR allows to synchronise
             /\ trxState' = "BUSY_RX" /\ rxFrame' = f /\ rxCorrupt' = FALSE
          \/ UNCHANGED <<trxState, rxVars>>
       /\ conf' = <<>>
       /\ UNCHANGED <<trxStatePending, setTRXState, txVars, ccaRequest, staleEndCca,
                      edRequest, pib, fault>>

EndRx(f) ==
    /\ f \in air
    /\ air' = air \ {f}
    /\ \/ /\ rxFrame = f
          /\ rxFrame' = NoFrame /\ rxCorrupt' = TRUE
          /\ ApplyPending("RX_ON",
                IF rxCorrupt THEN <<>> ELSE <<Callback("PdDataIndication", f)>>)
       \/ /\ rxFrame # f /\ conf' = <<>>
          /\ UNCHANGED <<trxVars, rxVars>>
    /\ UNCHANGED <<txVars, ccaVars, edRequest, pib, fault>>

(***************************************************************************)
(* Transmission                                                            *)
(***************************************************************************)
BeginTxSlip ==
    /\ trxState' = "BUSY_TX"
    /\ pdDataRequest' = TRUE /\ UNCHANGED txAborted
    /\ staleEndTx' = staleEndTx + (IF pdDataRequest THEN 1 ELSE 0)

BeginTx ==
    /\ trxState' = "BUSY_TX"
    /\ pdDataRequest' = TRUE /\ txAborted' = FALSE
    /\ staleEndTx' = staleEndTx + (IF pdDataRequest THEN 1 ELSE 0)

\* The frame itself is not part of the transceiver's state; tooLong says whether
\* it exceeds aMaxPhyPacketSize.
PdDataRequest(tooLong) ==
    \/ /\ ~tooLong /\ ~setTRXState /\ trxState = "TX_ON"
       /\ BeginTx /\ conf' = <<>>
       /\ UNCHANGED <<trxStatePending, setTRXState, rxVars, air, ccaVars, edRequest, pib,
                      fault>>
    \/ /\ tooLong \/ setTRXState
       /\ conf' = <<Callback("PdDataConfirm", "UNSPECIFIED")>>
       /\ UNCHANGED <<trxVars, rxVars, air, txVars, ccaVars, edRequest, pib, fault>>
    \/ /\ ~tooLong /\ ~setTRXState /\ trxState \in {"RX_ON", "TRX_OFF", "BUSY_TX"}
       /\ conf' = <<Callback("PdDataConfirm", trxState)>>
       /\ UNCHANGED <<trxVars, rxVars, air, txVars, ccaVars, edRequest, pib, fault>>
    \/ /\ ~tooLong /\ ~setTRXState /\ trxState = "BUSY_RX"
       /\ Fail("PdDataRequest unreachable")

EndTx ==
    /\ pdDataRequest \/ staleEndTx > 0
    /\ IF trxState \notin {"BUSY_TX", "TRX_OFF"} THEN Fail("EndTx abort") ELSE
       /\ \/ pdDataRequest' = FALSE /\ pdDataRequest /\ UNCHANGED staleEndTx
          \/ staleEndTx > 0 /\ staleEndTx' = staleEndTx - 1 /\ UNCHANGED pdDataRequest
       /\ txAborted' = FALSE
       /\ ApplyPending(IF trxState = "TRX_OFF" THEN "TRX_OFF" ELSE "TX_ON",
             <<Callback("PdDataConfirm", IF txAborted THEN trxState ELSE "SUCCESS")>>)
       /\ UNCHANGED <<rxVars, air, ccaVars, edRequest, pib, fault>>

(***************************************************************************)
(* Clear channel assessment and energy detection                           *)
(***************************************************************************)
PlmeCcaRequest ==
    /\ \/ /\ trxState \in {"RX_ON", "BUSY_RX"}
          /\ ccaRequest' = TRUE /\ ccaSeen' = FALSE
          /\ staleEndCca' = staleEndCca + (IF ccaRequest THEN 1 ELSE 0)
          /\ conf' = <<>>
       \/ /\ trxState \notin {"RX_ON", "BUSY_RX"}
          /\ conf' = <<Callback("PlmeCcaConfirm",
                                IF trxState = "TRX_OFF" THEN "TRX_OFF" ELSE "BUSY")>>
          /\ UNCHANGED ccaVars
    /\ UNCHANGED <<trxVars, rxVars, air, txVars, edRequest, pib, fault>>

SensedStatesSlip ==
    IF pib.ccaMode = 1 /\ (ccaSeen \/ air # {}) THEN {"BUSY", "IDLE"} ELSE {"IDLE"}

\* phyCCAMode 1 compares the peak power with a threshold; 2 and 3 look for
\* BUSY_RX, which PhyIsBusy has already answered.
SensedStates ==
    IF PhyIsBusy THEN {"BUSY"}
    ELSE IF pib.ccaMode = 1 /\ (ccaSeen \/ air # {}) THEN {"BUSY", "IDLE"} ELSE {"IDLE"}

\* CCA takes a constant time, so a forgotten EndCca fires before the latest one.
EndCca ==
    /\ \/ staleEndCca > 0 /\ staleEndCca' = staleEndCca - 1 /\ UNCHANGED ccaRequest
       \/ staleEndCca = 0 /\ ccaRequest /\ ccaRequest' = FALSE /\ UNCHANGED staleEndCca
    /\ ccaSeen' = (ccaSeen \/ air # {})
    /\ \E sensed \in SensedStates : conf' = <<Callback("PlmeCcaConfirm", sensed)>>
    /\ UNCHANGED <<trxVars, rxVars, air, txVars, edRequest, pib, fault>>

PlmeEdRequest ==
    /\ \/ trxState \in {"RX_ON", "BUSY_RX"} /\ edRequest' = TRUE /\ conf' = <<>>
       \/ /\ trxState \notin {"RX_ON", "BUSY_RX"} /\ UNCHANGED edRequest
          /\ conf' = <<Callback("PlmeEdConfirm",
                                IF trxState = "BUSY_TX" THEN "TX_ON" ELSE trxState)>>
    /\ UNCHANGED <<trxVars, rxVars, air, txVars, ccaVars, pib, fault>>

EndEd ==
    /\ edRequest /\ edRequest' = FALSE
    /\ conf' = <<Callback("PlmeEdConfirm", "SUCCESS")>>
    /\ UNCHANGED <<trxVars, rxVars, air, txVars, ccaVars, pib, fault>>

(***************************************************************************)
(* PLME-SET                                                                *)
(***************************************************************************)
\* An unsupported channel is reported and installed all the same.  The test of
\* PhyIsBusy comes after m_trxState was overwritten, so it is never true.
SetCurrentChannel(ch) ==
    LET done == <<Callback("PlmeSetAttributeConfirm",
                    IF ch \in SupportedChannels THEN "SUCCESS" ELSE "INVALID_PARAMETER")>>
    IN  /\ \/ /\ pib.channel = ch /\ conf' = done
              /\ UNCHANGED <<trxVars, rxVars, pib>>
           \/ /\ pib.channel # ch
              /\ pib' = [pib EXCEPT !.channel = ch]
              /\ trxState' = "TRX_OFF" /\ trxStatePending' = "IDLE"
              /\ setTRXState' = (setTRXState /\ trxStatePending = "IDLE")
              /\ DiscardReception
              /\ conf' = (IF trxStatePending # "IDLE" THEN Trx("TRX_OFF") ELSE <<>>) \o done
        /\ UNCHANGED <<air, txVars, ccaVars, edRequest, fault>>

SetCCAModeSlip(mode) ==
    /\ pib' = [pib EXCEPT !.ccaMode = mode]
    /\ conf' = <<Callback("PlmeSetAttributeConfirm", "SUCCESS")>>
    /\ UNCHANGED <<trxVars, rxVars, air, txVars, ccaVars, edRequest, fault>>

SetCCAMode(mode) ==
    /\ pib' = IF mode \in 1..3 THEN [pib EXCEPT !.ccaMode = mode] ELSE pib
    /\ conf' = <<Callback("PlmeSetAttributeConfirm",
                          IF mode \in 1..3 THEN "SUCCESS" ELSE "INVALID_PARAMETER")>>
    /\ UNCHANGED <<trxVars, rxVars, air, txVars, ccaVars, edRequest, fault>>

(***************************************************************************)
(* The PHY under a user that may issue any request at any time.            *)
(***************************************************************************)
\* Bounds: a user does not measure energy twice at once, and EventIds are
\* overwritten while running at most MaxStale times.
UserRequest ==
    \/ \E s \in TrxRequests : PlmeSetTRXStateRequest(s)
    \/ \E tooLong \in BOOLEAN : (pdDataRequest => staleEndTx < MaxStale) /\ PdDataRequest(tooLong)
    \/ (ccaRequest => staleEndCca < MaxStale) /\ PlmeCcaRequest
    \/ ~edRequest /\ PlmeEdRequest
    \/ \E ch \in Channels : SetCurrentChannel(ch)
    \/ \E mode \in 0..3 : SetCCAMode(mode)

\* The events the simulator runs.
PhyEvent ==
    \/ EndSetTRXState
    \/ \E f \in air : EndRx(f)
    \/ EndTx
    \/ EndCca
    \/ EndEd

PhyNext ==
    /\ fault = "none"
    /\ \/ UserRequest
       \/ \E f \in Frames : StartRx(f)
       \/ PhyEvent

PhySpec == PhyInit /\ [][PhyNext]_phyVars

\* ns-3 runs every scheduled event; users and other nodes need not do anything.
PhyFairness ==
    /\ WF_phyVars(fault = "none" /\ EndSetTRXState)
    /\ WF_phyVars(fault = "none" /\ EndTx)
    /\ \A f \in Frames : WF_phyVars(fault = "none" /\ EndRx(f))

PhyFairSpec == PhySpec /\ PhyFairness

-----------------------------------------------------------------------------
PhyTypeOK ==
    /\ trxState \in TrxStates
    /\ trxStatePending \in {"IDLE", "RX_ON", "TX_ON", "TRX_OFF"}
    /\ setTRXState \in BOOLEAN
    /\ rxFrame \in Frames \cup {NoFrame} /\ rxCorrupt \in BOOLEAN
    /\ air \subseteq Frames
    /\ pdDataRequest \in BOOLEAN /\ staleEndTx \in Nat /\ txAborted \in BOOLEAN
    /\ ccaRequest \in BOOLEAN /\ staleEndCca \in Nat /\ ccaSeen \in BOOLEAN
    /\ edRequest \in BOOLEAN
    /\ pib \in [channel : Channels, ccaMode : 1..3]
    /\ conf \in Seq(Callbacks)
    /\ fault \in Faults

-----------------------------------------------------------------------------
(***************************************************************************)
(* What holds whatever the user of the PHY does.                           *)
(***************************************************************************)
\* EndSetTRXState aborts the simulation unless it finds a state it can switch to
\* (NS_ABORT_IF in EndSetTRXState): while it is scheduled, no request, no end of
\* a frame and no channel change leaves it with anything else to apply.
SwitchTargetKnown ==
    setTRXState => trxStatePending \in {"RX_ON", "TX_ON"}

\* A state change that was accepted but not made is never forgotten: the event that
\* will make it (the turnaround, the end of the transmission, the end of a frame
\* that is still good) is scheduled.
PendingIsOwned ==
    trxStatePending # "IDLE" =>
        \/ setTRXState
        \/ trxState = "BUSY_TX" /\ pdDataRequest
        \/ trxState = "BUSY_RX" /\ rxFrame \in air /\ ~rxCorrupt

\* The frame EndRx would deliver is one the receiver has stayed on for: leaving
\* BUSY_RX in any way (TX_ON, FORCE_TRX_OFF, another channel) discards it first.
AbandonedFrameDiscarded ==
    ~rxCorrupt => trxState = "BUSY_RX" /\ rxFrame \in air

\* The NS_ASSERT in EndTx: a transmission that was aborted is not the one on the air.
AbortedIsNotOnAir == txAborted => trxState # "BUSY_TX"

\* The invariant the four facts above rest on: type correctness, and two facts about
\* which activities exclude each other.  A transmission has its end scheduled and no
\* turnaround is under way; a turnaround leaves no good frame to deliver.
ActivitiesExclusive ==
    /\ trxState = "BUSY_TX" => pdDataRequest /\ ~setTRXState
    /\ setTRXState => rxCorrupt

PhyInv ==
    /\ PhyTypeOK
    /\ SwitchTargetKnown
    /\ PendingIsOwned
    /\ AbandonedFrameDiscarded
    /\ AbortedIsNotOnAir
    /\ ActivitiesExclusive

\* A deferred or scheduled state change is made, overridden or dropped in the end,
\* unless the run ends first: turnarounds, transmissions and receptions all end.
PendingResolved ==
    trxStatePending # "IDLE" ~> trxStatePending = "IDLE" \/ fault # "none"

(***************************************************************************)
(* What the source says of itself and does not keep: the PHY alone         *)
(* violates all three (README, "Observations").                            *)
(***************************************************************************)
\* "We are currently receiving a packet" when BUSY_RX, so that its pointer can be
\* followed (CheckInterference, with the assertion that says so commented out).
BusyRxHasFrame == trxState = "BUSY_RX" => rxFrame # NoFrame

\* "Any packet in transmission or reception will be corrupted" by a channel change.
ChannelChangeCorrupts ==
    [][pib'.channel # pib.channel /\ trxState = "BUSY_TX" => txAborted']_phyVars

\* "force TRX_OFF, terminate reception": the end of a frame given up when the
\* transceiver was forced off does not switch it on again.
ForcedOffStaysOff ==
    [][trxState = "TRX_OFF" /\ trxStatePending = "IDLE" /\ air' # air /\ air' \subseteq air
         => trxState' = "TRX_OFF"]_phyVars
==============================================================================
