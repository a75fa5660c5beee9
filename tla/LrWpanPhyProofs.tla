--------------------------- MODULE LrWpanPhyProofs ---------------------------
(***************************************************************************)
(* The safety of the transceiver for every set of frames, channels and     *)
(* requests: PhyInv is inductive.                                          *)
(***************************************************************************)
EXTENDS LrWpanPhy, SequenceTheorems, TLAPS

Statuses == TrxStates \cup Frames \cup
            {"IDLE", "BUSY", "SUCCESS", "UNSPECIFIED", "INVALID_PARAMETER"}

Prims == {"PlmeSetTRXStateConfirm", "PdDataConfirm", "PlmeCcaConfirm",
          "PlmeEdConfirm", "PlmeSetAttributeConfirm", "PdDataIndication"}

\* One callback is a well-typed list of callbacks.
LEMMA OneCallback ==
    ASSUME NEW p \in Prims, NEW s \in Statuses
    PROVE  <<Callback(p, s)>> \in Seq(Callbacks)
BY DEF Callback, Callbacks, Prims, Statuses

LEMMA NoCallback == <<>> \in Seq(Callbacks)
OBVIOUS

LEMMA TwoCallbackLists ==
    ASSUME NEW a \in Seq(Callbacks), NEW b \in Seq(Callbacks)
    PROVE  a \o b \in Seq(Callbacks)
OBVIOUS

\* The confirms CancelEd and the state switches make are well typed.
LEMMA TrxCallbacks ==
    ASSUME NEW s \in TrxStates \cup {"SUCCESS"}
    PROVE  /\ Trx(s) \in Seq(Callbacks)
           /\ EdCancelled(s) \in Seq(Callbacks)
           /\ EdCancelled(s) \o Trx(s) \in Seq(Callbacks)
<1>1. Trx(s) \in Seq(Callbacks)
  BY OneCallback DEF Trx, Prims, Statuses
<1>2. EdCancelled(s) \in Seq(Callbacks)
  BY OneCallback, NoCallback DEF EdCancelled, Prims, Statuses
<1>3. QED  BY <1>1, <1>2, TwoCallbackLists

LEMMA InitInv == PhyInit => PhyInv
<1> SUFFICES ASSUME PhyInit PROVE PhyInv
  OBVIOUS
<1>1. pib \in [channel : Channels, ccaMode : 1..3]
  BY PhyAssumption DEF PhyInit
<1>2. conf \in Seq(Callbacks)
  BY NoCallback DEF PhyInit
<1>3. PhyTypeOK
  BY <1>1, <1>2 DEF PhyInit, PhyTypeOK, TrxStates, Faults
<1>4. QED
  BY <1>3 DEF PhyInit, PhyInv, SwitchTargetKnown, PendingIsOwned,
       AbandonedFrameDiscarded, AbortedIsNotOnAir, ActivitiesExclusive

\* The parts of PhyInv that do not concern the callbacks or the type of the rest.
Core == /\ SwitchTargetKnown /\ PendingIsOwned /\ AbandonedFrameDiscarded
        /\ AbortedIsNotOnAir /\ ActivitiesExclusive

\* A run that ends keeps every variable but fault and conf.
LEMMA FailInv ==
    ASSUME PhyInv, NEW f \in Faults, Fail(f)
    PROVE  PhyInv'
<1>1. PhyTypeOK'
  BY NoCallback DEF Fail, PhyInv, PhyTypeOK, trxVars, rxVars, txVars, ccaVars
<1>2. QED
  BY <1>1 DEF Fail, PhyInv, SwitchTargetKnown, PendingIsOwned, AbandonedFrameDiscarded,
              AbortedIsNotOnAir, ActivitiesExclusive, trxVars, rxVars, txVars, ccaVars

LEMMA RequestTrxOffInv ==
    ASSUME PhyInv, RequestTrxOff, UNCHANGED <<txAborted, ccaRequest>>,
           UNCHANGED <<air, pdDataRequest, staleEndTx, staleEndCca, ccaSeen, pib>>
    PROVE  PhyInv'
<1> USE DEF PhyInv, PhyTypeOK, TrxStates, Faults, rxVars, trxVars, SwitchTargetKnown,
            PendingIsOwned, AbandonedFrameDiscarded, AbortedIsNotOnAir, ActivitiesExclusive
<1>1. CASE trxState = "BUSY_TX" /\ Defer("TRX_OFF") /\ UNCHANGED <<rxVars, edRequest, fault>>
  BY <1>1, NoCallback DEF Defer
<1>2. CASE /\ trxState = "BUSY_RX" /\ rxFrame # NoFrame /\ ~rxCorrupt
           /\ trxStatePending' = "TRX_OFF" /\ setTRXState' = FALSE
           /\ conf' = EdCancelled("TRX_OFF") /\ edRequest' = FALSE
           /\ UNCHANGED <<trxState, rxVars, fault>>
  <2>1. EdCancelled("TRX_OFF") \in Seq(Callbacks)
    BY TrxCallbacks
  <2>2. QED  BY <1>2, <2>1
<1>3. CASE /\ trxState \in {"RX_ON", "TX_ON"}
           /\ SwitchNow("TRX_OFF", EdCancelled("TRX_OFF") \o Trx("TRX_OFF"))
           /\ edRequest' = FALSE
           /\ UNCHANGED <<rxVars, fault>>
  <2>1. EdCancelled("TRX_OFF") \o Trx("TRX_OFF") \in Seq(Callbacks)
    BY TrxCallbacks
  <2>2. QED  BY <1>3, <2>1 DEF SwitchNow
<1>4. CASE /\ trxState = "BUSY_RX"
           /\ fault' = "unexpected transition" /\ conf' = <<>>
           /\ UNCHANGED <<trxVars, rxVars, edRequest>>
  BY <1>4, NoCallback
<1>5. QED
  BY <1>1, <1>2, <1>3, <1>4 DEF RequestTrxOff

LEMMA RequestTxOnInv ==
    ASSUME PhyInv, RequestTxOn,
           UNCHANGED <<air, pdDataRequest, staleEndTx, staleEndCca, ccaSeen, pib>>
    PROVE  PhyInv'
<1>1. conf' \in Seq(Callbacks)
  <2>1. CASE trxState \in {"RX_ON", "BUSY_RX"}
    <3>1. (IF ccaRequest THEN <<Callback("PlmeCcaConfirm", "BUSY")>> ELSE <<>>)
             \in Seq(Callbacks)
      BY NoCallback, OneCallback DEF Prims, Statuses
    <3>2. EdCancelled("TX_ON") \in Seq(Callbacks)
      BY TrxCallbacks DEF TrxStates
    <3>3. conf' = EdCancelled("TX_ON") \o
             (IF ccaRequest THEN <<Callback("PlmeCcaConfirm", "BUSY")>> ELSE <<>>)
      BY <2>1 DEF RequestTxOn, TurnAround
    <3>4. QED  BY <3>1, <3>2, <3>3, TwoCallbackLists
  <2>2. CASE trxState \notin {"RX_ON", "BUSY_RX"}
    BY <2>2, TrxCallbacks DEF RequestTxOn, SwitchNow, TrxStates
  <2>3. QED  BY <2>1, <2>2
<1>2. PhyTypeOK'
  BY <1>1 DEF RequestTxOn, TurnAround, SwitchNow, DiscardReception, PhyInv, PhyTypeOK,
              TrxStates, rxVars
<1>3. Core'
  BY PhyAssumption DEF RequestTxOn, TurnAround, SwitchNow, DiscardReception, Core, PhyInv,
         PhyTypeOK, SwitchTargetKnown, PendingIsOwned, AbandonedFrameDiscarded,
         AbortedIsNotOnAir, ActivitiesExclusive, rxVars
<1>4. QED
  BY <1>2, <1>3 DEF Core, PhyInv

LEMMA RequestForceTrxOffInv ==
    ASSUME PhyInv, RequestForceTrxOff,
           UNCHANGED <<air, pdDataRequest, staleEndTx, staleEndCca, ccaSeen, pib>>
    PROVE  PhyInv'
<1>1. conf' \in Seq(Callbacks)
  BY TrxCallbacks DEF RequestForceTrxOff, SwitchNow, TrxStates
<1>2. PhyTypeOK'
  BY <1>1 DEF RequestForceTrxOff, SwitchNow, DiscardReception, PhyInv, PhyTypeOK,
              TrxStates, rxVars
<1>3. Core'
  BY PhyAssumption DEF RequestForceTrxOff, SwitchNow, DiscardReception, Core, PhyInv,
         PhyTypeOK, SwitchTargetKnown, PendingIsOwned, AbandonedFrameDiscarded,
         AbortedIsNotOnAir, ActivitiesExclusive, rxVars
<1>4. QED
  BY <1>2, <1>3 DEF Core, PhyInv

LEMMA RequestRxOnInv ==
    ASSUME PhyInv, RequestRxOn, trxState # "RX_ON",
           UNCHANGED <<rxVars, txAborted, ccaRequest, edRequest, fault>>,
           UNCHANGED <<air, pdDataRequest, staleEndTx, staleEndCca, ccaSeen, pib>>
    PROVE  PhyInv'
<1>1. conf' \in Seq(Callbacks)
  BY NoCallback, TrxCallbacks DEF RequestRxOn, TurnAround, Defer, SwitchNow, TrxStates
<1>2. PhyTypeOK'
  BY <1>1 DEF RequestRxOn, TurnAround, Defer, SwitchNow, PhyInv, PhyTypeOK, TrxStates, rxVars
<1>3. Core'
  BY DEF RequestRxOn, TurnAround, Defer, SwitchNow, Core, PhyInv, PhyTypeOK,
         SwitchTargetKnown, PendingIsOwned, AbandonedFrameDiscarded, AbortedIsNotOnAir,
         ActivitiesExclusive, rxVars
<1>4. QED
  BY <1>2, <1>3 DEF Core, PhyInv

LEMMA SetTRXStateInv ==
    ASSUME PhyInv, NEW s \in TrxRequests, PlmeSetTRXStateRequest(s)
    PROVE  PhyInv'
<1> UNCHANGED <<air, pdDataRequest, staleEndTx, staleEndCca, ccaSeen, pib>>
  BY DEF PlmeSetTRXStateRequest
<1>1. CASE /\ conf' = <<>>
           /\ UNCHANGED <<trxVars, rxVars, txAborted, ccaRequest, edRequest, fault>>
  BY <1>1, NoCallback
     DEF PhyInv, PhyTypeOK, SwitchTargetKnown, PendingIsOwned, AbandonedFrameDiscarded,
         AbortedIsNotOnAir, ActivitiesExclusive, trxVars, rxVars
<1>2. CASE /\ s = trxState /\ SwitchNow(s, Trx(s))
           /\ UNCHANGED <<rxVars, txAborted, ccaRequest, edRequest, fault>>
  <2>1. s \in TrxStates /\ Trx(s) \in Seq(Callbacks)
    BY <1>2, TrxCallbacks DEF PhyInv, PhyTypeOK
  <2>2. QED
    BY <1>2, <2>1
       DEF SwitchNow, PhyInv, PhyTypeOK, SwitchTargetKnown, PendingIsOwned,
           AbandonedFrameDiscarded, AbortedIsNotOnAir, ActivitiesExclusive, rxVars
<1>3. CASE RequestTrxOff /\ UNCHANGED <<txAborted, ccaRequest>>
  BY <1>3, RequestTrxOffInv
<1>4. CASE RequestTxOn
  BY <1>4, RequestTxOnInv
<1>5. CASE RequestForceTrxOff
  BY <1>5, RequestForceTrxOffInv
<1>6. CASE /\ trxState # "RX_ON" /\ RequestRxOn
           /\ UNCHANGED <<rxVars, txAborted, ccaRequest, edRequest, fault>>
  BY <1>6, RequestRxOnInv
<1>7. QED
  BY <1>1, <1>2, <1>3, <1>4, <1>5, <1>6 DEF PlmeSetTRXStateRequest

LEMMA EndSetTRXStateInv ==
    ASSUME PhyInv, EndSetTRXState
    PROVE  PhyInv'
<1>1. /\ setTRXState /\ trxStatePending \in {"RX_ON", "TX_ON"}
      /\ SwitchNow(trxStatePending, Trx(trxStatePending))
      /\ UNCHANGED <<rxVars, air, txVars, ccaVars, edRequest, pib, fault>>
  BY DEF EndSetTRXState, PhyInv, SwitchTargetKnown
<1>2. conf' \in Seq(Callbacks)
  BY <1>1, TrxCallbacks DEF SwitchNow, TrxStates
<1>3. PhyTypeOK'
  BY <1>1, <1>2 DEF SwitchNow, PhyInv, PhyTypeOK, TrxStates, rxVars, txVars, ccaVars
<1>4. Core'
  BY <1>1 DEF SwitchNow, Core, PhyInv, PhyTypeOK, SwitchTargetKnown, PendingIsOwned,
              AbandonedFrameDiscarded, AbortedIsNotOnAir, ActivitiesExclusive, rxVars, txVars
<1>5. QED
  BY <1>3, <1>4 DEF Core, PhyInv

\* What EndRx and EndTx do with a state change that is still owed.
LEMMA ApplyPendingType ==
    ASSUME PhyInv, NEW st \in TrxStates, NEW cs \in Seq(Callbacks), ApplyPending(st, cs)
    PROVE  /\ conf' \in Seq(Callbacks)
           /\ trxState' \in TrxStates
           /\ trxStatePending' \in {"IDLE", "RX_ON", "TX_ON", "TRX_OFF"}
           /\ setTRXState' \in BOOLEAN
<1>1. Trx("SUCCESS") \in Seq(Callbacks)
  BY TrxCallbacks
<1>2. cs \o Trx("SUCCESS") \in Seq(Callbacks)
  BY <1>1, TwoCallbackLists
<1>3. QED
  BY <1>2 DEF ApplyPending, SwitchNow, trxVars, PhyInv, PhyTypeOK, TrxStates

LEMMA EndRxInv ==
    ASSUME PhyInv, NEW f \in air, EndRx(f)
    PROVE  PhyInv'
<1> UNCHANGED <<txVars, ccaVars, edRequest, pib, fault>> /\ air' = air \ {f}
  BY DEF EndRx
<1>1. CASE rxFrame = f
  <2> DEFINE cs == IF rxCorrupt THEN <<>> ELSE <<Callback("PdDataIndication", f)>>
  <2>1. /\ rxFrame' = NoFrame /\ rxCorrupt' = TRUE
        /\ ApplyPending("RX_ON", cs)
    BY <1>1, PhyAssumption DEF EndRx, PhyInv, PhyTypeOK
  <2>2. cs \in Seq(Callbacks)
    BY NoCallback, OneCallback DEF Prims, Statuses, PhyInv, PhyTypeOK
  <2> HIDE DEF cs
  <2>3. PhyTypeOK'
    BY <2>1, <2>2, ApplyPendingType DEF PhyInv, PhyTypeOK, txVars, ccaVars, TrxStates
  <2>4. Core'
    BY <2>1 DEF ApplyPending, SwitchNow, Core, PhyInv, PhyTypeOK, SwitchTargetKnown,
         PendingIsOwned, AbandonedFrameDiscarded, AbortedIsNotOnAir, ActivitiesExclusive,
         trxVars, txVars
  <2>5. QED
    BY <2>3, <2>4 DEF Core, PhyInv
<1>2. CASE rxFrame # f
  <2>1. conf' = <<>> /\ UNCHANGED <<trxVars, rxVars>>
    BY <1>2 DEF EndRx
  <2>2. QED
    BY <1>2, <2>1, NoCallback
       DEF PhyInv, PhyTypeOK, SwitchTargetKnown, PendingIsOwned, AbandonedFrameDiscarded,
           AbortedIsNotOnAir, ActivitiesExclusive, trxVars, rxVars, txVars, ccaVars
<1>3. QED  BY <1>1, <1>2

LEMMA StartRxInv ==
    ASSUME PhyInv, NEW f \in Frames, StartRx(f)
    PROVE  PhyInv'
<1>1. CASE CheckInterferenceFails
  BY <1>1, FailInv DEF StartRx, Faults
<1>2. CASE ~CheckInterferenceFails
  <2>1. PhyTypeOK'
    BY <1>2, NoCallback DEF StartRx, PhyInv, PhyTypeOK, TrxStates, rxVars, txVars
  <2>2. Core'
    BY <1>2 DEF StartRx, Core, PhyInv, PhyTypeOK, SwitchTargetKnown, PendingIsOwned,
         AbandonedFrameDiscarded, AbortedIsNotOnAir, ActivitiesExclusive, rxVars, txVars
  <2>3. QED
    BY <2>1, <2>2 DEF Core, PhyInv
<1>3. QED  BY <1>1, <1>2

LEMMA PdDataRequestInv ==
    ASSUME PhyInv, NEW tooLong \in BOOLEAN, PdDataRequest(tooLong)
    PROVE  PhyInv'
<1>1. CASE ~tooLong /\ ~setTRXState /\ trxState = "TX_ON"
  <2> staleEndTx' \in Nat
    <3>1. staleEndTx \in Nat  BY DEF PhyInv, PhyTypeOK
    <3>2. staleEndTx' = staleEndTx \/ staleEndTx' = staleEndTx + 1
      BY <1>1, <3>1 DEF PdDataRequest, BeginTx
    <3>3. QED  BY <3>1, <3>2
  <2>1. PhyTypeOK'
    BY <1>1, NoCallback DEF PdDataRequest, BeginTx, PhyInv, PhyTypeOK, TrxStates, rxVars, ccaVars
  <2>2. Core'
    BY <1>1 DEF PdDataRequest, BeginTx, Core, PhyInv, PhyTypeOK, SwitchTargetKnown, PendingIsOwned,
         AbandonedFrameDiscarded, AbortedIsNotOnAir, ActivitiesExclusive, rxVars
  <2>3. QED
    BY <2>1, <2>2 DEF Core, PhyInv
<1>2. CASE Fail("PdDataRequest unreachable")
  BY <1>2, FailInv DEF Faults
<1>3. ASSUME NEW st \in {"UNSPECIFIED", trxState}, conf' = <<Callback("PdDataConfirm", st)>>,
             UNCHANGED <<trxVars, rxVars, air, txVars, ccaVars, edRequest, pib, fault>>
      PROVE  PhyInv'
  <2>1. conf' \in Seq(Callbacks)
    BY <1>3, OneCallback DEF Prims, Statuses, PhyInv, PhyTypeOK
  <2>2. QED
    BY <1>3, <2>1
       DEF PhyInv, PhyTypeOK, SwitchTargetKnown, PendingIsOwned, AbandonedFrameDiscarded,
           AbortedIsNotOnAir, ActivitiesExclusive, trxVars, rxVars, txVars, ccaVars
<1>4. QED
  BY <1>1, <1>2, <1>3 DEF PdDataRequest

LEMMA EndTxInv ==
    ASSUME PhyInv, EndTx
    PROVE  PhyInv'
<1>1. CASE trxState \notin {"BUSY_TX", "TRX_OFF"}
  BY <1>1, FailInv DEF EndTx, Faults
<1>2. CASE trxState \in {"BUSY_TX", "TRX_OFF"}
  <2> DEFINE st == IF trxState = "TRX_OFF" THEN "TRX_OFF" ELSE "TX_ON"
             cs == <<Callback("PdDataConfirm", IF txAborted THEN trxState ELSE "SUCCESS")>>
  <2>1. /\ ApplyPending(st, cs) /\ txAborted' = FALSE
        /\ UNCHANGED <<rxVars, air, ccaVars, edRequest, pib, fault>>
    BY <1>2 DEF EndTx
  <2>2. \/ pdDataRequest' = FALSE /\ staleEndTx' = staleEndTx
        \/ pdDataRequest' = pdDataRequest /\ staleEndTx > 0 /\ staleEndTx' = staleEndTx - 1
    BY <1>2 DEF EndTx
  <2>3. pdDataRequest' \in BOOLEAN /\ staleEndTx' \in Nat
    <3>1. staleEndTx \in Nat  BY DEF PhyInv, PhyTypeOK
    <3>2. staleEndTx' \in Nat  BY <2>2, <3>1
    <3>3. pdDataRequest \in BOOLEAN  BY DEF PhyInv, PhyTypeOK
    <3>4. pdDataRequest' \in BOOLEAN  BY <2>2, <3>3
    <3>5. QED  BY <3>2, <3>4
  <2>4. cs \in Seq(Callbacks) /\ st \in TrxStates
    BY OneCallback DEF Prims, Statuses, PhyInv, PhyTypeOK, TrxStates
  <2>5. st \in {"TRX_OFF", "TX_ON"}
    OBVIOUS
  <2> HIDE DEF cs, st
  <2>6. PhyTypeOK'
    BY <2>1, <2>3, <2>4, ApplyPendingType DEF PhyInv, PhyTypeOK, rxVars, ccaVars
  <2>7. Core'
    BY <1>2, <2>1, <2>5 DEF ApplyPending, SwitchNow, Core, PhyInv, PhyTypeOK,
         SwitchTargetKnown, PendingIsOwned, AbandonedFrameDiscarded, AbortedIsNotOnAir,
         ActivitiesExclusive, trxVars, rxVars
  <2>8. QED
    BY <2>6, <2>7 DEF Core, PhyInv
<1>3. QED  BY <1>1, <1>2

\* CCA, energy detection and phyCCAMode leave the transceiver alone.
LEMMA MeasurementInv ==
    ASSUME PhyInv, PlmeCcaRequest \/ EndCca \/ PlmeEdRequest \/ EndEd
    PROVE  PhyInv'
<1> UNCHANGED <<trxVars, rxVars, air, txVars, pib, fault>>
  BY DEF PlmeCcaRequest, EndCca, PlmeEdRequest, EndEd
<1>1. /\ ccaRequest' \in BOOLEAN /\ staleEndCca' \in Nat /\ ccaSeen' \in BOOLEAN
      /\ edRequest' \in BOOLEAN
  <2>1. /\ staleEndCca \in Nat /\ ccaRequest \in BOOLEAN /\ ccaSeen \in BOOLEAN
        /\ edRequest \in BOOLEAN
    BY DEF PhyInv, PhyTypeOK
  <2>2. CASE PlmeCcaRequest
    <3>1. staleEndCca' = staleEndCca \/ staleEndCca' = staleEndCca + 1
      BY <2>1, <2>2 DEF PlmeCcaRequest, ccaVars
    <3>2. staleEndCca' \in Nat  BY <2>1, <3>1
    <3>3. /\ ccaRequest' \in BOOLEAN /\ ccaSeen' \in BOOLEAN /\ edRequest' \in BOOLEAN
      BY <2>1, <2>2 DEF PlmeCcaRequest, ccaVars
    <3>4. QED  BY <3>2, <3>3
  <2>3. CASE EndCca
    <3>1. \/ staleEndCca' = staleEndCca
          \/ staleEndCca > 0 /\ staleEndCca' = staleEndCca - 1
      BY <2>3 DEF EndCca
    <3>2. staleEndCca' \in Nat  BY <2>1, <3>1
    <3>3. ccaRequest' \in BOOLEAN /\ edRequest' \in BOOLEAN
      BY <2>1, <2>3 DEF EndCca
    <3>4. ccaSeen' = (ccaSeen \/ air # {})  BY <2>3 DEF EndCca
    <3>5. ccaSeen' \in BOOLEAN  BY <2>1, <3>4
    <3>6. QED  BY <3>2, <3>3, <3>5
  <2>4. CASE PlmeEdRequest \/ EndEd
    BY <2>1, <2>4 DEF PlmeEdRequest, EndEd, ccaVars
  <2>5. QED  BY <2>2, <2>3, <2>4
<1>2. conf' \in Seq(Callbacks)
  <2>1. CASE PlmeCcaRequest
    BY <2>1, NoCallback, OneCallback DEF PlmeCcaRequest, Prims, Statuses, TrxStates
  <2>2. CASE EndCca
    BY <2>2, OneCallback DEF EndCca, SensedStates, Prims, Statuses
  <2>3. CASE PlmeEdRequest
    BY <2>3, NoCallback, OneCallback
       DEF PlmeEdRequest, Prims, Statuses, TrxStates, PhyInv, PhyTypeOK
  <2>4. CASE EndEd
    BY <2>4, OneCallback DEF EndEd, Prims, Statuses
  <2>5. QED  BY <2>1, <2>2, <2>3, <2>4
<1>3. QED
  BY <1>1, <1>2
     DEF PhyInv, PhyTypeOK, SwitchTargetKnown, PendingIsOwned, AbandonedFrameDiscarded,
         AbortedIsNotOnAir, ActivitiesExclusive, trxVars, rxVars, txVars

LEMMA SetCurrentChannelInv ==
    ASSUME PhyInv, NEW ch \in Channels, SetCurrentChannel(ch)
    PROVE  PhyInv'
<1> DEFINE done == <<Callback("PlmeSetAttributeConfirm",
                      IF ch \in SupportedChannels THEN "SUCCESS" ELSE "INVALID_PARAMETER")>>
           dropped == IF trxStatePending # "IDLE" THEN Trx("TRX_OFF") ELSE <<>>
<1>1. done \in Seq(Callbacks)
  BY OneCallback DEF Prims, Statuses
<1>2. dropped \o done \in Seq(Callbacks)
  <2>1. dropped \in Seq(Callbacks)
    BY NoCallback, TrxCallbacks DEF TrxStates
  <2>2. QED  BY <1>1, <2>1, TwoCallbackLists
<1>3. conf' = done \/ conf' = dropped \o done
  BY DEF SetCurrentChannel
<1> HIDE DEF done, dropped
<1>4. conf' \in Seq(Callbacks)
  BY <1>1, <1>2, <1>3
<1>5. CASE UNCHANGED <<trxVars, rxVars, pib, air, txVars, ccaVars, edRequest, fault>>
  BY <1>4, <1>5
     DEF PhyInv, PhyTypeOK, SwitchTargetKnown, PendingIsOwned, AbandonedFrameDiscarded,
         AbortedIsNotOnAir, ActivitiesExclusive, trxVars, rxVars, txVars, ccaVars
<1>6. CASE /\ pib' = [pib EXCEPT !.channel = ch]
           /\ trxState' = "TRX_OFF" /\ trxStatePending' = "IDLE"
           /\ setTRXState' = (setTRXState /\ trxStatePending = "IDLE")
           /\ DiscardReception
           /\ UNCHANGED <<air, txVars, ccaVars, edRequest, fault>>
  <2>1. pib' \in [channel : Channels, ccaMode : 1..3]
    BY <1>6 DEF PhyInv, PhyTypeOK
  <2>2. setTRXState' = FALSE
    BY <1>6 DEF PhyInv, SwitchTargetKnown, PhyTypeOK
  <2>3. rxCorrupt' = TRUE /\ rxFrame' = rxFrame
    BY <1>6, PhyAssumption DEF DiscardReception, PhyInv, PhyTypeOK, AbandonedFrameDiscarded
  <2>4. QED
    BY <1>4, <1>6, <2>1, <2>2, <2>3
       DEF PhyInv, PhyTypeOK, SwitchTargetKnown, PendingIsOwned, AbandonedFrameDiscarded,
           AbortedIsNotOnAir, ActivitiesExclusive, TrxStates, txVars, ccaVars
<1>7. QED
  BY <1>5, <1>6 DEF SetCurrentChannel

LEMMA SetCCAModeInv ==
    ASSUME PhyInv, NEW mode \in 0..3, SetCCAMode(mode)
    PROVE  PhyInv'
<1>1. conf' \in Seq(Callbacks)
  BY OneCallback DEF SetCCAMode, Prims, Statuses
<1>2. pib' \in [channel : Channels, ccaMode : 1..3]
  BY DEF SetCCAMode, PhyInv, PhyTypeOK
<1>3. QED
  BY <1>1, <1>2
     DEF SetCCAMode, PhyInv, PhyTypeOK, SwitchTargetKnown, PendingIsOwned,
         AbandonedFrameDiscarded, AbortedIsNotOnAir, ActivitiesExclusive, trxVars, rxVars,
         txVars, ccaVars

LEMMA StepInv == PhyInv /\ [PhyNext]_phyVars => PhyInv'
<1> SUFFICES ASSUME PhyInv, [PhyNext]_phyVars PROVE PhyInv'
  OBVIOUS
<1>1. CASE UserRequest
  BY <1>1, SetTRXStateInv, PdDataRequestInv, MeasurementInv, SetCurrentChannelInv,
     SetCCAModeInv DEF UserRequest
<1>2. CASE \E f \in Frames : StartRx(f)
  BY <1>2, StartRxInv
<1>3. CASE PhyEvent
  BY <1>3, EndSetTRXStateInv, EndRxInv, EndTxInv, MeasurementInv DEF PhyEvent
<1>4. CASE UNCHANGED phyVars
  BY <1>4 DEF PhyInv, PhyTypeOK, SwitchTargetKnown, PendingIsOwned, AbandonedFrameDiscarded,
              AbortedIsNotOnAir, ActivitiesExclusive, phyVars, trxVars, rxVars, txVars, ccaVars
<1>5. QED  BY <1>1, <1>2, <1>3, <1>4 DEF PhyNext

\* Whatever its user asks for, and whatever arrives, the PHY keeps PhyInv.
THEOREM PhyInvariant == PhySpec => []PhyInv
<1>1. PhyInit => PhyInv  BY InitInv
<1>2. PhyInv /\ [PhyNext]_phyVars => PhyInv'  BY StepInv
<1>3. QED  BY <1>1, <1>2, PTL DEF PhySpec

\* Every variable of lr-wpan-phy.cc keeps to the values its handlers expect.
THEOREM PhyTypeCorrect == PhySpec => []PhyTypeOK
<1>1. PhyInv => PhyTypeOK  BY DEF PhyInv
<1>2. QED  BY <1>1, PhyInvariant, PTL

\* The NS_ABORT_IF of EndSetTRXState never fires.
THEOREM PhySwitchTargetKnown == PhySpec => []SwitchTargetKnown
<1>1. PhyInv => SwitchTargetKnown  BY DEF PhyInv
<1>2. QED  BY <1>1, PhyInvariant, PTL

\* No accepted state change is forgotten.
THEOREM PhyPendingIsOwned == PhySpec => []PendingIsOwned
<1>1. PhyInv => PendingIsOwned  BY DEF PhyInv
<1>2. QED  BY <1>1, PhyInvariant, PTL

\* EndRx never delivers a frame the receiver gave up.
THEOREM PhyAbandonedFrameDiscarded == PhySpec => []AbandonedFrameDiscarded
<1>1. PhyInv => AbandonedFrameDiscarded  BY DEF PhyInv
<1>2. QED  BY <1>1, PhyInvariant, PTL

\* The NS_ASSERT of EndTx holds: an aborted transmission is off the air.
THEOREM PhyAbortedIsNotOnAir == PhySpec => []AbortedIsNotOnAir
<1>1. PhyInv => AbortedIsNotOnAir  BY DEF PhyInv
<1>2. QED  BY <1>1, PhyInvariant, PTL
==============================================================================
