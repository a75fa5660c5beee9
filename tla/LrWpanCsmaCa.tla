----------------------------- MODULE LrWpanCsmaCa -----------------------------
(***************************************************************************)
(* The CSMA-CA algorithm of lr-wpan/lr-wpan-csmaca.cc.  One action per     *)
(* function; each scheduled call is an Ns3Event.  The length of a backoff  *)
(* is abstracted: a scheduled call runs at any later point.                *)
(*                                                                         *)
(* The module is open at both ends.  Towards the PHY, RequestCCA asks for  *)
(* an assessment and PlmeCcaConfirm takes its result; towards the MAC,     *)
(* Verdict is what m_lrWpanMacStateCallback is called with.  CsmaCaSystem  *)
(* closes it with the most general MAC and PHY, LrWpanMac with real ones.  *)
(***************************************************************************)
EXTENDS Ns3Event, Integers

CONSTANTS
    IsSlotted,          \* m_isSlotted
    BatteryLife,        \* m_BLE
    DefaultMinBE,       \* initial m_macMinBE
    DefaultMaxBE,       \* initial m_macMaxBE
    MaxCSMABackoffs,    \* m_macMaxCSMABackoffs
    BEValues            \* exponents a user passes to the setters

ASSUME CsmaAssumption ==
    /\ IsSlotted \in BOOLEAN /\ BatteryLife \in BOOLEAN
    /\ DefaultMinBE \in 0..255 /\ DefaultMaxBE \in DefaultMinBE..255
    /\ MaxCSMABackoffs \in 0..255
    /\ BEValues \subseteq 0..255

VARIABLES
    NB,                 \* m_NB, a uint8_t
    CW,                 \* m_CW, a uint8_t
    BE,                 \* m_BE, a uint8_t
    macMinBE,           \* m_macMinBE
    macMaxBE,           \* m_macMaxBE
    randomBackoff,      \* m_randomBackoffEvent
    canProceed,         \* m_canProceedEvent
    requestCca,         \* m_requestCcaEvent
    ccaRequestRunning   \* m_ccaRequestRunning

csmaEvents == <<randomBackoff, canProceed, requestCca>>
csmaCounts == <<NB, CW, BE>>
csmaVars   == <<csmaCounts, macMinBE, macMaxBE, csmaEvents, ccaRequestRunning>>

\* Definitions named ...Slip are mutations of the one that follows them; no
\* specification uses them.
SmallerSlip(a, b) == a

Smaller(a, b) == IF a < b THEN a ELSE b

CsmaInit ==
    /\ NB = 0 /\ CW = 2 /\ BE = DefaultMinBE
    /\ macMinBE = DefaultMinBE /\ macMaxBE = DefaultMaxBE
    /\ randomBackoff = NoEvent /\ canProceed = NoEvent /\ requestCca = NoEvent
    /\ ccaRequestRunning = FALSE

Start ==
    /\ NB' = 0
    /\ CW' = IF IsSlotted THEN 2 ELSE CW
    /\ BE' = IF IsSlotted /\ BatteryLife THEN Smaller(2, macMinBE) ELSE macMinBE
    /\ randomBackoff' = Schedule(randomBackoff)
    /\ UNCHANGED <<macMinBE, macMaxBE, canProceed, requestCca, ccaRequestRunning>>

CancelSlip ==
    /\ randomBackoff' = CancelEvent(randomBackoff)
    /\ canProceed' = CancelEvent(canProceed)
    /\ UNCHANGED <<requestCca, csmaCounts, macMinBE, macMaxBE, ccaRequestRunning>>

\* The three events; an assessment under way and its flag are left as they are.
Cancel ==
    /\ randomBackoff' = CancelEvent(randomBackoff)
    /\ canProceed' = CancelEvent(canProceed)
    /\ requestCca' = CancelEvent(requestCca)
    /\ UNCHANGED <<csmaCounts, macMinBE, macMaxBE, ccaRequestRunning>>

RandomBackoffDelay ==
    /\ randomBackoff' \in Fire(randomBackoff)
    /\ IF IsSlotted THEN canProceed' = Schedule(canProceed) /\ UNCHANGED requestCca
                    ELSE requestCca' = Schedule(requestCca) /\ UNCHANGED canProceed
    /\ UNCHANGED <<csmaCounts, macMinBE, macMaxBE, ccaRequestRunning>>

CanProceed ==
    /\ canProceed' \in Fire(canProceed)
    /\ requestCca' = Schedule(requestCca)
    /\ UNCHANGED <<csmaCounts, macMinBE, macMaxBE, randomBackoff, ccaRequestRunning>>

RequestCCASlip ==
    /\ requestCca' \in Fire(requestCca)
    /\ UNCHANGED <<csmaCounts, macMinBE, macMaxBE, randomBackoff, canProceed, ccaRequestRunning>>

\* The caller conjoins the PHY's PlmeCcaRequest.
RequestCCA ==
    /\ requestCca' \in Fire(requestCca)
    /\ ccaRequestRunning' = TRUE
    /\ UNCHANGED <<csmaCounts, macMinBE, macMaxBE, randomBackoff, canProceed>>

\* m_NB++; with m_macMaxCSMABackoffs = 255 it wraps before it exceeds the maximum.
OneMoreBackoff == (NB + 1) % 256

VerdictSlip(status) ==
    IF ~ccaRequestRunning THEN "none"
    ELSE IF status = "IDLE"
         THEN IF IsSlotted /\ CW # 1 THEN "none" ELSE "CHANNEL_IDLE"
         ELSE IF OneMoreBackoff >= MaxCSMABackoffs THEN "CHANNEL_ACCESS_FAILURE" ELSE "none"

\* What PlmeCcaConfirm (status) reports to the MAC.
Verdict(status) ==
    IF ~ccaRequestRunning THEN "none"
    ELSE IF status = "IDLE"
         THEN IF IsSlotted /\ CW # 1 THEN "none" ELSE "CHANNEL_IDLE"
         ELSE IF OneMoreBackoff > MaxCSMABackoffs THEN "CHANNEL_ACCESS_FAILURE" ELSE "none"

PlmeCcaConfirm(status) ==
    /\ \/ ~ccaRequestRunning /\ UNCHANGED <<csmaCounts, csmaEvents>>
       \/ /\ ccaRequestRunning /\ status = "IDLE"
          /\ CW' = IF IsSlotted THEN (CW - 1) % 256 ELSE CW
          /\ requestCca' = IF IsSlotted /\ CW' # 0 THEN Schedule(requestCca) ELSE requestCca
          /\ UNCHANGED <<NB, BE, randomBackoff, canProceed>>
       \/ /\ ccaRequestRunning /\ status # "IDLE"
          /\ CW' = IF IsSlotted THEN 2 ELSE CW
          /\ BE' = Smaller(BE + 1, macMaxBE)
          /\ NB' = OneMoreBackoff
          /\ randomBackoff' = IF NB' > MaxCSMABackoffs THEN randomBackoff
                                                       ELSE Schedule(randomBackoff)
          /\ UNCHANGED <<canProceed, requestCca>>
    /\ ccaRequestRunning' = FALSE
    /\ UNCHANGED <<macMinBE, macMaxBE>>

\* Both setters write m_macMinBE.
SetMacMinBE(v) ==
    macMinBE' = v /\ UNCHANGED <<csmaCounts, macMaxBE, csmaEvents, ccaRequestRunning>>

SetMacMaxBE(v) ==
    macMinBE' = v /\ UNCHANGED <<csmaCounts, macMaxBE, csmaEvents, ccaRequestRunning>>

-----------------------------------------------------------------------------
\* The three counters and the two exponents stay within the uint8_t members the code keeps
\* them in: m_NB and m_CW because they are incremented and decremented in eight bits, m_BE
\* because PlmeCcaConfirm takes the minimum of a 16-bit sum and m_macMaxBE.
CsmaTypeOK ==
    /\ NB \in 0..255 /\ CW \in 0..255 /\ BE \in 0..255
    /\ macMinBE \in 0..255 /\ macMaxBE \in 0..255
    /\ randomBackoff \in Events /\ canProceed \in Events /\ requestCca \in Events
    /\ ccaRequestRunning \in BOOLEAN
===============================================================================
