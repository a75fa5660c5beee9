-------------------------- MODULE CsmaCaSystemProofs --------------------------
(***************************************************************************)
(* Proofs about CsmaCaSystem, for every setting of the CSMA-CA parameters: *)
(* the type invariant, that at most one activity is under way, and that    *)
(* the algorithm implements the contract of ChannelAccess.                 *)
(***************************************************************************)
EXTENDS CsmaCaSystem, TLAPS

\* The inductive invariant: a request for the channel is in one of four phases, and in
\* each of them exactly one event, or one assessment, is going to move it on.
Armed == [cur |-> TRUE, old |-> 0]

Phase(rb, cp, rc, n, flag) ==
    /\ randomBackoff = rb /\ canProceed = cp /\ requestCca = rc
    /\ assessments = n /\ ccaRequestRunning = flag

Resting    == active = FALSE /\ Phase(NoEvent, NoEvent, NoEvent, 0, FALSE)
BackingOff == active = TRUE /\ Phase(Armed, NoEvent, NoEvent, 0, FALSE)
Proceeding == active = TRUE /\ Phase(NoEvent, Armed, NoEvent, 0, FALSE)
Requesting == active = TRUE /\ Phase(NoEvent, NoEvent, Armed, 0, FALSE)
Assessing  == active = TRUE /\ Phase(NoEvent, NoEvent, NoEvent, 1, TRUE)

SomePhase == Resting \/ BackingOff \/ Proceeding \/ Requesting \/ Assessing

CountersOK == active => NB <= MaxCSMABackoffs /\ (IsSlotted => CW \in 1..2)

SystemInv == SystemTypeOK /\ SomePhase /\ CountersOK

-----------------------------------------------------------------------------
LEMMA EventFacts ==
    /\ NoEvent \in Events /\ Armed \in Events /\ NoEvent # Armed
    /\ Schedule(NoEvent) = Armed
    /\ CancelEvent(NoEvent) = NoEvent /\ CancelEvent(Armed) = NoEvent
    /\ Fire(NoEvent) = {} /\ Fire(Armed) = {NoEvent}
    /\ Count(NoEvent) = 0 /\ Count(Armed) = 1
<1>1. NoEvent \in Events /\ Armed \in Events /\ NoEvent # Armed
  BY DEF Events, NoEvent, Armed
<1>2. Schedule(NoEvent) = Armed
  BY DEF NoEvent, Armed, Schedule
<1>3. CancelEvent(NoEvent) = NoEvent /\ CancelEvent(Armed) = NoEvent
  BY DEF NoEvent, Armed, CancelEvent
<1>4. Fire(NoEvent) = {} /\ Fire(Armed) = {NoEvent}
  BY DEF NoEvent, Armed, Fire
<1>5. Count(NoEvent) = 0 /\ Count(Armed) = 1
  BY DEF NoEvent, Armed, Count
<1> QED
  BY <1>1, <1>2, <1>3, <1>4, <1>5

LEMMA InitInv == CsmaAssumption /\ ClosedInit => SystemInv
<1> SUFFICES ASSUME CsmaAssumption, ClosedInit PROVE SystemInv
  OBVIOUS
<1>1. SystemTypeOK
  <2>1. DefaultMinBE \in 0..255 /\ DefaultMaxBE \in 0..255
    BY DEF CsmaAssumption
  <2>2. NB \in 0..255 /\ CW \in 0..255 /\ BE \in 0..255 /\ macMinBE \in 0..255 /\ macMaxBE \in 0..255
    BY <2>1 DEF ClosedInit, CsmaInit
  <2>3. ccaRequestRunning \in BOOLEAN /\ active \in BOOLEAN
    BY DEF ClosedInit, CsmaInit
  <2>4. assessments \in Nat /\ configured \in [minBE : Nat, maxBE : Nat]
    BY <2>1 DEF ClosedInit
  <2>5. CsmaTypeOK
    BY <2>2, <2>3, EventFacts DEF ClosedInit, CsmaInit, CsmaTypeOK
  <2> QED
    BY <2>3, <2>4, <2>5 DEF ClosedInit, SystemTypeOK
<1>2. Resting /\ CountersOK
  BY DEF ClosedInit, CsmaInit, Resting, Phase, CountersOK
<1> QED
  BY <1>1, <1>2 DEF SystemInv, SomePhase

LEMMA StartInv ==
    ASSUME SystemInv, CsmaAssumption, MacStart
    PROVE  SystemInv'
<1>1. Resting
  BY DEF SystemInv, SomePhase, MacStart, BackingOff, Proceeding, Requesting, Assessing
<1>2. BackingOff'
  BY <1>1, EventFacts DEF Resting, BackingOff, Phase, MacStart, Start
<1>3. CsmaTypeOK'
  BY <1>2, EventFacts DEF CsmaAssumption, SystemInv, SystemTypeOK, CsmaTypeOK, MacStart, Start,
     Smaller, BackingOff, Phase
<1>4. SystemTypeOK'
  BY <1>3 DEF SystemInv, SystemTypeOK, MacStart
<1>5. CountersOK'
  BY DEF CsmaAssumption, MacStart, Start, CountersOK
<1> QED
  BY <1>2, <1>4, <1>5 DEF SystemInv, SomePhase

LEMMA CancelInv ==
    ASSUME SystemInv, MacCancel
    PROVE  SystemInv'
<1>1. BackingOff \/ Proceeding \/ Requesting
  BY DEF SystemInv, SomePhase, MacCancel, Resting, Assessing, Phase
<1>2. Resting'
  BY <1>1, EventFacts DEF Resting, BackingOff, Proceeding, Requesting, Phase, MacCancel, Cancel
<1>3. SystemTypeOK'
  BY <1>2, EventFacts DEF SystemInv, SystemTypeOK, CsmaTypeOK, MacCancel, Cancel, csmaCounts,
     Resting, Phase
<1> QED
  BY <1>2, <1>3 DEF SystemInv, SomePhase, CountersOK, MacCancel

\* A backoff, or the end of one, hands over to the next phase.
LEMMA BackoffInv ==
    ASSUME SystemInv, Backoff
    PROVE  SystemInv'
<1>1. CountersOK' /\ active' = active
  BY DEF SystemInv, CountersOK, Backoff, RandomBackoffDelay, CanProceed, csmaCounts
<1>2. Proceeding' \/ Requesting'
  <2>1. CASE RandomBackoffDelay
    <3>1. BackingOff
      BY <2>1, EventFacts DEF SystemInv, SomePhase, RandomBackoffDelay, Resting, Proceeding,
         Requesting, Assessing, Phase
    <3> QED
      BY <2>1, <3>1, EventFacts DEF Backoff, RandomBackoffDelay, BackingOff, Proceeding,
         Requesting, Phase
  <2>2. CASE CanProceed
    <3>1. Proceeding
      BY <2>2, EventFacts DEF SystemInv, SomePhase, CanProceed, Resting, BackingOff,
         Requesting, Assessing, Phase
    <3> QED
      BY <2>2, <3>1, EventFacts DEF Backoff, CanProceed, Proceeding, Requesting, Phase
  <2> QED
    BY <2>1, <2>2 DEF Backoff
<1>3. SystemTypeOK'
  BY <1>2, EventFacts DEF SystemInv, SystemTypeOK, CsmaTypeOK, Backoff, RandomBackoffDelay,
     CanProceed, csmaCounts, Proceeding, Requesting, Phase
<1> QED
  BY <1>1, <1>2, <1>3 DEF SystemInv, SomePhase

LEMMA AssessInv ==
    ASSUME SystemInv, Assess
    PROVE  SystemInv' /\ Requesting
<1>1. Requesting
  BY EventFacts DEF SystemInv, SomePhase, Assess, RequestCCA, Resting, BackingOff, Proceeding,
     Assessing, Phase
<1>2. Assessing'
  BY <1>1, EventFacts DEF Assess, RequestCCA, Requesting, Assessing, Phase
<1>3. SystemTypeOK'
  BY <1>2, EventFacts DEF SystemInv, SystemTypeOK, CsmaTypeOK, Assess, RequestCCA, csmaCounts,
     Assessing, Phase
<1>4. CountersOK'
  BY DEF SystemInv, CountersOK, Assess, RequestCCA, csmaCounts
<1> QED
  BY <1>1, <1>2, <1>3, <1>4 DEF SystemInv, SomePhase

\* What the result of an assessment leads to.
Granted ==
    /\ IsSlotted => CW = 1
    /\ answer' = "CHANNEL_IDLE" /\ active' = FALSE /\ NB' = NB
    /\ CW' = (IF IsSlotted THEN 0 ELSE CW) /\ BE' = BE /\ Resting'
AssessAgain ==
    /\ IsSlotted /\ CW = 2
    /\ answer' = "none" /\ active' = TRUE /\ NB' = NB /\ CW' = 1 /\ BE' = BE /\ Requesting'
HeardBusy ==
    /\ NB' = OneMoreBackoff /\ CW' = (IF IsSlotted THEN 2 ELSE CW) /\ BE' = Smaller(BE + 1, macMaxBE)
BackoffAgain ==
    /\ HeardBusy /\ OneMoreBackoff <= MaxCSMABackoffs
    /\ answer' = "none" /\ active' = TRUE /\ BackingOff'
Denied ==
    /\ HeardBusy /\ OneMoreBackoff > MaxCSMABackoffs
    /\ answer' = "CHANNEL_ACCESS_FAILURE" /\ active' = FALSE /\ Resting'

\* The arithmetic of the uint8_t m_CW where it is decremented.
LEMMA CwStep == (1 - 1) % 256 = 0 /\ (2 - 1) % 256 = 1
OBVIOUS

\* The arithmetic of the uint8_t m_NB where it is incremented.
LEMMA NbStep ==
    ASSUME NB \in 0..255
    PROVE  OneMoreBackoff \in 0..255 /\ (NB < 255 => OneMoreBackoff = NB + 1)
BY DEF OneMoreBackoff

LEMMA ReportPhase ==
    ASSUME SystemInv, NEW status \in {"IDLE", "BUSY", "TRX_OFF"}, PhyReports(status)
    PROVE  Assessing
BY DEF SystemInv, SomePhase, PhyReports, Resting, BackingOff, Proceeding, Requesting, Phase

LEMMA ReportOutcome ==
    ASSUME SystemInv, CsmaAssumption, NEW status \in {"IDLE", "BUSY", "TRX_OFF"},
           PhyReports(status)
    PROVE  Granted \/ AssessAgain \/ BackoffAgain \/ Denied
<1>1. Assessing
  BY ReportPhase
<1>2. /\ randomBackoff = NoEvent /\ canProceed = NoEvent /\ requestCca = NoEvent
      /\ active = TRUE /\ ccaRequestRunning = TRUE
      /\ assessments' = 0 /\ ccaRequestRunning' = FALSE
  BY <1>1 DEF Assessing, Phase, PhyReports, PlmeCcaConfirm
<1>3. IsSlotted => CW \in {1, 2}
  BY <1>2 DEF SystemInv, CountersOK
<1>4. IsSlotted \in BOOLEAN /\ OneMoreBackoff \in 0..255 /\ MaxCSMABackoffs \in 0..255
  BY NbStep DEF SystemInv, SystemTypeOK, CsmaTypeOK, CsmaAssumption
<1>5. CASE status = "IDLE" /\ ~IsSlotted
  BY <1>2, <1>5 DEF PhyReports, PlmeCcaConfirm, Verdict, Granted, Resting, Phase
<1>6. CASE status = "IDLE" /\ IsSlotted /\ CW = 1
  <2>1. CW' = 0
    BY <1>2, <1>6, CwStep DEF PhyReports, PlmeCcaConfirm
  <2> QED
    BY <1>2, <1>6, <2>1 DEF PhyReports, PlmeCcaConfirm, Verdict, Granted, Resting, Phase
<1>7. CASE status = "IDLE" /\ IsSlotted /\ CW = 2
  <2>1. CW' = 1
    BY <1>2, <1>7, CwStep DEF PhyReports, PlmeCcaConfirm
  <2>2. requestCca' = Armed
    BY <1>2, <1>7, <2>1, EventFacts DEF PhyReports, PlmeCcaConfirm
  <2>3. answer' = "none"
    BY <1>2, <1>7 DEF PhyReports, Verdict
  <2>4. active' = TRUE
    BY <1>2, <2>3 DEF PhyReports
  <2> QED
    BY <1>2, <1>7, <2>1, <2>2, <2>3, <2>4 DEF PhyReports, PlmeCcaConfirm, AssessAgain, Requesting, Phase
<1>8. CASE status # "IDLE" /\ OneMoreBackoff <= MaxCSMABackoffs
  <2>1. ~(OneMoreBackoff > MaxCSMABackoffs)
    BY <1>4, <1>8
  <2>2. HeardBusy
    BY <1>2, <1>8 DEF PhyReports, PlmeCcaConfirm, HeardBusy
  <2>3. randomBackoff' = Armed
    BY <1>2, <1>8, <2>1, <2>2, EventFacts DEF PhyReports, PlmeCcaConfirm, HeardBusy
  <2>4. answer' = "none" /\ active' = TRUE
    BY <1>2, <1>8, <2>1 DEF PhyReports, Verdict
  <2> QED
    BY <1>2, <1>8, <2>2, <2>3, <2>4 DEF PhyReports, PlmeCcaConfirm, BackoffAgain, BackingOff, Phase
<1>9. CASE status # "IDLE" /\ OneMoreBackoff > MaxCSMABackoffs
  <2>1. HeardBusy
    BY <1>2, <1>9 DEF PhyReports, PlmeCcaConfirm, HeardBusy
  <2>2. randomBackoff' = NoEvent
    BY <1>2, <1>9, <2>1 DEF PhyReports, PlmeCcaConfirm, HeardBusy
  <2>3. answer' = "CHANNEL_ACCESS_FAILURE" /\ active' = FALSE
    BY <1>2, <1>9 DEF PhyReports, Verdict
  <2> QED
    BY <1>2, <1>9, <2>1, <2>2, <2>3 DEF PhyReports, PlmeCcaConfirm, Denied, Resting, Phase
<1> QED
  BY <1>3, <1>4, <1>5, <1>6, <1>7, <1>8, <1>9

LEMMA ReportInv ==
    ASSUME SystemInv, CsmaAssumption, NEW status \in {"IDLE", "BUSY", "TRX_OFF"},
           PhyReports(status)
    PROVE  SystemInv'
<1>1. Assessing /\ (Granted \/ AssessAgain \/ BackoffAgain \/ Denied)
  BY ReportPhase, ReportOutcome
<1>2. SomePhase' /\ CountersOK'
  <2>1. IsSlotted \in BOOLEAN /\ NB \in 0..255 /\ NB <= MaxCSMABackoffs
    BY <1>1 DEF SystemInv, SystemTypeOK, CsmaTypeOK, CsmaAssumption, CountersOK, Assessing
  <2> QED
    BY <1>1, <2>1 DEF SomePhase, CountersOK, Granted, AssessAgain, BackoffAgain, Denied, HeardBusy
<1>3. NB' \in 0..255 /\ CW' \in 0..255 /\ BE' \in 0..255
  <2>1. NB \in 0..255 /\ CW \in 0..255 /\ BE \in 0..255 /\ macMaxBE \in 0..255
    BY DEF SystemInv, SystemTypeOK, CsmaTypeOK
  <2>2. Smaller(BE + 1, macMaxBE) \in 0..255
    BY <2>1 DEF Smaller
  <2> QED
    BY <1>1, <2>1, <2>2, NbStep DEF Granted, AssessAgain, BackoffAgain, Denied, HeardBusy
<1>4. CsmaTypeOK'
  <2>1. macMinBE' \in 0..255 /\ macMaxBE' \in 0..255
    BY DEF SystemInv, SystemTypeOK, CsmaTypeOK, PhyReports, PlmeCcaConfirm
  <2>2. ccaRequestRunning' \in BOOLEAN
    BY <1>2 DEF SomePhase, Resting, BackingOff, Proceeding, Requesting, Assessing, Phase
  <2>3. /\ randomBackoff' \in Events /\ canProceed' \in Events
        /\ requestCca' \in Events
    BY <1>2, EventFacts DEF SomePhase, Resting, BackingOff, Proceeding, Requesting, Assessing, Phase
  <2> QED
    BY <1>3, <2>1, <2>2, <2>3 DEF CsmaTypeOK
<1>5. SystemTypeOK'
  <2>1. answer' \in {"none", "CHANNEL_IDLE", "CHANNEL_ACCESS_FAILURE"} /\ active' \in BOOLEAN
    BY <1>1 DEF Granted, AssessAgain, BackoffAgain, Denied
  <2>2. assessments' \in Nat
    BY <1>2 DEF SomePhase, Resting, BackingOff, Proceeding, Requesting, Assessing, Phase
  <2> QED
    BY <1>4, <2>1, <2>2 DEF SystemInv, SystemTypeOK, PhyReports
<1> QED
  BY <1>2, <1>5 DEF SystemInv

LEMMA ConfigureInv ==
    ASSUME SystemInv, CsmaAssumption, NEW v \in BEValues, Configure(v)
    PROVE  SystemInv'
<1>1. v \in 0..255
  BY DEF CsmaAssumption
<1>2. macMinBE' = v /\ UNCHANGED <<csmaCounts, macMaxBE, csmaEvents, ccaRequestRunning,
                                  active, assessments>>
  BY DEF Configure, SetMacMinBE, SetMacMaxBE
<1>3. CsmaTypeOK'
  BY <1>1, <1>2 DEF SystemInv, SystemTypeOK, CsmaTypeOK, csmaCounts, csmaEvents
<1>4. configured' \in [minBE : Nat, maxBE : Nat] /\ answer' = "none"
  BY <1>1 DEF SystemInv, SystemTypeOK, Configure
<1>5. SystemTypeOK'
  BY <1>2, <1>3, <1>4 DEF SystemInv, SystemTypeOK
<1>6. SomePhase' /\ CountersOK'
  BY <1>2 DEF SystemInv, SomePhase, CountersOK, Resting, BackingOff, Proceeding, Requesting,
     Assessing, Phase, csmaCounts, csmaEvents
<1> QED
  BY <1>5, <1>6 DEF SystemInv

LEMMA StepInv == CsmaAssumption /\ SystemInv /\ [ClosedNext]_closedVars => SystemInv'
<1> SUFFICES ASSUME CsmaAssumption, SystemInv, [ClosedNext]_closedVars PROVE SystemInv'
  OBVIOUS
<1>1. CASE UNCHANGED closedVars
  BY <1>1 DEF SystemInv, SystemTypeOK, CsmaTypeOK, SomePhase, CountersOK, Resting, BackingOff,
     Proceeding, Requesting, Assessing, Phase, closedVars, csmaVars, csmaCounts, csmaEvents, envVars
<1>2. CASE ClosedNext
  BY <1>2, StartInv, CancelInv, BackoffInv, AssessInv, ReportInv, ConfigureInv DEF ClosedNext, Step
<1> QED
  BY <1>1, <1>2

-----------------------------------------------------------------------------
\* OneActivity, for every setting of the parameters: the members of the class are never
\* shared by two runs of the algorithm (RandomBackoffDelay, CanProceed, RequestCCA and
\* PlmeCcaConfirm each end what they were scheduled for).
THEOREM OneActivityHolds == ClosedSpec => []OneActivity
<1>1. SystemInv => OneActivity
  <2> SUFFICES ASSUME SystemInv PROVE OneActivity
    OBVIOUS
  <2>1. Activities = (IF active THEN 1 ELSE 0)
    BY EventFacts DEF SystemInv, SomePhase, Resting, BackingOff, Proceeding, Requesting,
       Assessing, Phase, Activities
  <2>2. ccaRequestRunning <=> assessments = 1
    BY DEF SystemInv, SomePhase, Resting, BackingOff, Proceeding, Requesting, Assessing, Phase
  <2> QED
    BY <2>1, <2>2 DEF SystemInv, CountersOK, OneActivity
<1> QED
  BY <1>1, InitInv, StepInv, CsmaAssumption, PTL DEF ClosedSpec

\* The type invariant: m_NB, m_CW and m_BE and the two exponents have values of a uint8_t,
\* whatever is configured, a maximum of 255 backoffs, where m_NB wraps, included.
THEOREM SystemTypeCorrect == ClosedSpec => []SystemTypeOK
<1>1. SystemInv => SystemTypeOK
  BY DEF SystemInv
<1> QED
  BY <1>1, InitInv, StepInv, CsmaAssumption, PTL DEF ClosedSpec

-----------------------------------------------------------------------------
\* With 255 backoffs allowed m_NB never exceeds the maximum, and the channel is never denied.
CountsFit == MaxCSMABackoffs < 255

\* Each step of the system is a step of the contract or leaves it alone.
LEMMA RefinesStep ==
    CsmaAssumption /\ CountsFit /\ SystemInv /\ [ClosedNext]_closedVars
        => [Contract!Next]_(Contract!vars)
<1> SUFFICES ASSUME CsmaAssumption, CountsFit, SystemInv, [ClosedNext]_closedVars
             PROVE  Contract!Next \/ UNCHANGED Contract!vars
  OBVIOUS
<1> DEFINE idle == IF IsSlotted /\ CW # 0 THEN 2 - CW ELSE 0
<1>1. CASE UNCHANGED closedVars
  BY <1>1 DEF closedVars, csmaVars, csmaCounts, envVars, Contract!vars
<1>2. CASE MacStart
  <2>1. active = FALSE /\ active' = TRUE /\ answer' = "none" /\ NB' = 0
    BY <1>2 DEF MacStart, Start, SystemInv, SystemTypeOK
  <2>2. idle' = 0
    BY <1>2 DEF MacStart, Start
  <2> QED
    BY <2>1, <2>2 DEF Contract!Next, Contract!Begin
<1>3. CASE MacCancel
  BY <1>3 DEF MacCancel, Cancel, csmaCounts, Contract!Next, Contract!GiveUp
<1>4. CASE Backoff \/ Assess \/ \E v \in BEValues : Configure(v)
  <2>1. answer' = "none" /\ UNCHANGED <<active, NB, CW>>
    BY <1>4 DEF Backoff, RandomBackoffDelay, CanProceed, Assess, RequestCCA, Configure,
       SetMacMinBE, SetMacMaxBE, csmaCounts
  <2> QED
    BY <2>1 DEF Contract!Next, Contract!Read
<1>5. ASSUME NEW status \in {"IDLE", "BUSY", "TRX_OFF"}, PhyReports(status)
      PROVE  Contract!Next
  <2>1. active = TRUE
    BY <1>5, ReportPhase DEF Assessing
  <2>2. IsSlotted \in BOOLEAN /\ CW \in 0..255
    BY DEF CsmaAssumption, SystemInv, SystemTypeOK, CsmaTypeOK
  <2>3. OneMoreBackoff = NB + 1
    <3>1. NB \in 0..255 /\ NB <= MaxCSMABackoffs /\ MaxCSMABackoffs \in 0..255
      BY <2>1 DEF CsmaAssumption, SystemInv, SystemTypeOK, CsmaTypeOK, CountersOK
    <3> QED
      BY <3>1, NbStep DEF CountsFit
  <2>4. CASE Granted
    <3>1. idle + 1 = (IF IsSlotted THEN 2 ELSE 1) /\ idle' = 0
      BY <2>2, <2>4 DEF Granted
    <3> QED
      BY <2>1, <2>4, <3>1 DEF Granted, Contract!Next, Contract!HearIdle
  <2>5. CASE AssessAgain
    <3>1. idle + 1 < (IF IsSlotted THEN 2 ELSE 1) /\ idle' = idle + 1
      BY <2>2, <2>5 DEF AssessAgain
    <3> QED
      BY <2>1, <2>5, <3>1 DEF AssessAgain, Contract!Next, Contract!HearIdle
  <2>6. CASE BackoffAgain
    <3>1. idle' = 0
      BY <2>6 DEF BackoffAgain, HeardBusy
    <3> QED
      BY <2>1, <2>3, <2>6, <3>1 DEF BackoffAgain, HeardBusy, Contract!Next, Contract!HearBusy
  <2>7. CASE Denied
    <3>1. idle' = 0
      BY <2>7 DEF Denied, HeardBusy
    <3> QED
      BY <2>1, <2>3, <2>7, <3>1 DEF Denied, HeardBusy, Contract!Next, Contract!HearBusy
  <2> QED
    BY <1>5, ReportOutcome, <2>4, <2>5, <2>6, <2>7
<1> QED
  BY <1>1, <1>2, <1>3, <1>4, <1>5 DEF ClosedNext, Step

\* The algorithm implements the contract: the answers of PlmeCcaConfirm are the ones the
\* standard's channel access gives, one for each Start that is not cancelled, if m_NB can
\* count to one more than m_macMaxCSMABackoffs (the default is 4, the standard's limit 5).
THEOREM ImplementsContract == CountsFit => (ClosedSpec => ContractSpec)
<1> SUFFICES ASSUME CountsFit PROVE ClosedSpec => ContractSpec
  OBVIOUS
<1>1. CsmaAssumption /\ ClosedInit => Contract!Init
  BY DEF ClosedInit, CsmaInit, Contract!Init
<1> QED
  BY <1>1, InitInv, StepInv, RefinesStep, CsmaAssumption, CountsFit, PTL DEF ClosedSpec, ContractSpec, Contract!Spec
===============================================================================
