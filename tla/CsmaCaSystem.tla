----------------------------- MODULE CsmaCaSystem -----------------------------
(***************************************************************************)
(* LrWpanCsmaCa between a MAC that may start it whenever it owns no run of *)
(* it, and a PHY that answers every assessment with any result, and what   *)
(* such a MAC may rely on.  It gives a run up only while no assessment is  *)
(* under way: Cancel leaves one alone, with the flag that makes its result *)
(* count, and what the MAC of this repository gets from that is what       *)
(* CancelledRunEnds of LrWpanMac is about.                                 *)
(***************************************************************************)
EXTENDS LrWpanCsmaCa

VARIABLES
    active,             \* history: started, and neither answered nor cancelled
    answer,             \* history: the verdict of the last step
    assessments,        \* PHY: results it still has to report
    configured          \* history: what the setters were last asked for

envVars   == <<active, answer, assessments, configured>>
closedVars == <<csmaVars, envVars>>

ClosedInit ==
    /\ CsmaInit
    /\ active = FALSE /\ answer = "none" /\ assessments = 0
    /\ configured = [minBE |-> DefaultMinBE, maxBE |-> DefaultMaxBE]

\* The MAC starts the algorithm when it owns no other run of it.
MacStart ==
    /\ ~active /\ Start
    /\ active' = TRUE /\ answer' = "none" /\ UNCHANGED <<assessments, configured>>

MacCancel ==
    /\ active /\ assessments = 0 /\ Cancel
    /\ active' = FALSE /\ answer' = "none" /\ UNCHANGED <<assessments, configured>>

Backoff ==
    /\ RandomBackoffDelay \/ CanProceed
    /\ answer' = "none" /\ UNCHANGED <<active, assessments, configured>>

Assess ==
    /\ RequestCCA
    /\ assessments' = assessments + 1 /\ answer' = "none"
    /\ UNCHANGED <<active, configured>>

PhyReports(status) ==
    /\ assessments > 0 /\ assessments' = assessments - 1
    /\ PlmeCcaConfirm(status)
    /\ answer' = Verdict(status)
    /\ active' = (active /\ answer' = "none")
    /\ UNCHANGED configured

Configure(v) ==
    /\ \/ SetMacMinBE(v) /\ configured' = [configured EXCEPT !.minBE = v]
       \/ SetMacMaxBE(v) /\ configured' = [configured EXCEPT !.maxBE = v]
    /\ answer' = "none" /\ UNCHANGED <<active, assessments>>

Step ==
    \/ Backoff
    \/ Assess
    \/ \E status \in {"IDLE", "BUSY", "TRX_OFF"} : PhyReports(status)

ClosedNext ==
    \/ MacStart
    \/ MacCancel
    \/ Step
    \/ \E v \in BEValues : Configure(v)

ClosedSpec == ClosedInit /\ [][ClosedNext]_closedVars

\* The simulator runs what is scheduled and the PHY answers; the MAC need not cancel.
ClosedFairSpec == ClosedSpec /\ WF_closedVars(Step)

-----------------------------------------------------------------------------
SystemTypeOK ==
    /\ CsmaTypeOK
    /\ active \in BOOLEAN
    /\ answer \in {"none", "CHANNEL_IDLE", "CHANNEL_ACCESS_FAILURE"}
    /\ assessments \in Nat
    /\ configured \in [minBE : Nat, maxBE : Nat]

\* How many calls are scheduled or owed.
Count(e) == e.old + (IF e.cur THEN 1 ELSE 0)
Activities == Count(randomBackoff) + Count(canProceed) + Count(requestCca) + assessments

\* While a request for the channel is open, exactly one thing is going to happen next:
\* a backoff, the end of one, or an assessment; and nothing once it is answered or
\* given up.  The members NB, CW and the flag belong to that one run.
OneActivity ==
    /\ Activities = (IF active THEN 1 ELSE 0)
    /\ ccaRequestRunning <=> assessments = 1
    /\ active => NB <= MaxCSMABackoffs /\ (IsSlotted => CW \in 1..2)

\* The algorithm refines the contract the MAC relies on.
Contract == INSTANCE ChannelAccess WITH
    IdleNeeded <- IF IsSlotted THEN 2 ELSE 1, MaxBackoffs <- MaxCSMABackoffs,
    busy <- NB,
    idle <- IF IsSlotted /\ CW # 0 THEN 2 - CW ELSE 0
ContractSpec == Contract!Spec
ContractAnswered == Contract!Answered

\* The setters set what they are named after: not kept (README, "Observations").
ConfigurationApplied ==
    macMinBE = configured.minBE /\ macMaxBE = configured.maxBE
===============================================================================
