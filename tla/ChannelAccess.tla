----------------------------- MODULE ChannelAccess -----------------------------
(***************************************************************************)
(* What a MAC may rely on when it asks for the channel (IEEE 802.15.4      *)
(* clause 7.5.1.4, the clause lr-wpan-csmaca.h refers to): the channel is  *)
(* granted after IdleNeeded idle assessments in a row and denied after     *)
(* MaxBackoffs + 1 busy ones, each request gets one answer, and a request  *)
(* that was given up gets none.                                            *)
(***************************************************************************)
EXTENDS Naturals

CONSTANTS IdleNeeded,   \* idle assessments in a row that grant the channel
          MaxBackoffs   \* busy assessments that are followed by another try

VARIABLES active,       \* a request is waiting for its answer
          busy,         \* busy assessments since the request
          idle,         \* idle assessments since the last busy one, while waiting
          answer        \* the answer the last step gave, or "none"

vars == <<active, busy, idle, answer>>

Init == active = FALSE /\ busy = 0 /\ idle = 0 /\ answer = "none"

Begin ==
    /\ ~active /\ active' = TRUE
    /\ busy' = 0 /\ idle' = 0 /\ answer' = "none"

HearIdle ==
    /\ active
    /\ \/ /\ idle + 1 < IdleNeeded /\ idle' = idle + 1
          /\ answer' = "none" /\ UNCHANGED active
       \/ /\ idle + 1 = IdleNeeded /\ idle' = 0
          /\ answer' = "CHANNEL_IDLE" /\ active' = FALSE
    /\ UNCHANGED busy

HearBusy ==
    /\ active
    /\ busy' = busy + 1 /\ idle' = 0
    /\ \/ busy' <= MaxBackoffs /\ answer' = "none" /\ UNCHANGED active
       \/ busy' > MaxBackoffs /\ answer' = "CHANNEL_ACCESS_FAILURE" /\ active' = FALSE

GiveUp ==
    /\ active /\ active' = FALSE
    /\ answer' = "none" /\ UNCHANGED <<busy, idle>>

\* The requester has seen the answer.
Read == answer' = "none" /\ UNCHANGED <<active, busy, idle>>

Next == Begin \/ HearIdle \/ HearBusy \/ GiveUp \/ Read

Spec == Init /\ [][Next]_vars

\* A request that is not given up is answered.
Answered == active ~> ~active
================================================================================
