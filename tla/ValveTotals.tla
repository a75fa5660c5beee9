----------------------------- MODULE ValveTotals -----------------------------
(***************************************************************************)
(* The ThingWorx service that polls the nodes on a timer and keeps, for    *)
(* each valve of a machine, the last count read, a reference that carries  *)
(* the counts over restarts of the node, and the figure of the last day.   *)
(* The nodes count, restart and are written to between any two of its      *)
(* requests.                                                               *)
(***************************************************************************)
EXTENDS SensorNode

CONSTANTS MaxPolls      \* bound: polls

ASSUME PollAssumption == MaxPolls \in Nat

VARIABLES
    machineCount,           \* the machine being polled, 0 between polls
    step,                   \* answers so far: the board's, then the valves'
    connectionEstablished,
    valveResult,
    valveCounts, refCount,  \* properties of a machine's Thing
    last24h,
    stream,                 \* its entries of the last day, oldest first
    polls                   \* for the bound: polls begun

pollVars   == <<machineCount, step, connectionEstablished, valveResult>>
thingVars  == <<valveCounts, refCount, last24h, stream>>
serverVars == <<pollVars, thingVars>>
vars       == <<nodeVars, serverVars, polls>>

PerValve(n) == [m \in Machines |-> [v \in Valves |-> n]]

Init ==
    /\ NodeInit
    /\ machineCount = 0 /\ step = 0 /\ connectionEstablished = TRUE
    /\ valveResult = [v \in Valves |-> -1]
    /\ valveCounts = PerValve(0) /\ refCount = PerValve(0) /\ last24h = PerValve(0)
    /\ stream = [m \in Machines |-> <<>>]
    /\ polls = 0

----------------------------------------------------------------------------
(* The head of the loop over the machines; 0 is its end.                   *)
Poll(m) ==
    /\ machineCount' = m /\ step' = 0
    /\ connectionEstablished' = TRUE
    /\ valveResult' = [v \in Valves |-> -1]

Timer ==
    /\ machineCount = 0 /\ polls < MaxPolls
    /\ polls' = polls + 1
    /\ Poll(1)
    /\ UNCHANGED <<nodeVars, thingVars>>

(* /riot/board, then /riot/valve1 and so on; the first that fails ends it. *)
Get(answered) ==
    /\ machineCount # 0 /\ connectionEstablished /\ step <= NumValves
    /\ connectionEstablished' = answered
    /\ IF answered
       THEN /\ step' = step + 1
            /\ valveResult' = IF step = 0 THEN valveResult
                              ELSE [valveResult EXCEPT ![step] = secondValue[machineCount][step]]
       ELSE UNCHANGED <<step, valveResult>>
    /\ UNCHANGED <<machineCount, nodeVars, thingVars, polls>>

(* A count below the last one means that the node was restarted: the last  *)
(* count goes into the reference.  All valves are compared with valve 1,   *)
(* which is up to date by the time the others are looked at.               *)
Compared(m, v) == IF v = 1 THEN valveCounts[m][1] ELSE valveResult[1]

NewRefCountSlip(m) ==                        \* Slip: adds the new count
    [v \in Valves |->
       IF connectionEstablished /\ valveResult[v] < Compared(m, v)
       THEN refCount[m][v] + valveResult[v] ELSE refCount[m][v]]
NewRefCountEqual(m) ==                       \* Slip: <= instead of <
    [v \in Valves |->
       IF connectionEstablished /\ valveResult[v] <= Compared(m, v)
       THEN refCount[m][v] + valveCounts[m][v] ELSE refCount[m][v]]
NewRefCount(m) ==
    [v \in Valves |->
       IF connectionEstablished /\ valveResult[v] < Compared(m, v)
       THEN refCount[m][v] + valveCounts[m][v] ELSE refCount[m][v]]

NewCountsSlip(m) == valveResult              \* Slip: whatever the poll came to
NewCounts(m) == IF connectionEstablished THEN valveResult ELSE valveCounts[m]

Update ==
    LET m      == machineCount
        counts == NewCounts(m)
    IN /\ m # 0 /\ (step > NumValves \/ ~connectionEstablished)
       /\ refCount' = [refCount EXCEPT ![m] = NewRefCount(m)]
       /\ valveCounts' = [valveCounts EXCEPT ![m] = counts]
       /\ last24h' = [last24h EXCEPT ![m] =
                        [v \in Valves |-> IF stream[m] = <<>> THEN 0
                                          ELSE counts[v] - Head(stream[m])[v]]]
       /\ stream' = IF connectionEstablished
                    THEN [stream EXCEPT ![m] = Append(@, counts)] ELSE stream
       /\ Poll(IF m < NumMachines THEN m + 1 ELSE 0)
       /\ UNCHANGED <<nodeVars, polls>>

(* An entry becomes older than a day.                                      *)
Expire(m) ==
    /\ machineCount = 0 /\ stream[m] # <<>>
    /\ stream' = [stream EXCEPT ![m] = Tail(@)]
    /\ UNCHANGED <<nodeVars, pollVars, valveCounts, refCount, last24h, polls>>

----------------------------------------------------------------------------
Next ==
    \/ NodeNext /\ UNCHANGED <<serverVars, polls>>
    \/ Timer \/ Update
    \/ \E answered \in BOOLEAN : Get(answered)
    \/ \E m \in Machines : Expire(m)

Spec == Init /\ [][Next]_vars

----------------------------------------------------------------------------
Total(m, v) == refCount[m][v] + valveCounts[m][v]

(* The total shown for valve 1 never exceeds its openings, whenever the    *)
(* node restarts and whichever polls fail, unless a PUT changes its count. *)
NeverOvercounts ==
    \A m \in Machines : <<m, 1>> \notin written => Total(m, 1) <= opened[m][1]

(* The total of valve 1 never goes down, even when its count is written.   *)
Valve1TotalGrows ==
    [][\A m \in Machines : Total(m, 1)' >= Total(m, 1)]_vars

(* A machine's figure of the last day is negative only after a restart or  *)
(* a PUT: a node that does not answer never counts as one that answers.    *)
DayNegativeAfterRestart ==
    \A m \in Machines, v \in Valves :
        last24h[m][v] < 0 => boots[m] > 0 \/ <<m, v>> \in written

(* "update the machine totals first": the total of every valve is carried  *)
(* over restarts.                                                          *)
EveryTotalGrows ==
    [][\A m \in Machines, v \in Valves : Total(m, v)' >= Total(m, v)]_vars
=============================================================================
