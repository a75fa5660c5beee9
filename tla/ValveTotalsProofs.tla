-------------------------- MODULE ValveTotalsProofs --------------------------
(***************************************************************************)
(* The total of valve 1: it never goes down, and never exceeds the         *)
(* openings, for any number of machines, valves, restarts and polls; the   *)
(* digest of an upload, for any uploads; and the figure of the last day.   *)
(***************************************************************************)
EXTENDS ValveTotals, SequenceTheorems, TLAPS

(* A valve that has been asked has given a count.                          *)
CountsTypeOK ==
    /\ secondValue \in [Machines -> [Valves -> Nat]]
    /\ opened \in [Machines -> [Valves -> Nat]]
    /\ valveCounts \in [Machines -> [Valves -> Nat]]
    /\ refCount \in [Machines -> [Valves -> Nat]]
    /\ machineCount \in 0 .. NumMachines
    /\ step \in 0 .. NumValves + 1
    /\ connectionEstablished \in BOOLEAN
    /\ valveResult \in [Valves -> Int]
    /\ \A v \in Valves : v < step => valveResult[v] \in Nat

LEMMA FirstValve == 1 \in Valves
  BY NodeAssumption DEF NodeAssumption, Valves

LEMMA CountsInit == Init => CountsTypeOK
  BY NodeAssumption
  DEF NodeAssumption, Init, NodeInit, PerValve, CountsTypeOK, Machines, Valves

LEMMA BootCounts ==
  ASSUME CountsTypeOK, NEW m \in Machines, Boot(m)
  PROVE  secondValue' \in [Machines -> [Valves -> Nat]]
  BY DEF CountsTypeOK, Boot

LEMMA NodeCounts ==
  ASSUME CountsTypeOK, NodeNext, UNCHANGED serverVars
  PROVE  CountsTypeOK'
<1> USE DEF CountsTypeOK, serverVars, pollVars, thingVars
<1>1. secondValue' \in [Machines -> [Valves -> Nat]]
      /\ opened' \in [Machines -> [Valves -> Nat]]
  <2>1. ASSUME NEW m \in Machines, PowerCycle(m) PROVE <1>1!:
    BY <2>1, BootCounts DEF PowerCycle
  <2>2. ASSUME NEW m \in Machines, NEW v \in Valves, ValveHandler(m, v) PROVE <1>1!:
    <3>1. opened' \in [Machines -> [Valves -> Nat]]
      BY <2>2 DEF ValveHandler
    <3>2. CASE Boot(m)
      BY <3>1, <3>2, BootCounts
    <3>3. CASE secondValue' = [secondValue EXCEPT ![m][v] = @ + 1]
      BY <3>1, <3>3
    <3> QED  BY <2>2, <3>2, <3>3 DEF ValveHandler
  <2>3. ASSUME NEW m \in Machines, NEW v \in Valves, NEW payload \in Payloads,
               PutValue(m, v, payload)
        PROVE <1>1!:
    <3>1. payload \in Nat
      BY NodeAssumption DEF NodeAssumption
    <3> QED  BY <2>3, <3>1 DEF PutValue
  <2>4. ASSUME NEW u \in Uploads, UploadAgain(u) \/ \E lost \in BOOLEAN : Sha256Handler(u, lost)
        PROVE <1>1!:
    BY <2>4 DEF UploadAgain, Sha256Handler
  <2> QED  BY <2>1, <2>2, <2>3, <2>4 DEF NodeNext
<1> QED  BY <1>1

LEMMA PollCounts ==
  ASSUME NEW m \in 0 .. NumMachines, Poll(m)
  PROVE  /\ machineCount' \in 0 .. NumMachines
         /\ step' \in 0 .. NumValves + 1
         /\ connectionEstablished' \in BOOLEAN
         /\ valveResult' \in [Valves -> Int]
         /\ \A v \in Valves : v < step' => valveResult'[v] \in Nat
  BY NodeAssumption DEF NodeAssumption, Poll, Valves

LEMMA GetCounts ==
  ASSUME CountsTypeOK, NEW answered \in BOOLEAN, Get(answered)
  PROVE  CountsTypeOK'
<1> USE DEF CountsTypeOK, Get, nodeVars, thingVars
<1>1. machineCount \in Machines
  BY DEF Machines
<1>2. CASE ~answered
  BY <1>2
<1>3. CASE answered /\ step = 0
  BY <1>3, NodeAssumption DEF NodeAssumption, Valves
<1>4. CASE answered /\ step # 0
  <2>1. step \in Valves
    BY <1>4 DEF Valves
  <2>2. secondValue[machineCount][step] \in Nat
    BY <1>1, <2>1
  <2>3. /\ step' = step + 1
        /\ valveResult' = [valveResult EXCEPT ![step] = secondValue[machineCount][step]]
    BY <1>4
  <2>4. valveResult' \in [Valves -> Int]
    BY <2>1, <2>2, <2>3
  <2>5. ASSUME NEW v \in Valves, v < step' PROVE valveResult'[v] \in Nat
    BY <2>1, <2>2, <2>3, <2>5 DEF Valves
  <2>6. step' \in 0 .. NumValves + 1
    BY <2>1, <2>3, NodeAssumption DEF NodeAssumption, Valves
  <2> QED  BY <1>4, <2>4, <2>5, <2>6
<1> QED  BY <1>2, <1>3, <1>4

(* What a finished poll of a machine stores are counts.                    *)
LEMMA StoredCounts ==
  ASSUME CountsTypeOK, Update
  PROVE  /\ machineCount \in Machines
         /\ NewCounts(machineCount) \in [Valves -> Nat]
         /\ NewRefCount(machineCount) \in [Valves -> Nat]
<1>1. machineCount \in Machines
  BY DEF CountsTypeOK, Update, Machines
<1>2. NewCounts(machineCount) \in [Valves -> Nat]
  <2>1. CASE connectionEstablished
    <3>1. \A v \in Valves : v < step
      BY <2>1, NodeAssumption DEF NodeAssumption, CountsTypeOK, Update, Valves
    <3> QED  BY <2>1, <3>1 DEF CountsTypeOK, NewCounts
  <2>2. CASE ~connectionEstablished
    BY <1>1, <2>2 DEF CountsTypeOK, NewCounts
  <2> QED  BY <2>1, <2>2
<1>3. NewRefCount(machineCount) \in [Valves -> Nat]
  <2>1. \A v \in Valves : refCount[machineCount][v] \in Nat /\ valveCounts[machineCount][v] \in Nat
    BY <1>1 DEF CountsTypeOK
  <2> QED  BY <2>1 DEF NewRefCount
<1> QED  BY <1>1, <1>2, <1>3

LEMMA UpdateCounts ==
  ASSUME CountsTypeOK, Update
  PROVE  CountsTypeOK'
<1>1. /\ valveCounts' \in [Machines -> [Valves -> Nat]]
      /\ refCount' \in [Machines -> [Valves -> Nat]]
  BY StoredCounts DEF CountsTypeOK, Update
<1>2. \E m \in 0 .. NumMachines : Poll(m)
  BY NodeAssumption DEF NodeAssumption, CountsTypeOK, Update
<1>3. UNCHANGED <<secondValue, opened>>
  BY DEF Update, nodeVars
<1> QED  BY <1>1, <1>2, <1>3, PollCounts DEF CountsTypeOK

LEMMA CountsStep == CountsTypeOK /\ [Next]_vars => CountsTypeOK'
<1> SUFFICES ASSUME CountsTypeOK, [Next]_vars PROVE CountsTypeOK'
  OBVIOUS
<1>1. CASE NodeNext /\ UNCHANGED <<serverVars, polls>>
  BY <1>1, NodeCounts
<1>2. CASE Timer
  <2>1. Poll(1) /\ 1 \in 0 .. NumMachines
    BY <1>2, NodeAssumption DEF NodeAssumption, Timer
  <2> QED  BY <1>2, <2>1, PollCounts DEF CountsTypeOK, Timer, nodeVars, thingVars
<1>3. CASE Update
  BY <1>3, UpdateCounts
<1>4. ASSUME NEW answered \in BOOLEAN, Get(answered) PROVE CountsTypeOK'
  BY <1>4, GetCounts
<1>5. ASSUME NEW m \in Machines, Expire(m) PROVE CountsTypeOK'
  BY <1>5 DEF CountsTypeOK, Expire, nodeVars, pollVars
<1>6. CASE UNCHANGED vars
  BY <1>6 DEF CountsTypeOK, vars, nodeVars, serverVars, pollVars, thingVars
<1> QED  BY <1>1, <1>2, <1>3, <1>4, <1>5, <1>6 DEF Next

LEMMA CountsInvariant == Spec => []CountsTypeOK
<1> QED  BY CountsInit, CountsStep, PTL DEF Spec

(* What Update does to valve 1.                                            *)
LEMMA UpdateOfValve1 ==
  ASSUME CountsTypeOK, Update
  PROVE  LET m == machineCount IN
         /\ \A k \in Machines \ {m} : /\ valveCounts'[k][1] = valveCounts[k][1]
                                      /\ refCount'[k][1] = refCount[k][1]
         /\ \/ /\ valveCounts'[m][1] = valveCounts[m][1]
               /\ refCount'[m][1] = refCount[m][1]
            \/ /\ step > 1 /\ valveResult[1] \in Nat
               /\ valveCounts'[m][1] = valveResult[1]
               /\ \/ /\ valveResult[1] >= valveCounts[m][1]
                     /\ refCount'[m][1] = refCount[m][1]
                  \/ /\ valveResult[1] < valveCounts[m][1]
                     /\ refCount'[m][1] = refCount[m][1] + valveCounts[m][1]
<1> DEFINE m == machineCount
<1>1. m \in Machines /\ 1 \in Valves
  BY StoredCounts, FirstValve
<1>2. /\ valveCounts' = [valveCounts EXCEPT ![m] = NewCounts(m)]
      /\ refCount' = [refCount EXCEPT ![m] = NewRefCount(m)]
  BY DEF Update
<1>3. /\ valveCounts'[m][1] = NewCounts(m)[1]
      /\ refCount'[m][1] = NewRefCount(m)[1]
  BY <1>1, <1>2 DEF CountsTypeOK
<1>4. \A k \in Machines \ {m} : valveCounts'[k] = valveCounts[k] /\ refCount'[k] = refCount[k]
  BY <1>1, <1>2 DEF CountsTypeOK
<1>5. valveCounts[m][1] \in Nat /\ refCount[m][1] \in Nat
  BY <1>1 DEF CountsTypeOK
<1>6. CASE ~connectionEstablished
  BY <1>1, <1>3, <1>4, <1>6 DEF NewCounts, NewRefCount
<1>7. CASE connectionEstablished
  <2>1. step > 1
    BY <1>7, NodeAssumption DEF NodeAssumption, CountsTypeOK, Update
  <2>2. valveResult[1] \in Nat
    BY <1>1, <2>1 DEF CountsTypeOK
  <2>3. NewCounts(m)[1] = valveResult[1]
    BY <1>7 DEF NewCounts
  <2>4. NewRefCount(m)[1] = IF valveResult[1] < valveCounts[m][1]
                            THEN refCount[m][1] + valveCounts[m][1] ELSE refCount[m][1]
    BY <1>1, <1>7 DEF NewRefCount, Compared
  <2> QED  BY <1>3, <1>4, <1>5, <2>1, <2>2, <2>3, <2>4
<1> QED  BY <1>6, <1>7

(* No step lowers the total of valve 1, though a PUT may lower its count.  *)
LEMMA TotalStep ==
  CountsTypeOK /\ [Next]_vars => [\A m \in Machines : Total(m, 1)' >= Total(m, 1)]_vars
<1> SUFFICES ASSUME CountsTypeOK, Next, NEW k \in Machines
             PROVE  Total(k, 1)' >= Total(k, 1)
  OBVIOUS
<1>1. valveCounts[k][1] \in Nat /\ refCount[k][1] \in Nat
  BY FirstValve DEF CountsTypeOK
<1>2. CASE UNCHANGED <<valveCounts, refCount>>
  BY <1>1, <1>2 DEF Total
<1>3. CASE Update
  BY <1>1, <1>3, UpdateOfValve1 DEF Total
<1>4. ASSUME ~Update PROVE UNCHANGED <<valveCounts, refCount>>
  BY <1>4 DEF Next, Timer, Get, Expire, serverVars, thingVars
<1> QED  BY <1>2, <1>3, <1>4

(* The total of valve 1 never goes down.                                   *)
THEOREM TotalGrows == Spec => Valve1TotalGrows
<1> QED  BY CountsInvariant, TotalStep, PTL DEF Spec, Valve1TotalGrows
----------------------------------------------------------------------------
(* NeverOvercounts is not inductive: whether the next reading will be      *)
(* taken for a restart depends on the counter in the node and on the       *)
(* reading that is under way.  Room says it of the counter, Pending of the *)
(* reading, which a restart may have made obsolete.                        *)
Room(m) ==
    /\ Total(m, 1) <= opened[m][1]
    /\ refCount[m][1] + secondValue[m][1] <= opened[m][1]
    /\ secondValue[m][1] < valveCounts[m][1] =>
          Total(m, 1) + secondValue[m][1] <= opened[m][1]

Pending(m) ==
    LET n == valveResult[1] IN
    machineCount = m /\ step > 1 =>
      /\ refCount[m][1] + n <= opened[m][1]
      /\ n < valveCounts[m][1] => /\ Total(m, 1) + n <= opened[m][1]
                                  /\ Total(m, 1) + secondValue[m][1] <= opened[m][1]
      /\ secondValue[m][1] < n => refCount[m][1] + n + secondValue[m][1] <= opened[m][1]
      /\ secondValue[m][1] < n /\ n < valveCounts[m][1] =>
            Total(m, 1) + n + secondValue[m][1] <= opened[m][1]

Accounted == \A m \in Machines : <<m, 1>> \notin written => Room(m) /\ Pending(m)

(* What a step of the nodes does to valve 1 while nobody writes it.        *)
LEMMA NodeOfValve1 ==
  ASSUME CountsTypeOK, NodeNext, NEW k \in Machines, <<k, 1>> \notin written'
  PROVE  /\ <<k, 1>> \notin written
         /\ \/ /\ secondValue'[k][1] = secondValue[k][1]
               /\ opened'[k][1] = opened[k][1]
            \/ /\ secondValue'[k][1] = secondValue[k][1] + 1
               /\ opened'[k][1] = opened[k][1] + 1
            \/ /\ secondValue'[k][1] = 0
               /\ opened'[k][1] \in {opened[k][1], opened[k][1] + 1}
<1> DEFINE Goal == /\ <<k, 1>> \notin written
                   /\ \/ /\ secondValue'[k][1] = secondValue[k][1]
                         /\ opened'[k][1] = opened[k][1]
                      \/ /\ secondValue'[k][1] = secondValue[k][1] + 1
                         /\ opened'[k][1] = opened[k][1] + 1
                      \/ /\ secondValue'[k][1] = 0
                         /\ opened'[k][1] \in {opened[k][1], opened[k][1] + 1}
<1>1. ASSUME NEW m \in Machines, Boot(m)
      PROVE  /\ secondValue'[k][1] \in {secondValue[k][1], 0}
             /\ secondValue'[k][1] = secondValue[k][1] \/ k = m
             /\ written' = written
  BY <1>1, FirstValve DEF Boot, CountsTypeOK
<1>2. ASSUME NEW m \in Machines, PowerCycle(m) PROVE Goal
  BY <1>1, <1>2 DEF PowerCycle
<1>3. ASSUME NEW m \in Machines, NEW v \in Valves, ValveHandler(m, v) PROVE Goal
  <2>1. /\ opened'[k][1] \in {opened[k][1], opened[k][1] + 1}
        /\ m = k /\ v = 1 => opened'[k][1] = opened[k][1] + 1
        /\ m # k \/ v # 1 => opened'[k][1] = opened[k][1]
    BY <1>3, FirstValve DEF ValveHandler, CountsTypeOK
  <2>2. CASE Boot(m)
    <3>1. m # k => opened'[k][1] = opened[k][1]
      BY <2>1
    <3>2. m = k => secondValue'[k][1] = 0
      BY <2>2, FirstValve DEF Boot, CountsTypeOK
    <3> QED  BY <1>1, <2>1, <2>2, <3>1, <3>2
  <2>3. CASE /\ secondValue' = [secondValue EXCEPT ![m][v] = @ + 1]
             /\ UNCHANGED <<shaVars, boots, written>>
    <3>1. /\ m = k /\ v = 1 => secondValue'[k][1] = secondValue[k][1] + 1
          /\ m # k \/ v # 1 => secondValue'[k][1] = secondValue[k][1]
      BY <2>3, FirstValve DEF CountsTypeOK
    <3> QED  BY <2>1, <2>3, <3>1
  <2> QED  BY <1>3, <2>2, <2>3 DEF ValveHandler
<1>4. ASSUME NEW m \in Machines, NEW v \in Valves, NEW payload \in Payloads,
             PutValue(m, v, payload)
      PROVE  Goal
  <2>1. m # k \/ v # 1
    BY <1>4 DEF PutValue
  <2> QED  BY <1>4, <2>1, FirstValve DEF PutValue, CountsTypeOK
<1>5. ASSUME NEW u \in Uploads, UploadAgain(u) \/ \E lost \in BOOLEAN : Sha256Handler(u, lost)
      PROVE  Goal
  BY <1>5 DEF UploadAgain, Sha256Handler
<1> QED  BY <1>2, <1>3, <1>4, <1>5 DEF NodeNext

LEMMA AccountedInit == Init => Accounted
<1> SUFFICES ASSUME Init, NEW m \in Machines PROVE Room(m) /\ Pending(m)
  BY DEF Accounted
<1> QED  BY FirstValve DEF Init, NodeInit, PerValve, Room, Pending, Total, Machines

LEMMA NodeAccounted ==
  ASSUME CountsTypeOK, Accounted, NodeNext, UNCHANGED serverVars
  PROVE  Accounted'
<1> SUFFICES ASSUME NEW k \in Machines, <<k, 1>> \notin written'
             PROVE  Room(k)' /\ Pending(k)'
  BY DEF Accounted
<1>1. Room(k) /\ Pending(k)
  BY NodeOfValve1 DEF Accounted
<1>2. /\ UNCHANGED <<machineCount, step, valveResult>>
      /\ valveCounts'[k][1] = valveCounts[k][1] /\ refCount'[k][1] = refCount[k][1]
  BY DEF serverVars, pollVars, thingVars
<1>3. /\ secondValue[k][1] \in Nat /\ opened[k][1] \in Nat
      /\ valveCounts[k][1] \in Nat /\ refCount[k][1] \in Nat
      /\ valveResult[1] \in Int /\ (step > 1 => valveResult[1] \in Nat)
      /\ step \in Nat
  BY FirstValve, NodeAssumption DEF NodeAssumption, CountsTypeOK
<1>4. Room(k)'
  BY <1>1, <1>2, <1>3, NodeOfValve1 DEF Room, Total
<1>5. Pending(k)'
  BY <1>1, <1>2, <1>3, NodeOfValve1 DEF Room, Pending, Total
<1> QED  BY <1>4, <1>5

LEMMA GetAccounted ==
  ASSUME CountsTypeOK, Accounted, NEW answered \in BOOLEAN, Get(answered)
  PROVE  Accounted'
<1> SUFFICES ASSUME NEW k \in Machines, <<k, 1>> \notin written'
             PROVE  Room(k)' /\ Pending(k)'
  BY DEF Accounted
<1>1. Room(k) /\ Pending(k)
  BY DEF Accounted, Get, nodeVars
<1>2. UNCHANGED <<machineCount, secondValue, opened, valveCounts, refCount>>
  BY DEF Get, nodeVars, thingVars
<1>3. Room(k)'
  BY <1>1, <1>2 DEF Room, Total
<1>4. /\ secondValue[k][1] \in Nat /\ opened[k][1] \in Nat
      /\ valveCounts[k][1] \in Nat /\ refCount[k][1] \in Nat
      /\ step \in Nat /\ machineCount \in Nat
  BY FirstValve, NodeAssumption DEF NodeAssumption, CountsTypeOK
<1>5. CASE ~answered \/ step = 0
  <2>1. Pending(k)'
    BY <1>1, <1>2, <1>4, <1>5 DEF Get, Pending, Total
  <2> QED  BY <1>3, <2>1
<1>6. CASE answered /\ step = 1 /\ machineCount = k
  <2>1. valveResult'[1] = secondValue[k][1]
    BY <1>6, FirstValve DEF Get, CountsTypeOK
  <2> QED  BY <1>1, <1>2, <1>3, <1>4, <2>1 DEF Pending, Room, Total
<1>7. CASE answered /\ step = 1 /\ machineCount # k
  BY <1>2, <1>3, <1>7 DEF Pending
<1>8. CASE answered /\ step > 1
  <2>1. valveResult'[1] = valveResult[1]
    BY <1>8, <1>4, FirstValve DEF Get, CountsTypeOK
  <2> QED  BY <1>1, <1>2, <1>3, <1>4, <1>8, <2>1 DEF Pending, Total
<1> QED  BY <1>3, <1>4, <1>5, <1>6, <1>7, <1>8

LEMMA UpdateAccounted ==
  ASSUME CountsTypeOK, Accounted, Update
  PROVE  Accounted'
<1> SUFFICES ASSUME NEW k \in Machines, <<k, 1>> \notin written'
             PROVE  Room(k)' /\ Pending(k)'
  BY DEF Accounted
<1>1. Room(k) /\ Pending(k)
  BY DEF Accounted, Update, nodeVars
<1>2. UNCHANGED <<secondValue, opened>> /\ step' = 0
  BY DEF Update, Poll, nodeVars
<1>3. Pending(k)'
  BY <1>2 DEF Pending
<1>4. /\ secondValue[k][1] \in Nat /\ opened[k][1] \in Nat
      /\ valveCounts[k][1] \in Nat /\ refCount[k][1] \in Nat
  BY FirstValve DEF CountsTypeOK
<1>5. CASE k # machineCount
  <2>1. Room(k)'
    BY <1>1, <1>2, <1>5, UpdateOfValve1 DEF Room, Total
  <2> QED  BY <1>3, <2>1
<1>6. CASE k = machineCount
  BY <1>1, <1>2, <1>4, <1>6, UpdateOfValve1 DEF Room, Pending, Total
<1> QED  BY <1>3, <1>5, <1>6

LEMMA AccountedStep == CountsTypeOK /\ Accounted /\ [Next]_vars => Accounted'
<1> SUFFICES ASSUME CountsTypeOK, Accounted, [Next]_vars PROVE Accounted'
  OBVIOUS
<1>1. CASE NodeNext /\ UNCHANGED <<serverVars, polls>>
  BY <1>1, NodeAccounted
<1>2. CASE Timer
  BY <1>2 DEF Accounted, Room, Pending, Total, Timer, Poll, nodeVars, thingVars
<1>3. CASE Update
  BY <1>3, UpdateAccounted
<1>4. ASSUME NEW answered \in BOOLEAN, Get(answered) PROVE Accounted'
  BY <1>4, GetAccounted
<1>5. ASSUME NEW m \in Machines, Expire(m) PROVE Accounted'
  BY <1>5 DEF Accounted, Room, Pending, Total, Expire, nodeVars, pollVars
<1>6. CASE UNCHANGED vars
  BY <1>6 DEF Accounted, Room, Pending, Total, vars, nodeVars, serverVars, pollVars, thingVars
<1> QED  BY <1>1, <1>2, <1>3, <1>4, <1>5, <1>6 DEF Next

(* The total of valve 1 never exceeds what was opened, unless its count is *)
(* written.                                                                *)
THEOREM NeverTooMuch == Spec => []NeverOvercounts
<1>1. Accounted => NeverOvercounts
  BY DEF Accounted, Room, NeverOvercounts
<1> QED  BY <1>1, AccountedInit, AccountedStep, CountsInvariant, PTL DEF Spec

-----------------------------------------------------------------------------
(* The figure of the last day: until a machine restarts or a valve is      *)
(* written to, the counts only grow from the stream's entries by way of    *)
(* the last count and the reading under way to the counter in the node.    *)
DayTypeOK ==
    /\ boots \in [Machines -> Nat]
    /\ stream \in [Machines -> Seq([Valves -> Nat])]
    /\ last24h \in [Machines -> [Valves -> Int]]

Undisturbed(m, v) == boots[m] = 0 /\ <<m, v>> \notin written

Ascending(m, v) ==
    /\ \A i \in 1 .. Len(stream[m]) : stream[m][i][v] <= valveCounts[m][v]
    /\ valveCounts[m][v] <= secondValue[m][v]
    /\ machineCount = m /\ v < step =>
         valveCounts[m][v] <= valveResult[v] /\ valveResult[v] <= secondValue[m][v]
    /\ last24h[m][v] >= 0

DayInv ==
    /\ DayTypeOK
    /\ \A m \in Machines, v \in Valves : Undisturbed(m, v) => Ascending(m, v)

LEMMA DayInit == Init => DayInv
<1> SUFFICES ASSUME Init PROVE DayInv
  OBVIOUS
<1>1. DayTypeOK
  BY DEF Init, NodeInit, PerValve, DayTypeOK
<1>2. ASSUME NEW m \in Machines, NEW v \in Valves PROVE Ascending(m, v)
  BY DEF Init, NodeInit, PerValve, Ascending, Machines
<1> QED  BY <1>1, <1>2 DEF DayInv

LEMMA NodeDay ==
  ASSUME CountsTypeOK, DayInv, NodeNext, UNCHANGED serverVars
  PROVE  DayInv'
<1> DEFINE Kept(m, v) == /\ Undisturbed(m, v)
                         /\ secondValue'[m][v] >= secondValue[m][v]
           Goal == /\ boots' \in [Machines -> Nat]
                   /\ \A m \in Machines, v \in Valves : Undisturbed(m, v)' => Kept(m, v)
<1>1. ASSUME NEW k \in Machines, Boot(k) PROVE Goal
  <2>1. /\ boots' = [boots EXCEPT ![k] = @ + 1] /\ boots[k] \in Nat
        /\ secondValue' = [secondValue EXCEPT ![k] = [v \in Valves |-> 0]]
        /\ written' = written
    BY <1>1 DEF Boot, DayInv, DayTypeOK
  <2>2. boots' \in [Machines -> Nat] /\ boots'[k] # 0
    BY <2>1 DEF DayInv, DayTypeOK
  <2>3. ASSUME NEW m \in Machines, NEW v \in Valves, Undisturbed(m, v)' PROVE Kept(m, v)
    <3>1. m # k
      BY <2>2, <2>3 DEF Undisturbed
    <3>2. boots'[m] = boots[m] /\ secondValue'[m] = secondValue[m] /\ secondValue[m][v] \in Nat
      BY <2>1, <3>1 DEF DayInv, DayTypeOK, CountsTypeOK
    <3> QED  BY <2>1, <2>3, <3>2 DEF Undisturbed
  <2> QED  BY <2>2, <2>3
<1>2. ASSUME NEW k \in Machines, NEW w \in Valves, NEW n \in Nat, UNCHANGED boots,
             secondValue' = [secondValue EXCEPT ![k][w] = n],
             written \subseteq written', n >= secondValue[k][w] \/ <<k, w>> \in written'
      PROVE  Goal
  <2>1. ASSUME NEW m \in Machines, NEW v \in Valves, Undisturbed(m, v)' PROVE Kept(m, v)
    <3>1. secondValue[m][v] \in Nat
      BY DEF CountsTypeOK
    <3>2. CASE m = k /\ v = w
      BY <1>2, <2>1, <3>1, <3>2 DEF Undisturbed, CountsTypeOK
    <3>3. CASE m # k \/ v # w
      BY <1>2, <2>1, <3>1, <3>3 DEF Undisturbed, CountsTypeOK
    <3> QED  BY <3>2, <3>3
  <2> QED  BY <1>2, <2>1 DEF DayInv, DayTypeOK
<1>3. ASSUME UNCHANGED <<boots, secondValue, written>> PROVE Goal
  BY <1>3 DEF DayInv, DayTypeOK, CountsTypeOK, Undisturbed
<1>4. ASSUME NEW m \in Machines, NEW v \in Valves, ValveHandler(m, v) PROVE Goal
  <2>1. secondValue[m][v] \in Nat
    BY DEF CountsTypeOK
  <2>2. CASE Boot(m)
    BY <1>1, <2>2
  <2>3. CASE secondValue' = [secondValue EXCEPT ![m][v] = @ + 1] /\ UNCHANGED <<boots, written>>
    <3> DEFINE n == secondValue[m][v] + 1
    <3>1. secondValue' = [secondValue EXCEPT ![m][v] = n]
      BY <2>3 DEF CountsTypeOK
    <3>2. n \in Nat /\ n >= secondValue[m][v]
      BY <2>1
    <3> HIDE DEF n, Goal
    <3> QED  BY <1>2, <2>3, <3>1, <3>2
  <2> QED  BY <1>4, <2>2, <2>3 DEF ValveHandler
<1>5. ASSUME NEW m \in Machines, NEW v \in Valves, NEW payload \in Payloads,
             PutValue(m, v, payload)
      PROVE  Goal
  <2>1. payload \in Nat
    BY NodeAssumption DEF NodeAssumption
  <2>2. /\ UNCHANGED boots /\ secondValue' = [secondValue EXCEPT ![m][v] = payload]
        /\ written \subseteq written' /\ <<m, v>> \in written'
    BY <1>5 DEF PutValue
  <2> HIDE DEF Goal
  <2> QED  BY <1>2, <2>1, <2>2
<1>6. Goal
  <2> HIDE DEF Goal
  <2>1. ASSUME NEW u \in Uploads, UploadAgain(u) \/ \E lost \in BOOLEAN : Sha256Handler(u, lost)
        PROVE  UNCHANGED <<boots, secondValue, written>>
    BY <2>1 DEF UploadAgain, Sha256Handler
  <2> QED  BY <1>1, <1>3, <1>4, <1>5, <2>1 DEF NodeNext, PowerCycle
<1>7. UNCHANGED <<stream, last24h, valveCounts, machineCount, step, valveResult>>
  BY DEF serverVars, pollVars, thingVars
<1>8. ASSUME NEW m \in Machines, NEW v \in Valves, Undisturbed(m, v)' PROVE Ascending(m, v)'
  <2>1. Ascending(m, v) /\ secondValue'[m][v] >= secondValue[m][v]
    BY <1>6, <1>8 DEF DayInv
  <2>2. /\ secondValue[m][v] \in Nat /\ valveCounts[m][v] \in Nat /\ valveResult[v] \in Int
        /\ secondValue'[m][v] \in Nat
    BY NodeCounts DEF CountsTypeOK
  <2> QED  BY <1>7, <2>1, <2>2 DEF Ascending
<1> QED  BY <1>6, <1>7, <1>8 DEF DayInv, DayTypeOK

LEMMA GetDay ==
  ASSUME CountsTypeOK, DayInv, NEW answered \in BOOLEAN, Get(answered)
  PROVE  DayInv'
<1>1. /\ UNCHANGED <<stream, last24h, valveCounts, machineCount, secondValue, boots, written>>
      /\ machineCount \in Machines
  BY DEF Get, nodeVars, thingVars, CountsTypeOK, Machines
<1>2. ASSUME NEW m \in Machines, NEW v \in Valves, Undisturbed(m, v)' PROVE Ascending(m, v)'
  <2>1. Ascending(m, v)
    BY <1>1, <1>2 DEF DayInv, Undisturbed
  <2>2. secondValue[m][v] \in Nat /\ valveCounts[m][v] \in Nat /\ valveResult[v] \in Int /\ step \in Nat
    BY NodeAssumption DEF NodeAssumption, CountsTypeOK
  <2>3. CASE v = step /\ answered /\ machineCount = m
    <3>1. v # 0
      BY NodeAssumption DEF NodeAssumption, Valves
    <3>2. valveResult' = [valveResult EXCEPT ![v] = secondValue[m][v]]
      BY <2>3, <3>1 DEF Get
    <3>3. valveResult'[v] = secondValue[m][v]
      BY <3>2 DEF CountsTypeOK
    <3> QED  BY <1>1, <2>1, <2>2, <3>3 DEF Ascending
  <2>4. CASE v # step \/ ~answered
    <3>1. /\ step' = step \/ (step' = step + 1 /\ v # step)
          /\ \/ valveResult' = valveResult
             \/ /\ valveResult' = [valveResult EXCEPT ![step] = secondValue[machineCount][step]]
                /\ v # step
      BY <2>4 DEF Get
    <3>2. valveResult'[v] = valveResult[v]
      BY <3>1 DEF CountsTypeOK
    <3>3. v < step' => v < step
      BY <2>2, <3>1, NodeAssumption DEF NodeAssumption, Valves
    <3> QED  BY <1>1, <2>1, <3>2, <3>3 DEF Ascending
  <2>5. CASE machineCount # m
    BY <1>1, <2>1, <2>5 DEF Ascending
  <2> QED  BY <2>3, <2>4, <2>5
<1> QED  BY <1>1, <1>2 DEF DayInv, DayTypeOK

LEMMA UpdateDay ==
  ASSUME CountsTypeOK, DayInv, Update
  PROVE  DayInv'
<1> DEFINE k == machineCount
           counts == NewCounts(k)
<1>1. k \in Machines /\ counts \in [Valves -> Nat]
  BY StoredCounts
<1>2. /\ valveCounts' = [valveCounts EXCEPT ![k] = counts]
      /\ last24h' = [last24h EXCEPT ![k] = [v \in Valves |-> IF stream[k] = <<>> THEN 0
                                                             ELSE counts[v] - Head(stream[k])[v]]]
      /\ stream' = IF connectionEstablished
                   THEN [stream EXCEPT ![k] = Append(@, counts)] ELSE stream
      /\ UNCHANGED <<secondValue, boots, written>> /\ step' = 0
  BY DEF Update, Poll, nodeVars
<1> HIDE DEF k, counts
<1>3. stream[k] \in Seq([Valves -> Nat])
  BY <1>1 DEF DayInv, DayTypeOK
<1>4. \A v \in Valves : stream[k] # <<>> => Head(stream[k])[v] \in Nat
  BY <1>3
<1>5. DayTypeOK'
  <2>1. stream' \in [Machines -> Seq([Valves -> Nat])]
    BY <1>1, <1>2, <1>3, AppendProperties DEF DayInv, DayTypeOK
  <2>2. [v \in Valves |-> IF stream[k] = <<>> THEN 0 ELSE counts[v] - Head(stream[k])[v]]
          \in [Valves -> Int]
    BY <1>1, <1>4
  <2>3. last24h' \in [Machines -> [Valves -> Int]]
    BY <1>2, <2>2 DEF DayInv, DayTypeOK
  <2> QED  BY <1>2, <2>1, <2>3 DEF DayInv, DayTypeOK
<1>6. ASSUME NEW m \in Machines, NEW v \in Valves, Undisturbed(m, v)' PROVE Ascending(m, v)'
  <2>1. Ascending(m, v)
    BY <1>2, <1>6 DEF DayInv, Undisturbed
  <2>2. ~(v < step')
    BY <1>2 DEF Valves
  <2>3. CASE m # k
    BY <1>1, <1>2, <2>1, <2>2, <2>3 DEF Ascending, DayInv, DayTypeOK, CountsTypeOK
  <2>4. CASE m = k
    <3>1. valveCounts[k][v] \in Nat /\ secondValue[k][v] \in Nat /\ counts[v] \in Nat
      BY <1>1 DEF CountsTypeOK
    <3>2. valveCounts[k][v] <= counts[v] /\ counts[v] <= secondValue[k][v]
      <4>1. CASE connectionEstablished
        <5>1. v < step
          BY <4>1, NodeAssumption DEF NodeAssumption, CountsTypeOK, Update, Valves
        <5>2. counts[v] = valveResult[v]
          BY <4>1 DEF counts, NewCounts
        <5> QED  BY <2>1, <2>4, <5>1, <5>2 DEF Ascending, k
      <4>2. CASE ~connectionEstablished
        BY <2>1, <2>4, <3>1, <4>2 DEF Ascending, counts, NewCounts
      <4> QED  BY <4>1, <4>2
    <3>3. valveCounts'[k][v] = counts[v]
      BY <1>1, <1>2 DEF CountsTypeOK
    <3>4. ASSUME NEW i \in 1 .. Len(stream[k]) PROVE stream[k][i][v] <= counts[v]
      <4>1. stream[k][i][v] \in Nat
        BY <1>3
      <4> QED  BY <2>1, <2>4, <3>1, <3>2, <4>1 DEF Ascending
    <3>5. ASSUME NEW i \in 1 .. Len(stream'[k]) PROVE stream'[k][i][v] <= counts[v]
      <4>1. CASE connectionEstablished
        <5>1. stream'[k] = Append(stream[k], counts)
          BY <1>1, <1>2, <4>1 DEF DayInv, DayTypeOK
        <5>2. i \in 1 .. Len(stream[k]) \/ i = Len(stream[k]) + 1
          BY <1>1, <1>3, <5>1, AppendProperties
        <5>3. CASE i = Len(stream[k]) + 1
          <6>1. stream'[k][i] = counts
            BY <1>1, <1>3, <5>1, <5>3, AppendProperties
          <6> QED  BY <3>1, <6>1
        <5>4. CASE i \in 1 .. Len(stream[k])
          <6>1. stream'[k][i] = stream[k][i]
            BY <1>1, <1>3, <5>1, <5>4, AppendProperties
          <6> QED  BY <3>4, <5>4, <6>1
        <5> QED  BY <5>2, <5>3, <5>4
      <4>2. CASE ~connectionEstablished
        BY <1>2, <3>4, <4>2
      <4> QED  BY <4>1, <4>2
    <3>6. last24h'[k][v] >= 0
      <4>1. last24h'[k][v] = IF stream[k] = <<>> THEN 0 ELSE counts[v] - Head(stream[k])[v]
        BY <1>1, <1>2 DEF DayInv, DayTypeOK
      <4>2. CASE stream[k] # <<>>
        <5>1. 1 \in 1 .. Len(stream[k]) /\ Head(stream[k]) = stream[k][1]
          BY <1>3, <4>2
        <5> QED  BY <1>4, <3>1, <3>4, <4>1, <4>2, <5>1
      <4> QED  BY <4>1, <4>2
    <3> QED  BY <1>2, <2>2, <2>4, <3>2, <3>3, <3>5, <3>6 DEF Ascending
  <2> QED  BY <2>3, <2>4
<1> QED  BY <1>5, <1>6 DEF DayInv

LEMMA ExpireDay ==
  ASSUME CountsTypeOK, DayInv, NEW k \in Machines, Expire(k)
  PROVE  DayInv'
<1>1. /\ stream' = [stream EXCEPT ![k] = Tail(@)] /\ stream[k] # <<>>
      /\ UNCHANGED <<secondValue, boots, written, valveCounts, last24h, machineCount, step, valveResult>>
  BY DEF Expire, nodeVars, pollVars
<1>2. /\ stream[k] \in Seq([Valves -> Nat]) /\ stream'[k] = Tail(stream[k])
      /\ \A m \in Machines \ {k} : stream'[m] = stream[m]
  BY <1>1 DEF DayInv, DayTypeOK
<1>3. /\ Tail(stream[k]) \in Seq([Valves -> Nat]) /\ Len(Tail(stream[k])) = Len(stream[k]) - 1
      /\ \A i \in 1 .. Len(Tail(stream[k])) : Tail(stream[k])[i] = stream[k][i + 1]
  BY <1>1, <1>2
<1>4. DayTypeOK'
  BY <1>1, <1>3 DEF DayInv, DayTypeOK
<1>5. ASSUME NEW m \in Machines, NEW v \in Valves, Undisturbed(m, v)' PROVE Ascending(m, v)'
  <2>1. Ascending(m, v)
    BY <1>1, <1>5 DEF DayInv, Undisturbed
  <2>2. ASSUME NEW i \in 1 .. Len(stream'[m]) PROVE stream'[m][i][v] <= valveCounts[m][v]
    <3>1. CASE m = k
      <4>1. Len(stream[k]) \in Nat /\ i \in 1 .. Len(stream[k]) - 1
        <5>1. Len(stream'[m]) = Len(stream[k]) - 1
          BY <1>2, <1>3, <3>1, Zenon
        <5>2. Len(stream[k]) \in Nat
          BY <1>2, LenProperties
        <5> QED  BY <5>1, <5>2
      <4>2. i + 1 \in 1 .. Len(stream[k])
        BY <4>1
      <4>3. stream'[k][i] = stream[k][i + 1]
        BY <1>2, <1>3, <3>1
      <4> QED  BY <2>1, <3>1, <4>2, <4>3 DEF Ascending
    <3>2. CASE m # k
      BY <1>2, <2>1, <3>2 DEF Ascending
    <3> QED  BY <3>1, <3>2
  <2> QED  BY <1>1, <2>1, <2>2 DEF Ascending
<1> QED  BY <1>4, <1>5 DEF DayInv

LEMMA DayStep == CountsTypeOK /\ DayInv /\ [Next]_vars => DayInv'
<1> SUFFICES ASSUME CountsTypeOK, DayInv, [Next]_vars PROVE DayInv'
  OBVIOUS
<1>1. CASE NodeNext /\ UNCHANGED <<serverVars, polls>>
  BY <1>1, NodeDay
<1>2. CASE Timer
  <2>1. /\ UNCHANGED <<secondValue, boots, written, valveCounts, stream, last24h>>
        /\ \A v \in Valves : ~(v < step')
    BY <1>2, NodeAssumption DEF NodeAssumption, Timer, Poll, nodeVars, thingVars, Valves
  <2> QED  BY <2>1 DEF DayInv, DayTypeOK, Undisturbed, Ascending
<1>3. CASE Update
  BY <1>3, UpdateDay
<1>4. ASSUME NEW answered \in BOOLEAN, Get(answered) PROVE DayInv'
  BY <1>4, GetDay
<1>5. ASSUME NEW m \in Machines, Expire(m) PROVE DayInv'
  BY <1>5, ExpireDay
<1>6. CASE UNCHANGED vars
  BY <1>6 DEF DayInv, DayTypeOK, Undisturbed, Ascending, vars, nodeVars, serverVars, pollVars, thingVars
<1> QED  BY <1>1, <1>2, <1>3, <1>4, <1>5, <1>6 DEF Next

(* CoapGetAllMachineData: however polls fail, the figure of the last day   *)
(* is negative only after a restart of the node or a PUT.                  *)
THEOREM DayFigure == Spec => []DayNegativeAfterRestart
<1>1. CountsTypeOK /\ DayInv => DayNegativeAfterRestart
  <2> SUFFICES ASSUME CountsTypeOK, DayInv, NEW m \in Machines, NEW v \in Valves,
                      last24h[m][v] < 0, ~(boots[m] > 0), <<m, v>> \notin written
               PROVE  FALSE
    BY DEF DayNegativeAfterRestart
  <2>1. Undisturbed(m, v) /\ last24h[m][v] \in Int
    BY DEF Undisturbed, DayInv, DayTypeOK
  <2> QED  BY <2>1 DEF DayInv, Ascending
<1> QED  BY <1>1, DayInit, DayStep, CountsInvariant, PTL DEF Spec

-----------------------------------------------------------------------------
(* The digest: the first n blocks of an upload, and what the context holds *)
(* of an upload that is under way.                                         *)
Prefix(u, n) == [k \in 1 .. n |-> <<u, k - 1>>]

DigestInv ==
    /\ sha256 \in Seq(Uploads \X Nat)
    /\ nextBlock \in [Uploads -> Nat] /\ \A u \in Uploads : nextBlock[u] <= LastBlock[u] + 1
    /\ digest \in [Uploads -> Seq(Uploads \X Nat)]
    /\ disturbed \subseteq Uploads
    /\ \A u \in UnderWay : u \notin disturbed <=> sha256 = Prefix(u, nextBlock[u])
    /\ \A u \in Uploads : digest[u] # <<>> =>
         /\ nextBlock[u] = LastBlock[u] + 1
         /\ u \notin disturbed <=> digest[u] = Prefix(u, LastBlock[u] + 1)

LEMMA LastBlocks == \A u \in Uploads : LastBlock[u] \in Nat
BY NodeAssumption DEF NodeAssumption

LEMMA PrefixSeq ==
    ASSUME NEW u \in Uploads, NEW n \in Nat
    PROVE  /\ Prefix(u, n) \in Seq(Uploads \X Nat) /\ Len(Prefix(u, n)) = n
           /\ \A k \in 1 .. n : Prefix(u, n)[k] = <<u, k - 1>>
<1>1. \A k \in 1 .. n : <<u, k - 1>> \in Uploads \X Nat
  OBVIOUS
<1> QED
  BY <1>1 DEF Prefix

(* Two sequences that end in different ways differ.                        *)
LEMMA LastDiffers ==
    ASSUME NEW s \in Seq(Uploads \X Nat), NEW v \in Uploads, NEW u \in Uploads, NEW n \in Nat, NEW k \in Nat,
           n > 0, v # u \/ k # n - 1
    PROVE  Append(s, <<v, k>>) # Prefix(u, n)
<1>1. /\ Append(s, <<v, k>>)[Len(s) + 1] = <<v, k>>
      /\ Len(Append(s, <<v, k>>)) = Len(s) + 1
  BY AppendProperties
<1>2. Len(Prefix(u, n)) = n /\ Prefix(u, n)[n] = <<u, n - 1>>
  <2>1. n \in 1 .. n
    OBVIOUS
  <2>2. Len(Prefix(u, n)) = n /\ \A j \in 1 .. n : Prefix(u, n)[j] = <<u, j - 1>>
    BY PrefixSeq, Zenon
  <2> QED
    BY <2>1, <2>2, Zenon
<1>3. <<v, k>> # <<u, n - 1>>
  OBVIOUS
<1> SUFFICES ASSUME Append(s, <<v, k>>) = Prefix(u, n) PROVE FALSE
  OBVIOUS
<1>4. Len(s) + 1 = n
  BY <1>1, <1>2
<1> QED
  BY <1>1, <1>2, <1>3, <1>4, Zenon

(* One more block makes a longer prefix exactly if there was one before.   *)
LEMMA PrefixGrows ==
    ASSUME NEW s \in Seq(Uploads \X Nat), NEW u \in Uploads, NEW n \in Nat
    PROVE  s = Prefix(u, n) <=> Append(s, <<u, n>>) = Prefix(u, n + 1)
<1> DEFINE t == Append(s, <<u, n>>)
<1>1. /\ t \in Seq(Uploads \X Nat) /\ Len(t) = Len(s) + 1 /\ t[Len(s) + 1] = <<u, n>>
      /\ \A k \in 1 .. Len(s) : t[k] = s[k]
  BY AppendProperties
<1>2. /\ Prefix(u, n) \in Seq(Uploads \X Nat) /\ Len(Prefix(u, n)) = n
      /\ \A k \in 1 .. n : Prefix(u, n)[k] = <<u, k - 1>>
  BY PrefixSeq
<1>3. /\ Prefix(u, n + 1) \in Seq(Uploads \X Nat) /\ Len(Prefix(u, n + 1)) = n + 1
      /\ \A k \in 1 .. n + 1 : Prefix(u, n + 1)[k] = <<u, k - 1>>
  <2>1. n + 1 \in Nat
    OBVIOUS
  <2> QED
    BY <2>1, PrefixSeq, Zenon
<1> HIDE DEF t
<1>4. ASSUME s = Prefix(u, n) PROVE t = Prefix(u, n + 1)
  <2>1. Len(t) = n + 1
    BY <1>1, <1>2, <1>4
  <2>2. ASSUME NEW k \in 1 .. n + 1 PROVE t[k] = Prefix(u, n + 1)[k]
    <3>1. Prefix(u, n + 1)[k] = <<u, k - 1>>
      BY <1>3, Zenon
    <3>2. CASE k = n + 1
      <4>1. Len(s) + 1 = k /\ k - 1 = n
        BY <1>2, <1>4, <3>2
      <4> QED  BY <1>1, <3>1, <4>1, Zenon
    <3>3. CASE k \in 1 .. n
      <4>1. t[k] = s[k]
        BY <1>1, <1>2, <1>4, <3>3, Zenon
      <4> QED  BY <1>2, <1>4, <3>1, <3>3, <4>1, Zenon
    <3> QED  BY <3>2, <3>3
  <2> QED
    BY <1>1, <1>3, <2>1, <2>2, SeqEqual
<1>5. ASSUME t = Prefix(u, n + 1) PROVE s = Prefix(u, n)
  <2>1. Len(s) = n
    BY <1>1, <1>3, <1>5
  <2>2. ASSUME NEW k \in 1 .. n PROVE s[k] = Prefix(u, n)[k]
    <3>1. k \in 1 .. n + 1
      OBVIOUS
    <3>2. t[k] = s[k]
      BY <1>1, <2>1, Zenon
    <3> QED  BY <1>2, <1>3, <1>5, <3>1, <3>2, Zenon
  <2> QED
    BY <1>2, <2>1, <2>2, SeqEqual
<1> QED
  BY <1>4, <1>5 DEF t

LEMMA DigestInit == Init => DigestInv
BY LastBlocks DEF Init, NodeInit, DigestInv, UnderWay

(* A restart clears the context: it is no prefix of an upload under way.   *)
LEMMA BootDigest ==
    ASSUME DigestInv, NEW m \in Machines, Boot(m)
    PROVE  DigestInv'
<1>1. UNCHANGED <<nextBlock, digest>> /\ UnderWay' = UnderWay
  BY DEF Boot, UnderWay
<1>2. CASE m = ShaNode
  <2>1. sha256' = <<>> /\ disturbed' = disturbed \cup UnderWay
    BY <1>2 DEF Boot
  <2>2. ASSUME NEW u \in UnderWay PROVE <<>> # Prefix(u, nextBlock[u])
    BY PrefixSeq DEF UnderWay, DigestInv
  <2>3. ASSUME NEW u \in Uploads, digest[u] # <<>>
        PROVE  u \notin UnderWay
    BY <2>3, LastBlocks DEF UnderWay, DigestInv
  <2> QED
    BY <1>1, <2>1, <2>2, <2>3 DEF DigestInv, UnderWay
<1>3. CASE m # ShaNode
  BY <1>1, <1>3 DEF Boot, DigestInv
<1> QED
  BY <1>2, <1>3

LEMMA AgainDigest ==
    ASSUME DigestInv, NEW u \in Uploads, UploadAgain(u)
    PROVE  DigestInv'
<1>1. /\ nextBlock' = [nextBlock EXCEPT ![u] = 0] /\ digest' = [digest EXCEPT ![u] = <<>>]
      /\ UNCHANGED <<sha256, disturbed>>
  BY DEF UploadAgain
<1>2. /\ nextBlock' \in [Uploads -> Nat] /\ digest' \in [Uploads -> Seq(Uploads \X Nat)]
      /\ nextBlock'[u] = 0 /\ digest'[u] = <<>>
      /\ \A v \in Uploads \ {u} : nextBlock'[v] = nextBlock[v] /\ digest'[v] = digest[v]
  BY <1>1 DEF DigestInv
<1>3. ASSUME NEW v \in Uploads PROVE nextBlock'[v] <= LastBlock[v] + 1
  <2>1. LastBlock[v] \in Nat /\ nextBlock[v] <= LastBlock[v] + 1
    BY LastBlocks DEF DigestInv
  <2>2. CASE v = u
    BY <1>2, <2>1, <2>2
  <2>3. CASE v # u
    BY <1>2, <2>1, <2>3
  <2> QED  BY <2>2, <2>3
<1>4. ASSUME NEW v \in UnderWay' PROVE v \in UnderWay /\ nextBlock'[v] = nextBlock[v]
  BY <1>2 DEF UnderWay
<1>5. ASSUME NEW v \in Uploads, digest'[v] # <<>>
      PROVE  digest[v] # <<>> /\ nextBlock'[v] = nextBlock[v] /\ digest'[v] = digest[v]
  BY <1>2, <1>5
<1> QED
  BY <1>1, <1>2, <1>3, <1>4, <1>5 DEF DigestInv

LEMMA BlockDigest ==
    ASSUME DigestInv, NEW u \in Uploads, NEW lost \in BOOLEAN, Sha256Handler(u, lost)
    PROVE  DigestInv'
<1> DEFINE offset == nextBlock[u]
           more   == offset < LastBlock[u]
           whole  == Digested(u, offset)
           base   == IF offset = 0 THEN <<>> ELSE sha256
<1>1. /\ offset \in Nat /\ LastBlock[u] \in Nat /\ offset <= LastBlock[u]
      /\ sha256' = IF more THEN whole ELSE Append(whole, <<u, offset + 1>>)
      /\ disturbed' = ((IF offset = 0 THEN disturbed \ {u} ELSE disturbed) \cup (UnderWay \ {u}))
                      \cup (IF lost /\ offset > 0 THEN {u} ELSE {})
  BY LastBlocks DEF Sha256Handler, DigestInv
<1>2. base \in Seq(Uploads \X Nat) /\ whole = Append(base, <<u, offset>>)
  <2>1. CASE offset = 0
    <3>1. base = <<>> /\ whole = <<<<u, 0>>>>
      BY <2>1 DEF Digested
    <3>2. Append(<<>>, <<u, 0>>) = <<<<u, 0>>>>
      OBVIOUS
    <3> QED  BY <2>1, <3>1, <3>2
  <2>2. CASE offset # 0
    BY <2>2 DEF Digested, DigestInv
  <2> QED  BY <2>1, <2>2
<1>3. whole \in Seq(Uploads \X Nat) /\ sha256' \in Seq(Uploads \X Nat)
  <2>1. whole \in Seq(Uploads \X Nat)
    BY <1>1, <1>2, AppendProperties
  <2> QED
    BY <1>1, <2>1, AppendProperties
<1>4. \/ lost /\ UNCHANGED <<nextBlock, digest>>
      \/ /\ ~lost /\ nextBlock' = [nextBlock EXCEPT ![u] = offset + 1]
         /\ digest' = IF more THEN digest ELSE [digest EXCEPT ![u] = whole]
  BY DEF Sha256Handler
<1>5. digest[u] = <<>> /\ (offset > 0 => u \in UnderWay)
  BY <1>1 DEF DigestInv, UnderWay
<1>6. u \in disturbed' <=> offset > 0 /\ (lost \/ u \in disturbed)
  BY <1>1
<1>7. \A v \in Uploads \ {u} : v \in disturbed' <=> v \in disturbed \/ v \in UnderWay
  BY <1>1
<1>8. base = Prefix(u, offset) <=> offset = 0 \/ u \notin disturbed
  <2>1. Prefix(u, 0) = <<>>
    BY DEF Prefix
  <2> QED
    BY <1>1, <1>5, <2>1 DEF DigestInv
<1> HIDE DEF whole, base
<1>9. base = Prefix(u, offset) <=> whole = Prefix(u, offset + 1)
  BY <1>1, <1>2, PrefixGrows
<1>10. ASSUME NEW v \in Uploads, NEW n \in Nat, n > 0, v # u \/ n = offset
       PROVE  sha256' # Prefix(v, n)
  <2>1. CASE more
    <3>1. v # u \/ offset # n - 1
      BY <1>1, <1>10
    <3>2. Append(base, <<u, offset>>) # Prefix(v, n)
      BY <1>1, <1>2, <1>10, <3>1, LastDiffers
    <3> QED  BY <1>1, <1>2, <2>1, <3>2
  <2>2. CASE ~more
    <3>1. (v # u \/ offset + 1 # n - 1) /\ offset + 1 \in Nat
      BY <1>1, <1>10
    <3>2. Append(whole, <<u, offset + 1>>) # Prefix(v, n)
      BY <1>3, <1>10, <3>1, LastDiffers
    <3> QED  BY <1>1, <2>2, <3>2
  <2> QED
    BY <2>1, <2>2
<1>11. /\ nextBlock' \in [Uploads -> Nat] /\ \A v \in Uploads : nextBlock'[v] <= LastBlock[v] + 1
       /\ digest' \in [Uploads -> Seq(Uploads \X Nat)] /\ disturbed' \subseteq Uploads
       /\ \A v \in Uploads \ {u} : nextBlock'[v] = nextBlock[v] /\ digest'[v] = digest[v]
       /\ nextBlock'[u] = IF lost THEN offset ELSE offset + 1
       /\ digest'[u] = IF lost \/ more THEN <<>> ELSE whole
  <2>1. disturbed' \subseteq Uploads
    BY <1>1 DEF DigestInv, UnderWay
  <2>2. CASE lost
    BY <1>4, <1>5, <2>1, <2>2 DEF DigestInv
  <2>3. CASE ~lost
    <3>1. /\ nextBlock' = [nextBlock EXCEPT ![u] = offset + 1]
          /\ digest' = IF more THEN digest ELSE [digest EXCEPT ![u] = whole]
      BY <1>4, <2>3
    <3>2. nextBlock' \in [Uploads -> Nat] /\ \A v \in Uploads : nextBlock'[v] <= LastBlock[v] + 1
      BY <1>1, <3>1 DEF DigestInv
    <3>3. digest' \in [Uploads -> Seq(Uploads \X Nat)]
      BY <1>3, <3>1 DEF DigestInv
    <3>4. digest'[u] = IF more THEN <<>> ELSE whole
      BY <1>5, <3>1 DEF DigestInv
    <3> QED
      BY <2>1, <2>3, <3>1, <3>2, <3>3, <3>4 DEF DigestInv
  <2> QED
    BY <2>2, <2>3
<1>12. ASSUME NEW v \in Uploads, nextBlock'[v] > 0, nextBlock'[v] <= LastBlock[v]
       PROVE  v \notin disturbed' <=> sha256' = Prefix(v, nextBlock'[v])
  <2>1. CASE v # u
    <3>1. v \in disturbed'
      BY <1>7, <1>11, <1>12, <2>1 DEF UnderWay
    <3> QED
      BY <1>10, <1>11, <1>12, <2>1, <3>1
  <2>2. CASE v = u /\ lost
    BY <1>6, <1>10, <1>11, <1>12, <2>2
  <2>3. CASE v = u /\ ~lost
    <3>1. more /\ nextBlock'[v] = offset + 1 /\ sha256' = whole
      BY <1>1, <1>11, <1>12, <2>3
    <3> QED
      BY <1>1, <1>6, <1>8, <1>9, <2>3, <3>1
  <2> QED
    BY <2>1, <2>2, <2>3
<1>13. ASSUME NEW v \in Uploads, digest'[v] # <<>>
       PROVE  /\ nextBlock'[v] = LastBlock[v] + 1
              /\ v \notin disturbed' <=> digest'[v] = Prefix(v, LastBlock[v] + 1)
  <2>1. CASE v # u
    <3>1. digest[v] # <<>> /\ nextBlock'[v] = nextBlock[v] /\ digest'[v] = digest[v]
      BY <1>11, <1>13, <2>1
    <3>2. /\ nextBlock[v] = LastBlock[v] + 1
          /\ v \notin disturbed <=> digest[v] = Prefix(v, LastBlock[v] + 1)
      BY <3>1 DEF DigestInv
    <3>3. v \notin UnderWay
      BY <3>2, LastBlocks DEF UnderWay
    <3>4. v \in disturbed' <=> v \in disturbed
      BY <1>7, <2>1, <3>3
    <3> QED
      BY <3>1, <3>2, <3>4
  <2>2. CASE v = u
    <3>1. ~lost /\ ~more /\ digest'[v] = whole /\ offset = LastBlock[u]
      BY <1>1, <1>11, <1>13, <2>2
    <3> QED
      BY <1>1, <1>6, <1>8, <1>9, <1>11, <2>2, <3>1
  <2> QED
    BY <2>1, <2>2
<1> QED
  BY <1>3, <1>11, <1>12, <1>13 DEF DigestInv, UnderWay

LEMMA DigestStep == DigestInv /\ [Next]_vars => DigestInv'
<1> SUFFICES ASSUME DigestInv, [Next]_vars PROVE DigestInv'
  OBVIOUS
<1>1. CASE UNCHANGED shaVars
  BY <1>1 DEF shaVars, DigestInv, UnderWay
<1>2. CASE NodeNext
  <2>1. ASSUME NEW m \in Machines, NEW v \in Valves, ValveHandler(m, v) PROVE DigestInv'
    BY <1>1, <2>1, BootDigest DEF ValveHandler
  <2>2. ASSUME NEW m \in Machines, NEW v \in Valves, NEW payload \in Payloads, PutValue(m, v, payload)
        PROVE  DigestInv'
    BY <1>1, <2>2 DEF PutValue
  <2> QED
    BY <1>2, <2>1, <2>2, BootDigest, AgainDigest, BlockDigest DEF NodeNext, PowerCycle
<1> QED
  BY <1>1, <1>2 DEF Next, vars, nodeVars, Timer, Get, Update, Expire

(* sha256_handler: for any uploads of any length, in any interleaving with *)
(* each other, lost replies and restarts, the digest it returns is that of *)
(* the whole upload exactly if nothing else touched the shared context.    *)
THEOREM DigestsWhole == Spec => []DigestWhole
<1>1. DigestInv => DigestWhole
  BY DEF DigestInv, DigestWhole, Prefix
<1> QED
  BY <1>1, DigestInit, DigestStep, PTL DEF Spec
=============================================================================
