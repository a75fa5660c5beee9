--------------------------- MODULE PingNetworkProofs ---------------------------
(***************************************************************************)
(* The mesh tables and the broadcast relay for every set of devices, every *)
(* sequence of table operations and every choice of who hears what; and    *)
(* the simulations, which are users of both, for any programs whose tables *)
(* lead somewhere (PingPaths).                                             *)
(***************************************************************************)
EXTENDS PingPaths, TLAPS

LEMMA InitTables == MeshInit => TablesTypeOK /\ LastNeighbourIsParent
  BY TablesAssumption
     DEF MeshInit, TablesInit, TablesTypeOK, LastNeighbourIsParent, Indexes, Entries, LastEntry

LEMMA ReplacedType ==
  ASSUME NEW S, NEW table \in [S -> Addresses], NEW old \in Addresses, NEW new \in Addresses
  PROVE  Replaced(table, old, new) \in [S -> Addresses]
  BY DEF Replaced

\* Whatever the walk ends at, the entry it may overwrite is not the last one.
LEMMA TablesStep ==
  ASSUME TablesTypeOK, LastNeighbourIsParent, TablesNext
  PROVE  TablesTypeOK' /\ LastNeighbourIsParent'
<1>0. /\ LastEntry \in Entries
      /\ \A d \in Devices : /\ meshParent[d] \in Addresses
                            /\ nextHop[d] \in [Indexes -> Addresses]
                            /\ neighbour[d] \in [Entries -> Addresses]
  BY DEF TablesTypeOK, LastEntry, Entries
<1>1. ASSUME NEW d \in Devices, NEW a \in Addresses, SetMeshParentAddress(d, a)
      PROVE  TablesTypeOK' /\ LastNeighbourIsParent'
  <2>1. /\ Replaced(nextHop[d], meshParent[d], a) \in [Indexes -> Addresses]
        /\ Replaced(neighbour[d], meshParent[d], a) \in [Entries -> Addresses]
    BY <1>0, ReplacedType
  <2>2. Replaced(neighbour[d], meshParent[d], a)[LastEntry] = a
    BY <1>0 DEF Replaced, LastNeighbourIsParent
  <2>3. TablesTypeOK'
    BY <1>0, <1>1, <2>1 DEF SetMeshParentAddress, TablesTypeOK
  <2>4. LastNeighbourIsParent'
    BY <1>1, <2>2 DEF SetMeshParentAddress, TablesTypeOK, LastNeighbourIsParent
  <2>. QED BY <2>3, <2>4
<1>2. ASSUME NEW d \in Devices, NEW h \in Addresses, NEW i \in Indexes, SetNextHopForIndex(d, h, i)
      PROVE  TablesTypeOK' /\ LastNeighbourIsParent'
  <2>. DEFINE end == WalkEnd(d, h, i)
  <2>0. nextHop' = [nextHop EXCEPT ![d][i] = h] /\ meshParent' = meshParent
    BY <1>2 DEF SetNextHopForIndex
  <2>1. CASE end = LastEntry
    <3>1. neighbour' = neighbour  BY <1>2, <2>1 DEF SetNextHopForIndex
    <3>. QED BY <3>1, <2>0, <1>0 DEF TablesTypeOK, LastNeighbourIsParent
  <2>2. CASE end # LastEntry
    <3>. HIDE DEF end
    <3>1. neighbour' = [neighbour EXCEPT ![d][end] = h]
      BY <1>2, <2>2 DEF SetNextHopForIndex, end
    <3>2. neighbour' \in [Devices -> [Entries -> Addresses]]
      BY <3>1, <1>0 DEF TablesTypeOK
    <3>3. \A e \in Devices : neighbour'[e][LastEntry] = neighbour[e][LastEntry]
      BY <3>1, <2>2, <1>0 DEF TablesTypeOK
    <3>. QED BY <3>2, <3>3, <2>0, <1>0 DEF TablesTypeOK, LastNeighbourIsParent
  <2>. QED BY <2>1, <2>2
<1>3. ASSUME NEW d \in Devices, PurgeNeighbourList(d)
      PROVE  TablesTypeOK' /\ LastNeighbourIsParent'
  BY <1>0, <1>3 DEF PurgeNeighbourList, TablesTypeOK, LastNeighbourIsParent
<1>. QED BY <1>1, <1>2, <1>3 DEF TablesNext

LEMMA MeshTablesStep ==
  ASSUME TablesTypeOK, LastNeighbourIsParent, [MeshNext]_meshVars
  PROVE  TablesTypeOK' /\ LastNeighbourIsParent'
<1>1. CASE TablesNext  BY <1>1, TablesStep
<1>2. CASE UNCHANGED tableVars
  BY <1>2 DEF tableVars, TablesTypeOK, LastNeighbourIsParent
<1>. QED BY <1>1, <1>2 DEF MeshNext, meshVars, tableVars, Broadcast, Transmit

\* SetNextHopForIndex never walks past m_neighbourAddr, after any sequence of
\* SetMeshParentAddress, SetNextHopForIndex and purgeNeighbourList.
THEOREM LastNeighbour == MeshSpec => []LastNeighbourIsParent
<1>1. MeshInit => TablesTypeOK /\ LastNeighbourIsParent  BY InitTables
<1>2. TablesTypeOK /\ LastNeighbourIsParent /\ [MeshNext]_meshVars
        => (TablesTypeOK /\ LastNeighbourIsParent)'
  BY MeshTablesStep
<1>. QED BY <1>1, <1>2, PTL DEF MeshSpec

-----------------------------------------------------------------------------
LEMMA FloodStart == MeshInit => FloodTypeOK /\ FloodInv /\ FloodOnce
<1>. SUFFICES ASSUME FloodInit PROVE FloodTypeOK /\ FloodInv /\ FloodOnce
  BY DEF MeshInit
<1>1. Nowhere \in [Devices -> Nat]  BY DEF Nowhere
<1>2. FloodTypeOK  BY <1>1 DEF FloodInit, FloodTypeOK
<1>3. FloodInv  BY DEF FloodInit, FloodInv
<1>4. FloodOnce  BY AddrAssumption DEF FloodInit, FloodOnce, Nowhere
<1>. QED BY <1>2, <1>3, <1>4

LEMMA BroadcastStep ==
  ASSUME FloodTypeOK, FloodInv, NEW o \in Devices, Broadcast(o)
  PROVE  FloodTypeOK' /\ FloodInv' /\ FloodOnce'
<1>1. /\ sent = Nowhere /\ accepted = Nowhere /\ sent' = sent /\ accepted' = accepted
      /\ toSend' = [d \in Devices |-> IF d = o THEN 1 ELSE 0] /\ origin' = o
  BY DEF Broadcast, FloodInv, FloodTypeOK, Nowhere
<1>2. FloodTypeOK'
  BY <1>1 DEF FloodTypeOK, Broadcast
<1>. QED BY <1>1, <1>2, AddrAssumption DEF FloodInv, FloodOnce, Nowhere

LEMMA TransmitStep ==
  ASSUME FloodTypeOK, FloodInv, FloodOnce,
         NEW t \in Devices, NEW hearers \in SUBSET Devices, Transmit(t, hearers)
  PROVE  FloodTypeOK' /\ FloodInv' /\ FloodOnce'
<1>. DEFINE Now(r) == r \in hearers /\ r # t /\ Accepts(r, t)
            now(r) == IF Now(r) THEN 1 ELSE 0
<1>0. /\ toSend[t] > 0 /\ origin # NoDevice /\ origin \in Devices /\ origin' = origin
      /\ nextHop' = nextHop
  BY DEF Transmit, FloodInv, FloodTypeOK, Nowhere, tableVars
<1>1. /\ sent' = [sent EXCEPT ![t] = @ + 1]
      /\ \A r \in Devices : accepted'[r] = accepted[r] + now(r)
      /\ \A r \in Devices : toSend'[r] = IF r = t THEN toSend[r] - 1 ELSE toSend[r] + now(r)
      /\ \A r \in Devices : sent'[r] = IF r = t THEN sent[r] + 1 ELSE sent[r]
  BY DEF Transmit, FloodTypeOK
<1>2. FloodTypeOK'
  <2>1. sent' \in [Devices -> Nat] /\ accepted' \in [Devices -> Nat]
    BY DEF Transmit, FloodTypeOK
  <2>2. toSend' = [r \in Devices |-> IF r = t THEN toSend[r] - 1 ELSE toSend[r] + now(r)]
    BY DEF Transmit
  <2>3. \A r \in Devices : (IF r = t THEN toSend[r] - 1 ELSE toSend[r] + now(r)) \in Nat
    BY <1>0 DEF FloodTypeOK
  <2>4. toSend' \in [Devices -> Nat]  BY <2>2, <2>3
  <2>5. missed' \in BOOLEAN  BY DEF Transmit, FloodTypeOK
  <2>. QED BY <2>1, <2>4, <2>5, <1>0 DEF FloodTypeOK
<1>3. \A d \in Devices : Now(d) => /\ nextHop[d][Addr[origin]] = Addr[t] /\ d # origin /\ d # t
  BY DEF Accepts
<1>. HIDE DEF Now
<1>4. \A d \in Devices : /\ accepted[d] \in Nat /\ sent[d] \in Nat /\ toSend[d] \in Nat
                         /\ sent[d] + toSend[d] <= 1 /\ accepted[d] <= 1
  BY DEF FloodTypeOK, FloodOnce
<1>5. \A d \in Devices : sent'[d] + toSend'[d] = sent[d] + toSend[d] + now(d)
  BY <1>1, <1>3, <1>4
<1>6. sent'[origin] + toSend'[origin] = 1 /\ accepted'[origin] = 0
  BY <1>0, <1>1, <1>3, <1>4, <1>5 DEF FloodInv
<1>7. ASSUME NEW d \in Devices \ {origin}
      PROVE  /\ accepted'[d] = sent'[d] + toSend'[d]
             /\ accepted'[d] > 0 => \E f \in Devices :
                   nextHop[d][Addr[origin]] = Addr[f] /\ accepted'[d] <= sent'[f]
  <2>1. /\ accepted[d] = sent[d] + toSend[d]
        /\ accepted[d] > 0 => \E f \in Devices :
              nextHop[d][Addr[origin]] = Addr[f] /\ accepted[d] <= sent[f]
    BY <1>0 DEF FloodInv
  <2>2. CASE Now(d)
    <3>1. accepted[d] <= sent[t]
      <4>1. CASE accepted[d] = 0  BY <4>1, <1>4
      <4>2. CASE accepted[d] > 0
        <5>1. PICK f \in Devices : nextHop[d][Addr[origin]] = Addr[f] /\ accepted[d] <= sent[f]
          BY <2>1, <4>2
        <5>2. f = t  BY <5>1, <2>2, <1>3, AddrAssumption
        <5>. QED BY <5>1, <5>2
      <4>. QED BY <4>1, <4>2, <1>4
    <3>2. accepted'[d] <= sent'[t]  BY <3>1, <2>2, <1>1, <1>4
    <3>3. nextHop[d][Addr[origin]] = Addr[t]  BY <2>2, <1>3
    <3>. QED BY <3>2, <3>3, <2>1, <1>1, <1>5, <1>4
  <2>3. CASE ~Now(d)
    <3>1. \A f \in Devices : accepted[d] <= sent[f] => accepted'[d] <= sent'[f]
      BY <2>3, <1>1, <1>4
    <3>2. accepted'[d] = accepted[d]  BY <2>3, <1>1, <1>4
    <3>. QED BY <3>1, <3>2, <2>1, <2>3, <1>1, <1>5, <1>4
  <2>. QED BY <2>2, <2>3
<1>8. FloodInv'
  BY <1>0, <1>6, <1>7 DEF FloodInv
<1>9. \A d \in Devices : sent'[d] <= 1
  BY <1>0, <1>1, <1>4
<1>10. \A d \in Devices \ {origin} : accepted'[d] <= 1
  BY <1>7, <1>9, <1>2 DEF FloodTypeOK
<1>11. FloodOnce'
  BY <1>0, <1>6, <1>7, <1>10, <1>2 DEF FloodOnce, FloodTypeOK
<1>. QED BY <1>2, <1>8, <1>11

LEMMA FloodStep ==
  ASSUME FloodTypeOK, FloodInv, FloodOnce, [MeshNext]_meshVars
  PROVE  FloodTypeOK' /\ FloodInv' /\ FloodOnce'
<1>1. CASE origin = NoDevice /\ UNCHANGED floodVars
  BY <1>1 DEF floodVars, FloodTypeOK, FloodInv, FloodOnce
<1>2. CASE UNCHANGED meshVars
  BY <1>2 DEF meshVars, tableVars, floodVars, FloodTypeOK, FloodInv, FloodOnce
<1>3. ASSUME NEW d \in Devices, Broadcast(d) PROVE FloodTypeOK' /\ FloodInv' /\ FloodOnce'
  BY <1>3, BroadcastStep
<1>4. ASSUME NEW t \in Devices, NEW hearers \in SUBSET Devices, Transmit(t, hearers)
      PROVE  FloodTypeOK' /\ FloodInv' /\ FloodOnce'
  BY <1>4, TransmitStep
<1>. QED BY <1>1, <1>2, <1>3, <1>4 DEF MeshNext

\* For every table content and any pattern of receptions a broadcast is relayed at most
\* once by each device: it dies out although nobody remembers having seen it.
THEOREM RelayedOnce == MeshSpec => []FloodOnce
<1>1. MeshInit => FloodTypeOK /\ FloodInv /\ FloodOnce  BY FloodStart
<1>2. FloodTypeOK /\ FloodInv /\ FloodOnce /\ [MeshNext]_meshVars
        => (FloodTypeOK /\ FloodInv /\ FloodOnce)'
  BY FloodStep
<1>. QED BY <1>1, <1>2, PTL DEF MeshSpec

-----------------------------------------------------------------------------
(* The simulations use the tables and the relay as MeshForwarding says. *)

LEMMA ProgramStart == NetInit => ProgramInv
<1>. SUFFICES ASSUME NetInit PROVE ProgramInv
  OBVIOUS
<1>1. program \in Programs /\ Len(Ops) \in Nat
  BY ProgramsAssumption DEF NetInit, Ops
<1>. QED BY <1>1 DEF NetInit, MeshInit, FloodInit, ProgramInv, IsMesh, Ready

LEMMA ProgramStep == ProgramInv /\ [NetNext]_netVars => ProgramInv'
<1>. SUFFICES ASSUME ProgramInv, [NetNext]_netVars PROVE ProgramInv'
  OBVIOUS
<1>1. Len(Ops) \in Nat
  BY ProgramsAssumption DEF ProgramInv, Ops
<1>2. CASE Install
  <2>1. pc \in Nat /\ pc # Len(Ops) /\ pc <= Len(Ops)
    BY <1>1, <1>2 DEF Install, Ready, ProgramInv
  <2>2. pc' \in 0..Len(Ops)
    BY <1>1, <2>1, <1>2 DEF Install
  <2>. QED BY <1>2, <2>2 DEF Install, ProgramInv, Ready, floodVars, pingVars, Ops, IsMesh
<1>3. ASSUME NEW p \in Pings, StartPing(p[1], p[2]) PROVE ProgramInv'
  BY <1>3 DEF StartPing, ProgramInv, Ready, meshVars, tableVars, floodVars, Ops, IsMesh
<1>4. CASE Forward
  BY <1>4 DEF Forward, ProgramInv, Ready, NoPacket, meshVars, tableVars, floodVars, Ops, IsMesh
<1>5. CASE Reply
  BY <1>5 DEF Reply, ProgramInv, Ready, NoPacket, meshVars, tableVars, floodVars, Ops, IsMesh
<1>6. CASE Answer
  BY <1>6 DEF Answer, ProgramInv, Ready, meshVars, tableVars, floodVars, Ops, IsMesh
<1>7. CASE StartFlood
  BY <1>7 DEF StartFlood, ProgramInv, Ready, pingVars, Ops, IsMesh
<1>8. CASE Relay
  BY <1>8 DEF Relay, Transmit, ProgramInv, Ready, pingVars, Ops, IsMesh
<1>9. CASE UNCHANGED netVars
  BY <1>9 DEF netVars, meshVars, tableVars, floodVars, pingVars, ProgramInv, Ready, Ops, IsMesh
<1>. QED BY <1>2, <1>3, <1>4, <1>5, <1>6, <1>7, <1>8, <1>9 DEF NetNext, Progress

LEMMA MeshOperation ==
  ASSUME ProgramInv, IsMesh, ~Ready
  PROVE  /\ pc + 1 \in DOMAIN Ops /\ pc \in Nat
         /\ Ops[pc + 1].op \in {"parent", "next"}
         /\ Ops[pc + 1].dev \in Devices /\ Ops[pc + 1].hop \in Addresses
         /\ Ops[pc + 1].index \in Indexes
<1>1. program \in Programs \cap MeshNames
  BY DEF ProgramInv, IsMesh
<1>2. DOMAIN Ops = 1..Len(Ops) /\ Len(Ops) \in Nat
  BY <1>1, ProgramsAssumption DEF Ops
<1>3. pc \in Nat /\ pc + 1 \in DOMAIN Ops
  <2>1. PICK n \in Nat : n = Len(Ops)
    BY <1>2
  <2>2. pc \in 0..n /\ pc # n
    BY <2>1 DEF ProgramInv, Ready
  <2>3. pc \in Nat /\ pc + 1 \in 1..n
    BY <2>2
  <2>. QED BY <1>2, <2>1, <2>3
<1>. QED BY <1>1, <1>3, ProgramsAssumption DEF Ops

LEMMA NetStepIsMeshStep ==
  ASSUME ProgramInv, [NetNext]_netVars
  PROVE  [MeshNext]_meshVars
<1>0. Nodes \subseteq Devices
  BY ProgramsAssumption DEF ProgramInv, Nodes
<1>1. CASE Install /\ IsMesh
  <2>1. /\ Ops[pc + 1].dev \in Devices /\ Ops[pc + 1].hop \in Addresses
        /\ Ops[pc + 1].index \in Indexes
    BY <1>1, MeshOperation DEF Install
  <2>2. TablesNext
    BY <1>1, <2>1 DEF Install, TablesNext
  <2>3. origin = NoDevice /\ UNCHANGED floodVars
    BY <1>1 DEF Install, ProgramInv
  <2>. QED BY <2>2, <2>3 DEF MeshNext
<1>2. CASE Install /\ ~IsMesh
  BY <1>2 DEF Install, meshVars
<1>3. CASE StartFlood
  BY <1>3, <1>0 DEF StartFlood, MeshNext
<1>4. CASE Relay
  <2>1. PICK t \in Nodes, hearers \in SUBSET Nodes : Transmit(t, hearers)
    BY <1>4 DEF Relay
  <2>2. t \in Devices /\ hearers \in SUBSET Devices
    BY <2>1, <1>0
  <2>. QED BY <2>1, <2>2 DEF MeshNext
<1>5. CASE UNCHANGED meshVars
  BY <1>5
<1>. QED BY <1>1, <1>2, <1>3, <1>4, <1>5
         DEF NetNext, Progress, netVars, Forward, Reply, Answer, StartPing

\* A simulation fills the tables first and sends afterwards, and does nothing to tables and
\* broadcasts but what MeshForwarding says.
THEOREM SimulationForwards == NetSpec => MeshSpec
<1>1. NetInit => MeshInit  BY DEF NetInit
<1>2. ProgramInv /\ [NetNext]_netVars => [MeshNext]_meshVars  BY NetStepIsMeshStep
<1>. QED BY <1>1, <1>2, ProgramStart, ProgramStep, PTL DEF NetSpec, MeshSpec

\* So the walk stays inside its table and broadcasts die out in every simulation.
THEOREM SimulationSafe == NetSpec => [](LastNeighbourIsParent /\ FloodOnce)
BY SimulationForwards, LastNeighbour, RelayedOnce, PTL

-----------------------------------------------------------------------------
(* What one more operation changes in what PingPaths reads off a program. *)

LEMMA LastParentsNext ==
  ASSUME NEW ops, NEW m \in Nat, NEW n
  PROVE  LastParents(ops, m + 1, n) =
           IF SetsParent(ops, m + 1, n) THEN {m + 1} ELSE LastParents(ops, m, n)
<1>. HIDE DEF SetsParent
<1>1. \A k \in 1..(m + 1) : k # m + 1 => m + 1 \in (k + 1)..(m + 1)
  OBVIOUS
<1>2. \A k \in 1..m : (k + 1)..(m + 1) = ((k + 1)..m) \cup {m + 1}
  OBVIOUS
<1>3. 1..(m + 1) = (1..m) \cup {m + 1} /\ ((m + 1) + 1)..(m + 1) = {} /\ m + 1 \notin 1..m
  OBVIOUS
<1>. QED BY <1>1, <1>2, <1>3 DEF LastParents

LEMMA LastHopsNext ==
  ASSUME NEW ops, NEW m \in Nat, NEW n, NEW i
  PROVE  LastHops(ops, m + 1, n, i) =
           IF SetsHop(ops, m + 1, n, i) THEN {m + 1} ELSE LastHops(ops, m, n, i)
<1>1. \A k \in 1..(m + 1) : k # m + 1 => m + 1 \in (k + 1)..(m + 1)
  OBVIOUS
<1>2. \A k \in 1..m : (k + 1)..(m + 1) = ((k + 1)..m) \cup {m + 1}
  OBVIOUS
<1>3. 1..(m + 1) = (1..m) \cup {m + 1} /\ ((m + 1) + 1)..(m + 1) = {} /\ m + 1 \notin 1..m
  OBVIOUS
<1>. QED BY <1>1, <1>2, <1>3 DEF LastHops

LEMMA ParentAfterNext ==
  ASSUME NEW ops, NEW m \in Nat, NEW n
  PROVE  ParentAfter(ops, m + 1, n) =
           IF SetsParent(ops, m + 1, n) THEN {ops[m + 1].hop} ELSE ParentAfter(ops, m, n)
BY LastParentsNext DEF ParentAfter

LEMMA HopsWrittenNext ==
  ASSUME NEW ops, NEW m \in Nat, NEW n, NEW i
  PROVE  HopsWritten(ops, m + 1, n, i) =
           IF SetsHop(ops, m + 1, n, i) THEN {ops[m + 1].hop} ELSE HopsWritten(ops, m, n, i)
BY LastHopsNext DEF HopsWritten

LEMMA ParentsSetNext ==
  ASSUME NEW ops, NEW m \in Nat, NEW n
  PROVE  /\ ParentsSet(ops, m, n) \subseteq ParentsSet(ops, m + 1, n)
         /\ ~SetsParent(ops, m + 1, n) => ParentsSet(ops, m + 1, n) = ParentsSet(ops, m, n)
<1>1. 1..(m + 1) = (1..m) \cup {m + 1}
  OBVIOUS
<1>. QED BY <1>1 DEF ParentsSet

LEMMA ParentAmongSet ==
  ASSUME NEW ops, NEW m \in Nat, NEW n
  PROVE  ParentAfter(ops, m, n) \subseteq ParentsSet(ops, m, n)
BY DEF ParentAfter, ParentsSet, LastParents

\* Two operations cannot both be the last.
LEMMA OneParent ==
  ASSUME NEW ops, NEW m \in Nat, NEW n
  PROVE  \A a, b \in ParentAfter(ops, m, n) : a = b
<1>1. \A k, j \in LastParents(ops, m, n) : k = j
  <2>. SUFFICES ASSUME NEW k \in LastParents(ops, m, n), NEW j \in LastParents(ops, m, n), k < j
                PROVE  FALSE
    BY DEF LastParents
  <2>1. j \in (k + 1)..m
    BY DEF LastParents
  <2>. QED BY <2>1 DEF LastParents
<1>. QED BY <1>1 DEF ParentAfter

LEMMA OneHop ==
  ASSUME NEW ops, NEW m \in Nat, NEW n, NEW i
  PROVE  \A a, b \in HopsWritten(ops, m, n, i) : a = b
<1>1. \A k, j \in LastHops(ops, m, n, i) : k = j
  <2>. SUFFICES ASSUME NEW k \in LastHops(ops, m, n, i), NEW j \in LastHops(ops, m, n, i), k < j
                PROVE  FALSE
    BY DEF LastHops
  <2>1. j \in (k + 1)..m
    BY DEF LastHops
  <2>. QED BY <2>1 DEF LastHops
<1>. QED BY <1>1 DEF HopsWritten

\* A new parent takes the place of the old one wherever that stood.
LEMMA EntryAfterParent ==
  ASSUME NEW ops, NEW m \in Nat, NEW n, NEW i,
         SetsParent(ops, m + 1, n), ~SetsHop(ops, m + 1, n, i),
         NEW old \in ParentAfter(ops, m, n), NEW entry \in EntryAfter(ops, m, n, i)
  PROVE  (IF entry = old THEN ops[m + 1].hop ELSE entry) \in EntryAfter(ops, m + 1, n, i)
<1>. DEFINE written == HopsWritten(ops, m, n, i)
            new     == ops[m + 1].hop
<1>1. /\ HopsWritten(ops, m + 1, n, i) = written
      /\ ParentAfter(ops, m + 1, n) = {new}
      /\ ParentsSet(ops, m, n) \subseteq ParentsSet(ops, m + 1, n)
      /\ old \in ParentsSet(ops, m, n)
  BY HopsWrittenNext, ParentAfterNext, ParentsSetNext, ParentAmongSet
<1>2. \/ entry \in written
      \/ entry = old /\ (written = {} \/ written \cap ParentsSet(ops, m, n) # {})
  BY OneParent DEF EntryAfter
<1>3. CASE entry = old
  <2>1. written = {} \/ written \cap ParentsSet(ops, m + 1, n) # {}
    BY <1>1, <1>2, <1>3
  <2>. QED BY <2>1, <1>1, <1>3 DEF EntryAfter
<1>4. CASE entry # old
  BY <1>1, <1>2, <1>4 DEF EntryAfter
<1>. QED BY <1>3, <1>4

LEMMA EntryAfterOther ==
  ASSUME NEW ops, NEW m \in Nat, NEW n, NEW i,
         ~SetsParent(ops, m + 1, n), ~SetsHop(ops, m + 1, n, i)
  PROVE  EntryAfter(ops, m + 1, n, i) = EntryAfter(ops, m, n, i)
<1>1. /\ HopsWritten(ops, m + 1, n, i) = HopsWritten(ops, m, n, i)
      /\ ParentAfter(ops, m + 1, n) = ParentAfter(ops, m, n)
      /\ ParentsSet(ops, m + 1, n) = ParentsSet(ops, m, n)
  BY HopsWrittenNext, ParentAfterNext, ParentsSetNext
<1>. QED BY <1>1 DEF EntryAfter

LEMMA TablesStart == NetInit => TablesInv
<1>0. 0 \in Indexes
  BY DEF Indexes
<1>. SUFFICES ASSUME NetInit, NEW n \in Devices, NEW i \in Indexes
              PROVE  /\ meshParent[n] \in ParentAfter(Ops, pc, n)
                     /\ nextHop[n][i] \in EntryAfter(Ops, pc, n, i)
  BY <1>0 DEF TablesInv
<1>1. pc = 0 /\ meshParent[n] = Unset /\ nextHop[n][i] = Unset
  BY DEF NetInit, MeshInit, TablesInit
<1>2. LastParents(Ops, 0, n) = {} /\ LastHops(Ops, 0, n, i) = {}
  BY DEF LastParents, LastHops
<1>. QED BY <1>1, <1>2 DEF ParentAfter, HopsWritten, EntryAfter

LEMMA TablesInstall ==
  ASSUME ProgramInv, TablesTypeOK, TablesInv, Install, IsMesh
  PROVE  TablesInv'
<1>. DEFINE o == Ops[pc + 1]
<1>0. /\ pc \in Nat /\ o.op \in {"parent", "next"}
      /\ o.dev \in Devices /\ o.hop \in Addresses /\ o.index \in Indexes
  BY MeshOperation DEF Install
<1>1. pc' = pc + 1 /\ Ops' = Ops /\ IsMesh'
  BY DEF Install, Ops, IsMesh
<1>2. /\ meshParent \in [Devices -> Addresses] /\ nextHop \in [Devices -> [Indexes -> Addresses]]
  BY DEF TablesTypeOK
<1>. SUFFICES ASSUME NEW n \in Devices, NEW i \in Indexes
              PROVE  /\ meshParent'[n] \in ParentAfter(Ops, pc + 1, n)
                     /\ nextHop'[n][i] \in EntryAfter(Ops, pc + 1, n, i)
  <2>1. 0 \in Indexes
    BY DEF Indexes
  <2>. QED BY <1>1, <2>1 DEF TablesInv
<1>3. meshParent[n] \in ParentAfter(Ops, pc, n) /\ nextHop[n][i] \in EntryAfter(Ops, pc, n, i)
  BY DEF TablesInv
<1>4. CASE o.op = "parent" /\ SetMeshParentAddress(o.dev, o.hop)
  <2>1. CASE o.dev = n
    <3>1. SetsParent(Ops, pc + 1, n) /\ ~SetsHop(Ops, pc + 1, n, i)
      BY <1>4, <2>1 DEF SetsParent, SetsHop
    <3>2. meshParent'[n] = o.hop
      BY <1>2, <1>4, <2>1 DEF SetMeshParentAddress
    <3>3. nextHop'[n][i] = IF nextHop[n][i] = meshParent[n] THEN o.hop ELSE nextHop[n][i]
      BY <1>2, <1>4, <2>1 DEF SetMeshParentAddress, Replaced
    <3>4. meshParent'[n] \in ParentAfter(Ops, pc + 1, n)
      BY <1>0, <3>1, <3>2, ParentAfterNext
    <3>. QED BY <1>0, <1>3, <3>1, <3>3, <3>4, EntryAfterParent
  <2>2. CASE o.dev # n
    <3>1. ~SetsParent(Ops, pc + 1, n) /\ ~SetsHop(Ops, pc + 1, n, i)
      BY <2>2 DEF SetsParent, SetsHop
    <3>2. meshParent'[n] = meshParent[n] /\ nextHop'[n] = nextHop[n]
      BY <1>2, <1>4, <2>2 DEF SetMeshParentAddress
    <3>. QED BY <1>0, <1>3, <3>1, <3>2, ParentAfterNext, EntryAfterOther
  <2>. QED BY <2>1, <2>2
<1>5. CASE o.op = "next" /\ SetNextHopForIndex(o.dev, o.hop, o.index)
  <2>0. ~SetsParent(Ops, pc + 1, n)
    BY <1>5 DEF SetsParent
  <2>1. meshParent' = meshParent /\ nextHop' = [nextHop EXCEPT ![o.dev][o.index] = o.hop]
    BY <1>5 DEF SetNextHopForIndex
  <2>2. meshParent'[n] \in ParentAfter(Ops, pc + 1, n)
    BY <1>0, <1>3, <2>0, <2>1, ParentAfterNext
  <2>3. CASE o.dev = n /\ o.index = i
    <3>1. SetsHop(Ops, pc + 1, n, i)
      BY <1>5, <2>3 DEF SetsHop
    <3>2. nextHop'[n][i] = o.hop
      BY <1>2, <2>1, <2>3
    <3>3. nextHop'[n][i] \in HopsWritten(Ops, pc + 1, n, i)
      BY <1>0, <3>1, <3>2, HopsWrittenNext
    <3>. QED BY <2>2, <3>3 DEF EntryAfter
  <2>4. CASE ~(o.dev = n /\ o.index = i)
    <3>1. ~SetsHop(Ops, pc + 1, n, i)
      BY <2>4 DEF SetsHop
    <3>2. nextHop'[n][i] = nextHop[n][i]
      BY <1>2, <2>1, <2>4
    <3>. QED BY <1>0, <1>3, <2>0, <2>2, <3>1, <3>2, EntryAfterOther
  <2>. QED BY <2>3, <2>4
<1>. QED BY <1>4, <1>5 DEF Install

LEMMA RouteOperation ==
  ASSUME ProgramInv, ~IsMesh, ~Ready
  PROVE  pc + 1 \in DOMAIN Ops /\ pc \in Nat /\ Ops[pc + 1].dev \in 0..82
<1>1. program \in Programs \cap RouteNames
  BY ProgramsAssumption DEF ProgramInv, IsMesh
<1>2. PICK n \in Nat : n = Len(Ops) /\ DOMAIN Ops = 1..n
  BY <1>1, ProgramsAssumption DEF Ops
<1>3. pc \in 0..n /\ pc # n
  BY <1>2 DEF ProgramInv, Ready
<1>4. pc \in Nat /\ pc + 1 \in 1..n
  BY <1>3
<1>. QED BY <1>1, <1>2, <1>4, ProgramsAssumption DEF Ops

LEMMA RoutesStart == NetInit => RoutesInv
<1>. SUFFICES ASSUME NetInit PROVE RoutesInv
  OBVIOUS
<1>1. pc = 0 /\ routes = [d \in 0..82 |-> <<>>]
  BY DEF NetInit
<1>. QED BY <1>1 DEF RoutesInv

LEMMA RoutesInstall ==
  ASSUME ProgramInv, RoutesInv, Install, ~IsMesh
  PROVE  RoutesInv'
<1>. DEFINE o == Ops[pc + 1]
            S == Range(Ops)
<1>0. pc \in Nat /\ o.dev \in 0..82 /\ o \in S
  BY RouteOperation DEF Install, Range
<1>1. pc' = pc + 1 /\ Ops' = Ops
  BY DEF Install, Ops
<1>2. routes' = [routes EXCEPT ![o.dev] = Append(@, o)]
  BY DEF Install
<1>3. routes \in [0..82 -> Seq(S)]
  BY DEF RoutesInv
<1>. HIDE DEF o, S
<1>4. routes' \in [0..82 -> Seq(S)]
  <2>0. \A q \in Seq(S), x \in S : Append(q, x) \in Seq(S)
    OBVIOUS
  <2>1. Append(routes[o.dev], o) \in Seq(S)
    BY <1>0, <1>3, <2>0
  <2>. QED BY <1>2, <1>3, <2>1
<1>5. ASSUME NEW n \in 0..82
      PROVE  /\ \A j \in DOMAIN routes'[n] : routes'[n][j].dev = n
             /\ \A k \in 1..(pc + 1) : Ops[k].dev = n =>
                  \E j \in DOMAIN routes'[n] : routes'[n][j] = Ops[k]
  <2>0. /\ \A j \in DOMAIN routes[n] : routes[n][j].dev = n
        /\ \A k \in 1..pc : Ops[k].dev = n => \E j \in DOMAIN routes[n] : routes[n][j] = Ops[k]
    BY DEF RoutesInv
  <2>1. \A k \in 1..(pc + 1) : k \in 1..pc \/ Ops[k] = o
    BY <1>0 DEF o
  <2>2. CASE n # o.dev
    <3>1. routes'[n] = routes[n]
      BY <1>2, <1>3, <2>2
    <3>. QED BY <2>0, <2>1, <2>2, <3>1
  <2>3. CASE n = o.dev
    <3>1. routes[n] \in Seq(S) /\ routes'[n] = Append(routes[n], o)
      BY <1>0, <1>2, <1>3, <2>3
    <3>2. PICK q \in Seq(S) : q = routes[n]
      BY <3>1
    <3>3. /\ DOMAIN Append(q, o) = 1..(Len(q) + 1) /\ DOMAIN q = 1..Len(q) /\ Len(q) \in Nat
          /\ \A j \in 1..Len(q) : Append(q, o)[j] = q[j]
          /\ Append(q, o)[Len(q) + 1] = o
      BY <1>0
    <3>4. \A j \in 1..(Len(q) + 1) : j \in 1..Len(q) \/ j = Len(q) + 1
      BY <3>3
    <3>5. Len(q) + 1 \in 1..(Len(q) + 1) /\ \A j \in 1..Len(q) : j \in 1..(Len(q) + 1)
      BY <3>3
    <3>6. \A j \in DOMAIN routes'[n] : routes'[n][j].dev = n
      BY <2>0, <2>3, <3>1, <3>2, <3>3, <3>4
    <3>7. ASSUME NEW k \in 1..(pc + 1), Ops[k].dev = n
          PROVE  \E j \in DOMAIN routes'[n] : routes'[n][j] = Ops[k]
      BY <2>0, <2>1, <3>1, <3>2, <3>3, <3>5, <3>7
    <3>. QED BY <3>6, <3>7
  <2>. QED BY <2>2, <2>3
<1>6. S' = S
  BY <1>1 DEF S
<1>7. routes' \in [0..82 -> Seq(Range(Ops'))]
  BY <1>4, <1>6 DEF S
<1>8. \A n \in 0..82 :
        /\ \A j \in DOMAIN routes'[n] : routes'[n][j].dev = n
        /\ \A k \in 1..pc' : Ops'[k].dev = n => \E j \in DOMAIN routes'[n] : routes'[n][j] = Ops'[k]
  BY <1>1, <1>5
<1>. QED BY <1>7, <1>8 DEF RoutesInv

\* Once anything is sent, the tables and the program stand still.
LEMMA OnlyInstall ==
  ASSUME [NetNext]_netVars, ~Install
  PROVE  UNCHANGED <<tableVars, program, onLink, pc, routes>>
BY DEF NetNext, Progress, netVars, StartPing, Forward, Reply, Answer, StartFlood, Relay, Broadcast,
       Transmit, meshVars

LEMMA TablesInvStep ==
  ASSUME ProgramInv, TablesTypeOK, TablesInv, RoutesInv, [NetNext]_netVars
  PROVE  TablesInv' /\ RoutesInv'
<1>0. Install => IsMesh' = IsMesh
  BY DEF Install, IsMesh
<1>1. CASE Install /\ IsMesh
  <2>1. TablesInv'
    BY <1>1, TablesInstall
  <2>. QED BY <1>0, <1>1, <2>1 DEF RoutesInv
<1>2. CASE Install /\ ~IsMesh
  <2>1. RoutesInv'
    BY <1>2, RoutesInstall
  <2>. QED BY <1>0, <1>2, <2>1 DEF TablesInv
<1>3. CASE ~Install
  <2>1. /\ meshParent' = meshParent /\ nextHop' = nextHop /\ routes' = routes /\ pc' = pc
        /\ IsMesh' = IsMesh /\ Ops' = Ops
    BY <1>3, OnlyInstall DEF tableVars, IsMesh, Ops
  <2>2. TablesInv'
    BY <2>1 DEF TablesInv
  <2>3. RoutesInv'
    BY <2>1 DEF RoutesInv
  <2>. QED BY <2>2, <2>3
<1>. QED BY <1>1, <1>2, <1>3

-----------------------------------------------------------------------------
(* A packet goes where PingPaths says, and never back. *)

LEMMA MeshHop ==
  ASSUME ProgramInv, TablesInv, Ready, IsMesh, packet.at # packet.dst,
         packet.at \in Nodes, packet.dst \in Nodes, NEW r \in MeshNextOf(packet)
  PROVE  r \in LeadsTo(program, onLink, packet.dst, packet.at)
<1>1. program \in Programs \cap MeshNames /\ Nodes = MeshNodes(program)
  BY DEF ProgramInv, IsMesh, Nodes, NodesOf
<1>2. packet.at \in Devices /\ Addr[packet.dst] \in Indexes
  BY <1>1, ProgramsAssumption DEF Nodes
<1>3. nextHop[packet.at][Addr[packet.dst]]
        \in EntryAfter(Ops, Len(Ops), packet.at, Addr[packet.dst])
  BY <1>2 DEF TablesInv, Ready
<1>. QED BY <1>1, <1>3 DEF MeshNextOf, LeadsTo, Ops

\* A route that ns-3 chooses is among the best of all those of the node.
LEMMA RouteHop ==
  ASSUME ProgramInv, RoutesInv, Ready, ~IsMesh, packet.at # packet.dst,
         packet.at \in Nodes, NEW r \in RouteNextOf(packet)
  PROVE  r \in LeadsTo(program, onLink, packet.dst, packet.at)
<1>. DEFINE n == packet.at
            d == packet.dst
            table == routes[n]
<1>1. /\ program \in Programs \cap RouteNames /\ program \notin MeshNames
      /\ Nodes = RouteNodes(program)
  BY ProgramsAssumption DEF ProgramInv, IsMesh, Nodes, NodesOf
<1>2. DOMAIN Ops = 1..pc
  BY <1>1, ProgramsAssumption DEF Ready, Ops
<1>3. n \in 0..82
  BY <1>1, ProgramsAssumption
<1>4. /\ table \in Seq(Range(Ops))
      /\ \A j \in DOMAIN table : table[j].dev = n
      /\ \A k \in DOMAIN Ops : Ops[k].dev = n => \E j \in DOMAIN table : table[j] = Ops[k]
  BY <1>2, <1>3 DEF RoutesInv
<1>5. \A j \in DOMAIN table : table[j] \in Range(Ops)
  BY <1>4
<1>6. \A j \in Matches(packet) : table[j] \in RoutesFor(Ops, n, d)
  BY <1>4, <1>5 DEF Matches, RoutesFor
<1>7. \A s \in RoutesFor(Ops, n, d) : \E j \in Matches(packet) : table[j] = s
  BY <1>4 DEF Matches, RoutesFor, Range
<1>8. \A k \in Best(packet) : table[k] \in BestRoutes(Ops, n, d)
  BY <1>6, <1>7 DEF Best, Better, BestRoutes
<1>9. RouteAddress[r] \in ViasFor(Ops, onLink, n, d)
  BY <1>8 DEF RouteNextOf, ViasFor
<1>. QED BY <1>1, <1>9 DEF LeadsTo, RouteNextOf, Ops

LEMMA Hop ==
  ASSUME ProgramInv, TablesInv, RoutesInv, Ready, packet.at # packet.dst,
         packet.at \in Nodes, packet.dst \in Nodes, NEW r \in NextOf(packet)
  PROVE  r \in LeadsTo(program, onLink, packet.dst, packet.at)
BY MeshHop, RouteHop DEF NextOf

LEMMA PacketStart == NetInit => PacketInv
BY DEF NetInit, PacketInv

LEMMA PacketForward ==
  ASSUME ProgramInv, TablesInv, RoutesInv, PacketInv, Forward
  PROVE  PacketInv'
<1>. DEFINE A(n) == Ahead(program, onLink, packet.dst, n)
<1>1. PICK r \in NextOf(packet) :
        /\ packet' = [packet EXCEPT !.at = r, !.away = TRUE]
        /\ visited' = visited \cup {r} /\ looped' = (looped \/ r \in visited)
  BY DEF Forward
<1>2. /\ packet \in [kind : {"request", "reply"}, src : Nodes, dst : Nodes, at : Nodes,
                     away : BOOLEAN]
      /\ Ready /\ packet.at # packet.dst
      /\ \/ packet.kind = "request" /\ <<packet.src, packet.dst>> \in Pings
         \/ packet.kind = "reply" /\ <<packet.dst, packet.src>> \in Pings
      /\ \/ packet.kind = "reply" /\ packet.dst \in CirclingTo(program)
         \/ /\ ~looped /\ packet.src \in visited
            /\ \A v \in visited : v = packet.at \/ {packet.at} \cup A(packet.at) \subseteq A(v)
  BY DEF Forward, PacketInv, NoPacket, Beyond
<1>3. r \in LeadsTo(program, onLink, packet.dst, packet.at)
  BY <1>1, <1>2, Hop
<1>4. r \in Nodes
  BY <1>3 DEF LeadsTo, Nodes, NodesOf
<1>5. /\ packet' \in [kind : {"request", "reply"}, src : Nodes, dst : Nodes, at : Nodes,
                      away : BOOLEAN]
      /\ packet'.kind = packet.kind /\ packet'.src = packet.src /\ packet'.dst = packet.dst
      /\ packet'.at = r
  BY <1>1, <1>2, <1>4
<1>6. /\ Ready' /\ Nodes' = Nodes /\ Pings' = Pings /\ CirclingTo(program)' = CirclingTo(program)
      /\ \A n : Beyond(n)' = A(n)
  BY <1>2, <1>5 DEF Forward, Ready, Ops, Nodes, Pings, CirclingTo, Beyond
<1>7. CASE packet.kind = "reply" /\ packet.dst \in CirclingTo(program)
  BY <1>2, <1>5, <1>6, <1>7 DEF PacketInv
<1>8. CASE ~(packet.kind = "reply" /\ packet.dst \in CirclingTo(program))
  <2>1. LeadsAway(program, onLink, packet.src, packet.dst)
    BY <1>2, <1>8, TablesLead DEF ProgramInv, IsMesh, Pings, CirclingTo
  <2>2. packet.at \in {packet.src} \cup A(packet.src)
    BY <1>2, <1>8
  <2>3. packet.at \notin A(packet.at) /\ {r} \cup A(r) \subseteq A(packet.at)
    BY <1>3, <2>1, <2>2 DEF LeadsAway
  <2>4. r \notin visited
    BY <1>2, <1>8, <2>3
  <2>5. \A v \in visited' : v = r \/ {r} \cup A(r) \subseteq A(v)
    BY <1>1, <1>2, <1>8, <2>3
  <2>6. ~looped' /\ packet.src \in visited'
    BY <1>1, <1>2, <1>8, <2>4
  <2>. QED BY <1>2, <1>5, <1>6, <2>5, <2>6 DEF PacketInv
<1>. QED BY <1>7, <1>8

LEMMA PacketReply ==
  ASSUME ProgramInv, PacketInv, Reply
  PROVE  PacketInv'
<1>1. /\ packet \in [kind : {"request", "reply"}, src : Nodes, dst : Nodes, at : Nodes,
                     away : BOOLEAN]
      /\ Ready /\ packet.at = packet.dst /\ packet.kind = "request"
      /\ <<packet.src, packet.dst>> \in Pings /\ ~looped
  BY DEF Reply, PacketInv, NoPacket
<1>2. /\ packet' = [kind |-> "reply", src |-> packet.dst, dst |-> packet.src, at |-> packet.at,
                    away |-> FALSE]
      /\ visited' = {packet.at} /\ ~looped'
  BY <1>1 DEF Reply
<1>3. Ready' /\ Nodes' = Nodes /\ Pings' = Pings
  BY <1>1 DEF Reply, Ready, Ops, Nodes, Pings
<1>. QED BY <1>1, <1>2, <1>3 DEF PacketInv

LEMMA PacketSent ==
  ASSUME ProgramInv, PacketInv, NEW p \in Pings, StartPing(p[1], p[2])
  PROVE  PacketInv'
<1>1. PICK s \in Nodes, d \in Nodes : p = <<s, d>>
  BY ProgramsAssumption DEF ProgramInv, Pings, Nodes
<1>2. /\ packet' = [kind |-> "request", src |-> s, dst |-> d, at |-> s, away |-> FALSE]
      /\ visited' = {s} /\ Ready /\ looped' = looped /\ packet = NoPacket
  BY <1>1 DEF StartPing
<1>3. Ready' /\ Nodes' = Nodes /\ Pings' = Pings
  BY <1>2 DEF StartPing, Ready, Ops, Nodes, Pings
<1>4. ~looped'
  BY <1>2 DEF PacketInv, NoPacket
<1>. QED BY <1>1, <1>2, <1>3, <1>4 DEF PacketInv

LEMMA PacketStep ==
  ASSUME ProgramInv, TablesInv, RoutesInv, PacketInv, [NetNext]_netVars
  PROVE  PacketInv'
<1>1. CASE Install
  <2>1. packet = NoPacket /\ ~looped
    BY <1>1 DEF Install, ProgramInv, PacketInv
  <2>. QED BY <1>1, <2>1 DEF Install, pingVars, PacketInv, NoPacket
<1>2. CASE Forward  BY <1>2, PacketForward
<1>3. CASE Reply  BY <1>3, PacketReply
<1>4. ASSUME NEW p \in Pings, StartPing(p[1], p[2]) PROVE PacketInv'
  BY <1>4, PacketSent
<1>5. CASE UNCHANGED <<program, onLink, pc, packet, visited, looped>>
  BY <1>5 DEF PacketInv, Ready, Ops, Nodes, Pings, CirclingTo, Beyond, NoPacket
<1>. QED BY <1>1, <1>2, <1>3, <1>4, <1>5
         DEF NetNext, Progress, netVars, pingVars, Answer, StartFlood, Relay

\* In any simulation whose tables lead on, no packet comes to a device twice but a reply of
\* the large mesh-under program to 79, 80, 81 or 82, which circle.
THEOREM PacketsMoveOn == NetSpec => []LoopsConfined
<1>. DEFINE Inv == PingInv /\ TablesTypeOK /\ LastNeighbourIsParent
<1>1. NetInit => Inv
  BY ProgramStart, InitTables, TablesStart, RoutesStart, PacketStart DEF NetInit, PingInv
<1>2. Inv /\ [NetNext]_netVars => Inv'
  BY ProgramStep, NetStepIsMeshStep, MeshTablesStep, TablesInvStep, PacketStep DEF PingInv
<1>3. Inv => LoopsConfined
  BY DEF PingInv, PacketInv, LoopsConfined
<1>. QED BY <1>1, <1>2, <1>3, PTL DEF NetSpec
===============================================================================
