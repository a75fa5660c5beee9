------------------------------- MODULE PingPaths -------------------------------
(***************************************************************************)
(* Where the tables of a simulation lead, read off the operations of its   *)
(* program without running it.  TLC evaluates the two assumptions for the  *)
(* eight programs; with them LoopsConfined is a theorem about PingNetwork. *)
(***************************************************************************)
EXTENDS PingNetwork

\* The operations of every program name devices and addresses that exist, and every ping
\* is between two devices of the simulation.
ASSUME ProgramsAssumption ==
    /\ Programs \subseteq MeshNames \cup RouteNames
    /\ \A name \in Programs :
         /\ NodesOf(name) \subseteq Devices
         /\ PingsOf(name) \subseteq NodesOf(name) \X NodesOf(name)
         /\ DOMAIN OpsOf[name] = 1..Len(OpsOf[name]) /\ Len(OpsOf[name]) \in Nat
    /\ \A name \in Programs \cap MeshNames :
         /\ \A d \in MeshNodes(name) : Addr[d] \in Indexes
         /\ \A k \in DOMAIN OpsOf[name] : LET o == OpsOf[name][k] IN
              /\ o.op \in {"parent", "next"}
              /\ o.dev \in Devices /\ o.hop \in Addresses /\ o.index \in Indexes
    /\ \A name \in Programs \cap RouteNames :
         /\ RouteNodes(name) \subseteq 0..82
         /\ \A k \in DOMAIN OpsOf[name] : OpsOf[name][k].dev \in 0..82

-----------------------------------------------------------------------------
(* The first m operations of a mesh-under program. *)

SetsParent(ops, k, n) == ops[k].op = "parent" /\ ops[k].dev = n
SetsHop(ops, k, n, i) == ops[k].op = "next" /\ ops[k].dev = n /\ ops[k].index = i

LastParents(ops, m, n) ==
    {k \in 1..m : SetsParent(ops, k, n) /\ \A j \in (k + 1)..m : ~SetsParent(ops, j, n)}
LastHops(ops, m, n, i) ==
    {k \in 1..m : SetsHop(ops, k, n, i) /\ \A j \in (k + 1)..m : ~SetsHop(ops, j, n, i)}

\* The parent is the one set last.
ParentAfter(ops, m, n) ==
    IF LastParents(ops, m, n) = {} THEN {Unset}
                                   ELSE {ops[k].hop : k \in LastParents(ops, m, n)}

\* A next hop is the one written last, or the parent: an entry that was not written, or
\* one that was the parent at some time, changes with it.
ParentsSet(ops, m, n) == {Unset} \cup {ops[k].hop : k \in {j \in 1..m : SetsParent(ops, j, n)}}
HopsWritten(ops, m, n, i) == {ops[k].hop : k \in LastHops(ops, m, n, i)}
EntryAfter(ops, m, n, i) ==
    LET written == HopsWritten(ops, m, n, i)
    IN  written \cup (IF written = {} \/ written \cap ParentsSet(ops, m, n) # {}
                      THEN ParentAfter(ops, m, n) ELSE {})

(* All operations of a route-over program. *)

\* The routes of node n that fit d, and the best of them but for the order.
RoutesFor(ops, n, d) ==
    {o \in Range(ops) : o.dev = n /\ (o.len = 0 \/ o.dst = RouteAddress[d])}
BestRoutes(ops, n, d) ==
    LET fit == RoutesFor(ops, n, d) IN
    {r \in fit : \A s \in fit :
                      \/ r.len > s.len
                      \/ r.len = s.len /\ (r.metric < s.metric \/ r.metric = s.metric)}
ViasFor(ops, link, n, d) ==
    {r.via : r \in {o \in BestRoutes(ops, n, d) : o.len = 128 \/ ~link}}
    \cup (IF link THEN {RouteAddress[d]} ELSE {})

-----------------------------------------------------------------------------
\* The devices that may have a packet for d next, when n has it.
LeadsTo(name, link, d, n) ==
    IF n = d THEN {}
    ELSE IF name \in MeshNames
         THEN LET hops == EntryAfter(OpsOf[name], Len(OpsOf[name]), n, Addr[d])
              IN  {r \in MeshNodes(name) \ {n} : Addr[r] \in hops}
         ELSE LET vias == ViasFor(OpsOf[name], link, n, d)
              IN  {r \in RouteNodes(name) : RouteAddress[r] \in vias}

\* Those that may have it after that, on ways of up to LongestWay devices.
LongestWay == 7
Ahead(name, link, d, n) ==
    LET within[k \in 1..LongestWay] ==
          IF k = 1 THEN LeadsTo(name, link, d, n)
          ELSE LET near == within[k - 1]
               IN  near \cup UNION {LeadsTo(name, link, d, r) : r \in near}
    IN  within[LongestWay]

\* Wherever a packet from s to d may come, it does not come again.
LeadsAway(name, link, s, d) ==
    \A n \in {s} \cup Ahead(name, link, d, s) :
        /\ n \notin Ahead(name, link, d, n)
        /\ \A r \in LeadsTo(name, link, d, n) :
             {r} \cup Ahead(name, link, d, r) \subseteq Ahead(name, link, d, n)

\* The tables of each program lead every echo request on, and every reply but those of the
\* large mesh-under program to 79 to 82.
ASSUME TablesLead ==
    \A name \in Programs, link \in BOOLEAN : (name \in MeshNames => link) =>
        \A p \in PingsOf(name) :
            /\ LeadsAway(name, link, p[1], p[2])
            /\ (p[1] \notin CirclingTo(name) => LeadsAway(name, link, p[2], p[1]))
-----------------------------------------------------------------------------
(* What the proof of LoopsConfined needs to know of a reachable state. *)

ProgramInv ==
    /\ program \in Programs /\ onLink \in BOOLEAN /\ (IsMesh => onLink)
    /\ pc \in 0..Len(Ops)
    /\ ~Ready => origin = NoDevice /\ packet = NoPacket

\* The tables hold what the operations done so far say.
TablesInv ==
    IsMesh => \A n \in Devices :
        /\ meshParent[n] \in ParentAfter(Ops, pc, n)
        /\ \A i \in Indexes : nextHop[n][i] \in EntryAfter(Ops, pc, n, i)

RoutesInv ==
    ~IsMesh =>
        /\ routes \in [0..82 -> Seq(Range(Ops))]
        /\ \A n \in 0..82 :
             /\ \A j \in DOMAIN routes[n] : routes[n][j].dev = n
             /\ \A k \in 1..pc : Ops[k].dev = n =>
                    \E j \in DOMAIN routes[n] : routes[n][j] = Ops[k]

\* A packet that does not circle has everything still ahead of it that was ahead of any device
\* it has been at.
Beyond(n) == Ahead(program, onLink, packet.dst, n)
PacketInv ==
    \/ packet = NoPacket /\ ~looped
    \/ /\ packet \in [kind : {"request", "reply"}, src : Nodes, dst : Nodes, at : Nodes,
                       away : BOOLEAN]
       /\ Ready
       /\ \/ packet.kind = "request" /\ <<packet.src, packet.dst>> \in Pings
          \/ packet.kind = "reply" /\ <<packet.dst, packet.src>> \in Pings
       /\ \/ packet.kind = "reply" /\ packet.dst \in CirclingTo(program)
          \/ /\ ~looped /\ packet.src \in visited
             /\ \A v \in visited :
                  v = packet.at \/ {packet.at} \cup Beyond(packet.at) \subseteq Beyond(v)

PingInv == ProgramInv /\ TablesInv /\ RoutesInv /\ PacketInv
===============================================================================
