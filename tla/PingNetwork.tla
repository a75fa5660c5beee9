----------------------------- MODULE PingNetwork -----------------------------
(***************************************************************************)
(* A simulation of either kind: its program fills the tables of the        *)
(* devices operation by operation, then one ping makes its way to the      *)
(* remote node and back, or one device broadcasts.  Forwarding keeps no    *)
(* state, so one packet at a time shows what the tables do; what pings do  *)
(* to each other on the channel is in LrWpanMac.  The devices of every     *)
(* program are within radio range of each other.                           *)
(***************************************************************************)
EXTENDS MeshForwarding, MeshPrograms, RoutePrograms

CONSTANTS Programs      \* which of the programs are run

OpsOf == [name \in Programs |-> IF name \in MeshNames THEN MeshOps(name) ELSE RouteOps(name)]
NodesOf(name) == IF name \in MeshNames THEN MeshNodes(name) ELSE RouteNodes(name)
PingsOf(name) == IF name \in MeshNames THEN MeshPings(name) ELSE RoutePings(name)

VARIABLES
    program,            \* the program that runs
    onLink,             \* IPv6 knows the prefix of the interface to be on-link
    pc,                 \* how many of its operations are done
    routes,             \* the static routes of a node, in the order they were added
    packet,             \* the echo request or reply
    visited,            \* history: the devices that have had the packet
    looped,             \* history: one of them had it twice
    answered            \* the reply has reached the pinger

pingVars == <<packet, visited, looped, answered>>
netVars  == <<meshVars, program, onLink, pc, routes, pingVars>>

IsMesh   == program \in MeshNames
Ops      == OpsOf[program]
Nodes    == NodesOf(program)
Pings    == PingsOf(program)
NoPacket == [kind |-> "none"]
Ready    == pc = Len(Ops)

NetInit ==
    /\ MeshInit
    /\ program \in Programs /\ onLink \in BOOLEAN /\ (program \in MeshNames => onLink)
    /\ pc = 0 /\ routes = [d \in 0..82 |-> <<>>]
    /\ packet = NoPacket /\ visited = {} /\ looped = FALSE /\ answered = FALSE

Install ==
    /\ ~Ready /\ pc' = pc + 1
    /\ LET o == Ops[pc + 1] IN
         IF IsMesh
         THEN /\ \/ o.op = "parent" /\ SetMeshParentAddress(o.dev, o.hop)
                 \/ o.op = "next" /\ SetNextHopForIndex(o.dev, o.hop, o.index)
              /\ UNCHANGED routes
         ELSE routes' = [routes EXCEPT ![o.dev] = Append(@, o)] /\ UNCHANGED tableVars
    /\ UNCHANGED <<floodVars, program, onLink, pingVars>>

\* Ping6::Send
StartPing(s, d) ==
    /\ Ready /\ packet = NoPacket /\ origin = NoDevice
    /\ packet' = [kind |-> "request", src |-> s, dst |-> d, at |-> s, away |-> FALSE]
    /\ visited' = {s}
    /\ UNCHANGED <<meshVars, program, onLink, pc, routes, looped, answered>>

-----------------------------------------------------------------------------
(* Where a packet goes next: the devices that take it from the one that has it. *)

\* Mesh-under: the next hop for the final address; a device that gets back a frame of its
\* own does not forward it.
MeshNextOf(p) ==
    {r \in Nodes \ {p.at} :
        Addr[r] = nextHop[p.at][Addr[p.dst]] /\ (p.at = p.src => ~p.away)}

\* Route-over, in ns-3's Ipv6StaticRouting: the longest match, then the least metric, then
\* the route added last; the prefix of the interface is a route of 64 bits.
Matches(p) ==
    {k \in DOMAIN routes[p.at] :
        routes[p.at][k].len = 0 \/ routes[p.at][k].dst = RouteAddress[p.dst]}
Better(r, s, k, j) ==
    \/ r.len > s.len
    \/ r.len = s.len /\ (r.metric < s.metric \/ (r.metric = s.metric /\ k >= j))
Best(p) ==
    {k \in Matches(p) : \A j \in Matches(p) : Better(routes[p.at][k], routes[p.at][j], k, j)}
RouteNextOf(p) ==
    LET best == {routes[p.at][k] : k \in Best(p)}
        host == {r \in best : r.len = 128}
        via  == IF host # {} THEN {r.via : r \in host}
                ELSE IF onLink THEN {RouteAddress[p.dst]} ELSE {r.via : r \in best}
    IN  {n \in Nodes : RouteAddress[n] \in via}

NextOf(p) == IF IsMesh THEN MeshNextOf(p) ELSE RouteNextOf(p)

Forward ==
    /\ packet.kind \in {"request", "reply"} /\ packet.at # packet.dst
    /\ \E r \in NextOf(packet) :
         /\ packet' = [packet EXCEPT !.at = r, !.away = TRUE]
         /\ visited' = visited \cup {r} /\ looped' = (looped \/ r \in visited)
    /\ UNCHANGED <<meshVars, program, onLink, pc, routes, answered>>

\* Icmpv6L4Protocol answers the request.
Reply ==
    /\ packet.kind = "request" /\ packet.at = packet.dst
    /\ packet' = [kind |-> "reply", src |-> packet.dst, dst |-> packet.src, at |-> packet.at,
                 away |-> FALSE]
    /\ visited' = {packet.at}
    /\ UNCHANGED <<meshVars, program, onLink, pc, routes, looped, answered>>

Answer ==
    /\ packet.kind = "reply" /\ packet.at = packet.dst /\ ~answered /\ answered' = TRUE
    /\ UNCHANGED <<meshVars, program, onLink, pc, routes, packet, visited, looped>>

\* Address resolution and the other broadcasts; the big model's are beyond TLC.
StartFlood ==
    /\ IsMesh /\ program # "mesh big" /\ Ready /\ packet = NoPacket
    /\ \E d \in Nodes : Broadcast(d)
    /\ UNCHANGED <<program, onLink, pc, routes, pingVars>>

Relay ==
    /\ \E t \in Nodes : toSend[t] > 0 /\ \E hearers \in SUBSET Nodes : Transmit(t, hearers)
    /\ UNCHANGED <<program, onLink, pc, routes, pingVars>>

Progress == Install \/ Forward \/ Reply \/ Answer \/ Relay
NetNext  == Progress \/ StartFlood \/ \E p \in Pings : StartPing(p[1], p[2])

\* The simulator runs what is scheduled.
NetSpec == NetInit /\ [][NetNext]_netVars /\ WF_netVars(Progress)

-----------------------------------------------------------------------------
\* Those the tables do not serve: 64 has none (ClusterR), 79 to 82 sit behind entries that
\* are one address off (SecondRoot); without an on-link prefix the root has no route to
\* them nor to the head 66, nor has device 0 of the triangle one to device 1.
UnservedBy(name, link) ==
    CASE name = "mesh big" -> {64} \cup (79..82)
      [] name = "route big" /\ ~link -> {66} \cup (79..82)
      [] name = "route triangle" /\ ~link -> {1}
      [] OTHER -> {}
Unserved == UnservedBy(program, onLink)

\* Every ping that the tables of the eight programs serve reaches its remote and is
\* answered, hop by hop over tables written in hundreds of separate operations.
PingAnswered ==
    packet.kind = "request" /\ packet.src \notin Unserved ~> answered

\* The devices to which replies come in circles.  SecondRoot writes the entries for 79 to 82
\* one address off: the replies to 79, 80 and 81 go to and fro between 78 and the device
\* after the one they are meant for, the one to 82 comes back to the root that sent it.
CirclingTo(name) == IF name = "mesh big" THEN 79..82 ELSE {}

\* Mesh-under forwarding has no hop limit and remembers no packet.  In the eight programs
\* only the replies to 79 to 82 of the large mesh-under one come to a device twice: no other
\* reply does, answered or dropped on the way, and no request.
LoopsConfined ==
    looped => packet.kind = "reply" /\ packet.dst \in CirclingTo(program)

\* A broadcast that everybody hears reaches every device of the small networks.
FloodReaches ==
    origin # NoDevice ~> missed \/ \A d \in Nodes \ {origin} : accepted[d] = 1

\* What the programs' comments promise: every pinger ("ROOT to RFD", "RFD to ROOT") is
\* answered.  Not so for the devices in Unserved (README, "Observations").
EveryPingAnswered == packet.kind = "request" ~> answered
===============================================================================
