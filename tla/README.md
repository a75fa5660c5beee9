# A verification of the 6LoWPAN project

This directory holds TLA+ models of the program in this repository, the TLC
configurations that check them on small instances, and theorems about them
that TLAPS proves for every value of the constants.

The repository is the software of a master's project: a network of 6LoWPAN
sensor nodes, first simulated (ns-3, with a modified IEEE 802.15.4 stack that
forwards below IP, "mesh-under", or leaves it to IP, "route-over"), then built
(RIOT nodes with a CoAP server, a ThingWorx server that polls them).

## 1. Inventory

Paths are relative to `src/`. `lr-wpan/` is `Simulation-Development/lr-wpan/`.

| Part | State it keeps | Operations | Talks to |
|---|---|---|---|
| PHY, `lr-wpan/lr-wpan-phy.cc` | transceiver state, the change still owed, frame being received, frame being sent, five scheduled events, PIB | PLME-SET-TRX-STATE, PD-DATA, PLME-CCA, PLME-ED, PLME-SET; StartRx and the ends of everything scheduled | the channel (StartRx, StartTx), the MAC (callbacks) |
| CSMA-CA, `lr-wpan/lr-wpan-csmaca.cc` | NB, CW, BE, exponent limits, three scheduled events, the flag of an assessment | Start, Cancel, the chain RandomBackoffDelay, CanProceed, RequestCCA, PlmeCcaConfirm; setters | the PHY (PLME-CCA), the MAC (verdict) |
| Mesh-under MAC, `lr-wpan/mUnder_lr-wpan-mac.cc` | MAC state, transmit queue, frame being sent, retries, two scheduled events, next-hop table, neighbours | MCPS-DATA, callbacks of the PHY and of CSMA-CA, SendAck, AckWaitTimeout, SetRxOnWhenIdle | both classes above, the layer above it |
| Route-over MAC, `lr-wpan/rOver_lr-wpan-mac.cc` | the same without tables | the same without forwarding | the same |
| Mesh tables and broadcast filter, `lr-wpan/mUnder_lr-wpan-mac.cc` (172 ff., 660 ff.) | per device: parent, six neighbours, next hop per address | SetMeshParentAddress, SetNextHopForIndex; the look-ups of McpsDataRequest and PdDataIndication | the programs that fill them, the other devices |
| Mesh-under programs, `Simulation-Development/Mesh-Under-Simulation-Files/` | addresses, next-hop tables of 3 to 82 nodes | install tables, ping | the MAC, ns-3's ping |
| Route-over programs, `Simulation-Development/Route-Over-Simulation-Files/` | static IPv6 routes | install routes, ping | ns-3's routing |
| Sensor node, `Final-Application/6LoWPAN-Node/` | valve counters, a SHA-256 context | valve interrupts, CoAP GET, PUT and POST | the server |
| ThingWorx service, `Final-Application/ThingWorx-Development/Things_KMG_CoapCommsThing.xml` | counts, reference totals and 24 h figures per machine, the stream of readings | a timer polls every node | the nodes, the stream |
| RIOT ping, `Hardware-Development/RIOT-OS/sc_icmpv6_echo.c` | identifier and window of sequence numbers, kept between calls | ping, reply handler | the IPv6 stack |
| OpenThread command line, `Hardware-Development/OpenThread/cli.cpp` | stored arguments, ping, UDP and router output timers, the flag of a DNS query, the server to print through | some seventy commands, three timers, eight callbacks | the Thread stack (not in the repository), the serial port |
| Other RIOT commands, current logger, spectrum scanner | little or none of their own | parsing and printing around libraries | hardware, libraries that are not in the repository |

### How the lr-wpan classes interact

Everything runs in the one thread of the ns-3 simulator. A call from one class
into another is synchronous, and so are the callbacks: PLME-SET-TRX-STATE may
confirm before it returns, and the confirm's handler may call the PHY again.
What takes time is a scheduled event held in an `EventId` member; overwriting
the member forgets the event without cancelling it. `ScheduleNow` puts a call
behind everything already scheduled for the same instant.

What is hard here is therefore not threads but the order of events: a frame
from a neighbour may start or end between any two events of the node, in any
MAC state; requests override each other (PLME-SET-TRX-STATE "always overrides
previous state setting attempts"); a state change may be made now, after the
turnaround, or at the end of the frame on the air; and three timers (backoff,
assessment, ACK wait) race with all of it.

### What makes each part correct

* PHY: an accepted state change is made or overridden, never lost; a frame is
  delivered only if the receiver was on for all of it; none of the aborts and
  assertions is reached.
* CSMA-CA: each request for the channel gets one answer, after the right
  number of assessments; a cancelled one gets none.
* MAC: each request is confirmed once, in order, with a status that is true of
  what went over the air; a frame that asked for an ACK gets one; the queue is
  served.
* Several MACs together: a confirm tells the sender the truth about its frame,
  as far as an ACK that names no node can.
* Meshes and routes: every frame reaches its destination, in finitely many
  hops; a broadcast reaches every node once.
* Node, server and ping: the totals shown are what the valves did, over node
  resets and lost polls; a digest covers one upload; a ping counts its own
  replies.
* Command line: a line answered Done did what it asked for and one answered
  Error did nothing; every line gets at most one result; what runs on timers
  ends.

`PROJECT.json` lists the hazards with their lines and the properties that watch
over them. Those without a property are modelled too: what their comments
promise does not hold (see the observations below), or nobody relies on it.

## 2. What is modelled

An arrow points to a module that is extended or instantiated.

    one node       MCLrWpanPhy -> LrWpanPhy                <- LrWpanPhyProofs
                                     ^
                   MCLrWpanMac -> LrWpanMac                <- LrWpanMacProofs
                                     v
                                  LrWpanCsmaCa -> Ns3Event
                                     ^
                   MCCsmaCaSystem -> CsmaCaSystem          <- CsmaCaSystemProofs
                                     | refines
                                  ChannelAccess

    several MACs   MCRouteOverLink -> RouteOverLink        <- RouteOverLinkProofs
                                     | refines
                                  LinkService

    networks       MCPingNetwork -> PingPaths              <- PingNetworkProofs
                                     v
                                  PingNetwork -> MeshPrograms, RoutePrograms
                                     v
                                  MeshForwarding
                                     v
                                  MeshTables

    application    MCValveTotals -> ValveTotals            <- ValveTotalsProofs
                                     v
                                  SensorNode

    boards         MCCli -> Cli -> CliCommands             <- CliProofs
                   MCIcmpv6Ping -> Icmpv6Ping              <- Icmpv6PingProofs

### One node: LrWpanPhy, LrWpanCsmaCa, LrWpanMac

**LrWpanPhy** is the transceiver. Each member of the class that decides
anything is a variable (the comments give the names), each request and each
scheduled end is an action. A handler's callbacks are the sequence `conf`, in
the order the code makes them; the class finishes its own assignments in the
same step. Three abstractions: time is order (an event that is scheduled may
fire at any later point, except that assessments, which all take the same time,
end in the order they began); power is the set `air` of signals present, and
whether a signal can be synchronised with or sensed as busy is a choice; of the
PIB only the channel and the CCA mode are kept. The packet error rate is 0, as
`CheckInterference` sets it, so interference never destroys a frame; what it
does do is dereference the current frame, and that is modelled. `NS_ABORT_IF`,
`NS_FATAL_ERROR` and a null dereference set `fault`, after which nothing runs.
By itself the module has the most general user, who may issue any request at
any time.

**LrWpanCsmaCa** is the algorithm, one action per function; `Ns3Event` is what
the class can see of the scheduler, the event its `EventId` refers to and those
it has forgotten. A backoff has any length. **CsmaCaSystem** closes the module
with a MAC that starts and cancels it and a PHY that answers anything, and
states that it refines **ChannelAccess**, the contract of the standard's
clause: so many idle assessments grant the channel, so many busy ones deny it,
each request gets one answer and a cancelled one none. The refinement mapping
reads the counters of the contract off m_NB and m_CW. This MAC cancels only
while no assessment is under way; the finding `mac_cancel` is what happens
otherwise.

**LrWpanMac** is a whole node: the MAC's handlers on the actions of the other
two modules. A step of the node is one function of the MAC called by the
simulator, by the layer above, or as the callback at the head of `conf`.
`setMacState` is the event m_setMacState, which the code uses both for
SetLrWpanMacState and for SendAck. Neighbours put frames of the given kinds on
the air at any time. Frames are records of what the handlers distinguish (data
or ACK, accepted by the filters, ACK requested, broadcast, in transit); whether
an ACK carries the expected sequence number is a choice, since an ACK names no
node. The confirms made so far, the number of times the first queued frame was
on the air and the debt of an ACK are history variables; no action reads them
except to update them. `ScheduleNow` runs its call at the same instant, but after whatever is
already queued for it, so between a ScheduleNow and its call anything else may
happen: a signal of another node may begin or end, the application may make a
request, a timer of the node may fire. This allows the node's own timers more
than ns-3 does, which would need them to fall on that very time. What the time
itself decides is kept: a signal that begins while something is still scheduled
for now cannot end before that has run (`begun`, `ClockStep`).

### Several MACs: RouteOverLink and LinkService

The route-over MAC (`rOver_lr-wpan-mac.cc`) has the same state machine with
other filters and no forwarding. **RouteOverLink** puts several of them on one
channel. A handler is an operator from the members of a node (a record) to
their new values, so that handlers that call each other compose; the
transceiver and CSMA-CA are reduced to an answer some time after the MAC asked.
A frame asks for an ACK if its request had the option and it is not for
everyone; one that does not is confirmed when it was sent. A frame that ends
reaches any subset of the nodes that listen; an ACK carries
the 8-bit sequence number and no address, as in the code: any node that waits
for that number takes it. Nodes draw their first number independently, so the
numbers of different nodes may coincide, and count it modulo 256 (`DsnModulus`),
so that a node comes back to numbers it has used. What is left out of
the handlers: promiscuous mode, and the address and header tests that the code
makes on values it has just constructed.

**LinkService** is what the layer above may rely on. A request is refused at
once or queued; queued ones are confirmed in order and once each. A frame that asks for an ACK
reaches its destination at most once per attempt, and only while it is first in
line; SUCCESS for it means that *some* frame with its number that asked for an
ACK was delivered (this one, an earlier one, or one of a neighbour: that is all
an ACK says); NO_ACK may be said of a frame that arrived; and a node may give up
its own frame at the moment it receives one that wants an ACK. A unicast frame
that asks for none is confirmed first; then it may reach its destination, once,
until the next confirm of its sender.

### Networks: MeshTables, MeshForwarding, PingNetwork, PingPaths

**MeshTables** has the members that the mesh-under MAC adds and the functions
that write them, including the walk of SetNextHopForIndex over m_neighbourAddr,
which ends at the parent's address and nowhere else. **MeshForwarding** adds
how a frame uses them: the next hop of a unicast frame, and the rule by which a
broadcast floods (a device takes it only from its own next hop towards the
origin). A relayed frame waits in the MAC's queue for any time and any subset
of the devices hears a transmission. **MeshPrograms** and **RoutePrograms** are
the eight simulation programs as sequences of the table operations they make,
in the programs' order, and the pings they install. **PingNetwork** runs a
program's operations one by one and then one ping, hop by hop and back, or one
broadcast. Route lookup is ns-3's Ipv6StaticRouting (external): longest prefix,
least metric, last added; `onLink` says whether the interface's own prefix is a
route, which depends on how the address was assigned. **PingPaths** says, without
running a program, what its operations leave in the tables and where these lead
a packet; `TablesLead`, an assumption about constants that TLC evaluates for the
eight programs, is that they lead it on.

### Application: SensorNode and ValveTotals

**SensorNode** is a RIOT node: valve interrupts that count, CoAP GET and PUT of
the counters, the block-wise POST to `/sha256` with its one static context, and
restarts that clear all of it (the interrupt handlers increment what their null
argument points to: a restart or no harm). A digest is the sequence of blocks
that went into it. **ValveTotals** is the polling service of the ThingWorx
server on top of it: one action per answer, so that interrupts, PUTs, restarts
and lost answers fall between any two of them; then the update of counts,
references and 24-hour figures in the script's order.

### Boards: CliCommands, Cli and Icmpv6Ping

**CliCommands** has each command of `cli.cpp` as a function of its arguments
and of what the Thread stack returns; the reply is the result line and the set
of changes made. **Cli** is the interpreter around them: ProcessLine with the
stored `currentArgv`, the ping, UDP and router output timers, the callbacks of
the stack, and restarts. The text of `currentArgv` lives in the serial port's
buffer and is overwritten by the next line (`torn`); reading it then is any
text. **Icmpv6Ping** is RIOT's ping: its static identifier and window, its
registry entry, and the thread's message queue with messages of other threads.

## 3. What is checked

| Run | Instance | States | Shows |
|---|---|---|---|
| `phy` | 2 frames, 2 channels (one unsupported), all four requests, one forgotten EventId of each kind | 0.4 M | the PHY's invariants under any user, and that every accepted state change is resolved |
| `csma_slotted` | exponents 3 to 5 with 0 and 255 set at run time, 4 retries | 1 k | the counters, one activity per request, the contract and that it answers |
| `mac_safety` | 5 kinds of frames, 2 incoming, 2 requests, 1 retry of frame and of channel access each, receiver on or off when idle | 3.4 M | no assertion fails but in the race of the observations below; confirms in order and true, ACKs sent, ACK timer |
| `mac_live` | 2 kinds of frames, otherwise the same | 0.24 M | owed ACKs go out, the queue drains |
| `link` | 3 nodes, sequence numbers modulo 2 starting from 1, 1 retry, 2 requests with and without an ACK | 0.25 M | the MACs implement LinkService, every request is confirmed |
| `ping_network` | the eight programs as they are, up to 85 devices; floods in the three small meshes | 3 k | pings are answered, nothing loops but what the big model's wrong entries send in circles, floods reach everybody once |
| `valves` | 1 machine, 2 valves, 2 openings each, PUT of 1, 1 restart, 3 polls; 2 uploads of 2 blocks, 6 posts | 1.0 M | totals, the 24-hour figure, digests |
| `cli` | 3 lines out of 233, counters modulo 6, restarts anywhere | 0.19 M | what a line answers is what it did; timers end |
| `riot_ping` | 2 pings of 1 or 4 requests, sequence numbers modulo 3, identifiers modulo 4, queue of 2, 1 foreign message | 1.1 M | only own replies are counted, every ping returns |
| `mac_stall`, `mac_cancel`, `valve_totals` | as `mac_live`; 2 machines for the last | | the findings |

Why the bounds are enough.

* PHY and MAC. The PHY receives one frame at a time; a second one is what it
  takes for interference, for a frame that outlives another, and for a
  reception that starts while an old one still ends. Two queued requests make a
  first, a next, and the changes of one into the other; two incoming frames
  interrupt an attempt and its retry; with one retry each, both outcomes of
  every comparison with a limit occur. Forwarded frames come on top of the
  requests. The unslotted algorithm is exercised by the node, and the theorems
  cover both.
* Link. A sender, a receiver and a third node that takes the sender's ACK for
  its own: all nodes start with the number 1, so the first frames of two nodes
  have the same number and the second ones, after the wrap, 0. A node comes back
  to a number of its own with its third frame, which with three nodes is beyond
  the time of a run; with two nodes and three requests TLC finds the same
  properties kept (1.2 M states), and the theorems hold for any numbers of nodes
  and requests and any modulus.
* Networks have no bound but one packet at a time: forwarding keeps no state.
* Valves. Counters and uploads share nothing but the node's restarts, so the
  constraint `OneAtATime` explores them one at a time. Two valves, because the
  code treats the first differently from all others; three polls, because an
  update compares with the last one and the 24-hour figure with an older one;
  two uploads of a first and a last block, with two blocks sent twice. The
  theorems have none of these bounds.
* Command line. Three lines are one to start something, one to disturb it and
  one to be answered meanwhile. The counter modulo 6 wraps below zero like the
  16-bit one, and is above every count a line asks for.
* Ping. Four requests wrap the three sequence numbers; two pings are an old one
  and its successor.

The properties, by module:

* `LrWpanPhy`: `SwitchTargetKnown` (EndSetTRXState never aborts),
  `PendingIsOwned` (an accepted change has an event that will make it),
  `AbandonedFrameDiscarded` (only a frame the receiver stayed on for can be
  delivered), `AbortedIsNotOnAir` (an assertion of EndTx), `PendingResolved`.
* `CsmaCaSystem`: `OneActivity` (while a request is open exactly one call or
  assessment is outstanding, otherwise none: m_NB, m_CW and the flag are never
  shared), `ContractSpec`, `ContractAnswered`.
* `LrWpanMac`: `NoFault` (no assertion, fatal error or abort, but for one race:
  see the observations), `CallbacksReenterLast` (a handler that calls the PHY
  back never does so in the middle of a PHY function's work),
  `OnAirIsFront` (what is on the air is what will be confirmed and removed),
  `ConfirmedInOrder`, `ConfirmTrue`, `OwedAckIsSent`, `AckTimerOwned`,
  `OwedAckGoesOut`, `QueueDrains`.
* `RouteOverLink`: `MacConsistent` (the asserts of the MAC and what they rely
  on), `ServiceSpec` (the refinement), `RequestsConfirmed`.
* `MeshTables` and `MeshForwarding`: `LastNeighbourIsParent` (the pointer walk
  stays inside its table), `FloodOnce`; `PingNetwork`: `LoopsConfined`
  (no packet comes to a device twice but the replies of the big mesh-under
  model to 79, 80, 81 and 82, which do), `PingAnswered`, `FloodReaches`.
* `SensorNode` and `ValveTotals`: `NeverOvercounts`, `Valve1TotalGrows`,
  `DayNegativeAfterRestart`, `DigestWhole` (a digest is that of the upload
  exactly if nothing else got into the context).
* `Cli`: `CliConsistent` (with the count of a ping), `ResultsFollowLines`,
  `FaultBeforeFirstLine`, `ResolvingIsPending`, `AnswersTrue`, `TimersEnd`.
* `Icmpv6Ping`: `CountedIsOwn`, `PingReturns`.

Each property has a mutant in `PROJECT.json`, a definition with one line of the
code missing or wrong (`...Slip` in the modules), that violates it. Deadlock
checking is off where a run stops by design: at a fault, which is the end of
the simulation or of the program, or when the bounds on requests, frames or
lines are used up.

### Fairness

ns-3 runs every event that is scheduled and goes on until none is left, so the
scheduled ends (`EndRx`, `EndTx`, `EndSetTRXState`), the events of the
CSMA-CA class and the callbacks are weakly fair. Requests, new frames on the
air, cancellation and configuration are not: nobody has to do them. In
`LrWpanMac` the callbacks, the calls scheduled for now and the timers are fair
together, since one of them is always the next thing the simulator does. The
same holds of the work of all the nodes of `RouteOverLink`, which is fair as a
whole, and of `Progress` in `PingNetwork`. In `Cli` the UDP timer is weakly fair, and the ping timer strongly
for the case that a message buffer is free: buffers do come free again, while
the timer itself is restarted in between. In `Icmpv6Ping` the thread is
scheduled (`Loop`); whether a reply comes is a choice, and the wait has its
timeout.

### Findings

Runs that end in a violation. Each states what a comment of the code says:

1. `mac_stall`: after a channel access failure the queue is not looked at, and
   the node sits idle with frames to send until the next request.
2. `mac_cancel`: cancelling CSMA-CA during an assessment. The assessment's
   result is to be ignored; it starts another backoff of the cancelled run.
3. `valve_totals`: after a restart of a node, the last counts of valves 2 to 4
   are carried over only if the valve now stands below *valve 1's new* count,
   which line 85 of the service has just stored. Otherwise the machine loses
   what the valve had counted.

### Observations

What comments of the source say and the models do not confirm, without a run of
its own. In parentheses, how to see it.

* PHY. TX_ON during a reception leaves BUSY_RX in place until the turnaround
  ends; if the frame ends first, the current frame is null and the next signal
  makes `CheckInterference` follow it; the assertion is commented out
  (`BusyRxHasFrame` in `MCLrWpanPhy` with `TrxRequests <- MacTrxRequests`).
  FORCE_TRX_OFF during a reception: the end of the abandoned frame turns the
  receiver on (`ForcedOffStaysOff`). A channel change is to corrupt the frame
  being sent, but the test comes after the state it tests was overwritten
  (`ChannelChangeCorrupts` with `SupportedChannels <- MCChannels`).
* CSMA-CA. SetMacMaxBE sets the minimum exponent (`ConfigurationApplied` in
  `MCCsmaCaSystem` with `IsSlotted = FALSE`). With macMaxCSMABackoffs set to 255
  the eight bits of m_NB wrap before they exceed it, and the channel is never
  denied (`ContractAnswered` with `MaxCSMABackoffs = 255`; 5 is the most the
  standard allows, but the setter takes any).
* MAC. A frame that wants an ACK has been received, SendAck is scheduled for the
  same time, and before it runs another frame begins to be received. SendAck
  gives that frame up and transmits; its EndRx, during the ACK, applies the
  receiver's RX_ON to the transceiver that is in BUSY_TX; EndTx then finds
  neither of its states and aborts (lr-wpan-phy.cc:1213; `Running` as an
  INVARIANT of `MCLrWpanMac`). `raced` marks these runs; `NoFault` says that no
  other fails.
* Mesh-under programs (`EveryPingAnswered` with `Programs <- BigMesh`). In the
  big model device 64 has no table (ClusterR is one off), and the entries of
  SecondRoot for 79 to 82 are one address off: their requests arrive; the
  replies to 79, 80 and 81 go to and fro between 78 and 80, 81 and 82 for good
  (there is no hop limit), the one to 82 comes back to 0, which sent it. The neighbour
  list of device 66 loses a neighbour that is still in use: SetNextHopForIndex
  replaces the old next hop in the list though other addresses still go through
  it. Only that function reads the list.
* Route-over programs. The default routes of the leaves (metric 1) never apply:
  SetDefaultRouteInAllNodes adds one with metric 0, and the prefix of the
  interface is longer. Without an on-link prefix the big model's root has no
  route to 66 and 79 to 82, and device 0 of the triangle none to 1; with it they
  are reached in one hop, past the routes.
* Command line. A `udp send` without a count is to be sent once; the timer's
  handler looks for the count in a buffer that another line has overwritten
  (`NoCountSendsOne` with `Spec`, `MaxLines = 2`, `CountModulus = 4`). A late
  echo reply after a restart goes through the null server
  (`FaultBeforeFirstLine` says that this is the only time).
* RIOT ping. "requeue wrong packets": they go to the end of the queue that the
  next statement empties (`WrongPacketsStay` as a PROPERTY of `MCIcmpv6Ping`).

## 4. What is proved

TLAPS checks the following for every value of the constants, from the named
assumptions on them (`...Assumption`) and, where it is said below, a hypothesis
of the theorem.

`LrWpanPhyProofs`: the PHY's type invariant and its four safety invariants, for
any frames, channels, and set of requests, and without the bound on forgotten
events. The four are not inductive: that EndSetTRXState or EndTx is scheduled
whenever it is needed follows from which activities exclude one another.
`PhyInv` adds `ActivitiesExclusive`: a transmission has its EndTx scheduled and
no turnaround under way, and during a turnaround there is no good frame. There
is one lemma per request or event and one per invariant under it; the lemma for
PLME-SET-TRX-STATE splits along the cases of the code.

`CsmaCaSystemProofs`: `SystemTypeOK`, `OneActivity` and the refinement of
`ChannelAccess`, slotted and unslotted, for any limits. The inductive invariant
says that the class is always in exactly one of five phases (resting, backing
off, proceeding, requesting, assessing), each with its own event and nothing
else scheduled, and what the counters may be while a request is open. Each
action is a lemma that moves between phases; the report of an assessment has
one of four outcomes, which are the steps of the contract.

`LrWpanMacProofs`: all eight safety invariants of the whole node, for any
frames, retries, requests and neighbours and any order of the events of one
time. `NoFault` holds without a condition; the other seven are proved up to the
race that it excepts (`raced \/ ...`): from then on the transceiver may be in
states that the invariant excludes. TLC finds them kept even then. None of the
eight is inductive alone. `NodeInv` ties the three classes together: `PhyOK` says what this user of the transceiver never brings about
(a frame is received exactly in BUSY_RX, no transmission is aborted or
forgotten), `ConfOK` what a callback under way can say in each MAC state,
`LinkOK` that the MAC sends exactly while the transceiver turns round to TX_ON,
is ready or is on the air, `PktOK` which packet is in hand by state and
scheduled call, `AiredOK` that transmissions and retries of the first frame
differ by at most the one under way, and `BoundOK` that a forwarded frame still
fits the numbering. The CSMA-CA members need no invariant here: its verdict
CHANNEL_IDLE comes only from an idle assessment, and the MAC ignores the others
outside MAC_CSMA. `BegunOK` is what the order of events gives: the frame
under reception began at this time, or nothing else is scheduled for now. A
frame that may end is thus not met by a scheduled SendAck, unless `raced`. Each
handler is one lemma; what a request of the transceiver
does is stated once (`RestRequest`, `SendRequest`), and so are the confirm of
the first frame and its retry (`ConfirmFirstKeeps`, `RetryKeeps`).

`RouteOverLinkProofs`: `MacConsistent`, and that any number of MACs with any
retries and any modulus of the sequence number implement `LinkService`. `LinkInv`
says of each node what its handlers may assume (`MacConsistent`, that the
frames of its queue are the unconfirmed ones in order, that an ACK it waits for
is of its first frame), of the channel that an ACK on the air is of a frame
that asked for it and was delivered, and of a frame without one that its confirm
is the last its sender gave when it arrives (`SentLast`). The effect of a handler is summarised once, as keeping the
queue or answering its first frame (`Kept`, `Answered`), and each step of the
system is one or two such effects, which are the steps of the service.

`PingNetworkProofs`: `LastNeighbourIsParent` and `FloodOnce` for any devices,
addresses, table operations in any order, and any pattern of who hears what.
`FloodInv` is why: a device has sent no more copies than it accepted, and
accepts only those of one other device, its next hop towards the origin, which
by the same token sends at most one. Every simulation implements `MeshSpec`
(`SimulationForwards`), so both hold in it. `LoopsConfined` holds for any programs
with `TablesLead`, which asks of the tables that they lead on every request and
every reply but those to the devices of `CirclingTo`. The proof has two halves. The tables are what PingPaths reads off
the operations: a next hop is the one written last, unless it equalled a parent,
for then SetMeshParentAddress moves it along; a route that is chosen is among
the best. And a packet that a device has had has less ahead of it than it had
there, so that it cannot come back.

`ValveTotalsProofs`: `Valve1TotalGrows`, `NeverOvercounts`, `DigestWhole`, for
any numbers of machines, valves, restarts, polls, uploads and blocks, and
`DayNegativeAfterRestart`. `Accounted` strengthens the second: at any point of
a poll the total, the openings the node still holds and those that the answers
under way carry stay within what was opened. `DayInv` strengthens the last:
until a restart or a PUT, the entries of the stream are at most the last count,
that at most the reading under way, and that at most the node's counter.
`DigestInv` says of an upload under way what the shared context holds; its
lemmas are facts about sequences (two that end differently differ, one more
block makes a longer prefix only of a prefix).

`CliProofs`: all five safety invariants of the command line, for any lines, any
answers of the Thread stack, any number of lines, and any modulus of the
counters. Excluded are the two lines that read past their arguments (section 5).
`AnswersTrue` comes from `ProcessHonest`, which holds for every command with
every number of arguments: the reply says Done exactly if the change was made,
but for two kinds of commands, and a query makes none. `promiscuous` and `macfilter
addr add` make two calls, and report the failure of the second. Seven may answer
Done and have done nothing: `contextreusedelay`, `prefix`, `route` and
`commissioner joiner` end without an error on a word they do not know
(`SkipsWord`); `joiner start`, `joiner stop` and `networkdiagnostic reset` drop
the error of their call (`DropsError`). `CliConsistent` holds because a request that the stack refuses is
not taken off the count, and by modular arithmetic where the subtraction wraps,
as it does for a count of 0. `ResultsFollowLines` is not inductive:
`ResultsOwed` adds the results still to come, of a scan, of a DNS query and of
the running router output, one each however they overlap. `FaultBeforeFirstLine`
and `ResolvingIsPending` are proved beside these.

`Icmpv6PingProofs`: `CountedIsOwn`, for any counts, window, queue and loss,
provided no more pings are made than there are identifiers
(`MaxPings <= IdModulus`, assumed in the theorem): after 65536 of them an
identifier comes back, and a reply late by that much would be counted.

Every safety invariant that a passing run checks is thus proved. Only
model-checked is liveness, which is out of the prover's reach together with
ENABLED: `PendingResolved`, `ContractAnswered`, `OwedAckGoesOut`, `QueueDrains`,
`RequestsConfirmed`, `PingAnswered`, `FloodReaches`, `TimersEnd`, `PingReturns`.
That the tables of the eight programs lead on (`TablesLead`) is evaluated by
TLC: it is a fact about data.

## 5. What is not modelled

* PHY: the transmit power and supported-channels attributes; energy levels and
  error rates are choices.
* CSMA-CA: the setters of the slot length, the retry limit and battery life
  extension, which are constants of the module.
* MAC: promiscuous mode, users that leave a callback unset, the traces. One node
  (`LrWpanMac`): requests that are malformed (mUnder_lr-wpan-mac.cc 328-378 and
  464-533), which are confirmed with their error at once and queue nothing;
  `RouteOverLink` has them (`McpsDataRequestFails`).
* Simulations: placement of the nodes, timings and traces. All devices hear each
  other. Floods in the big mesh are beyond TLC; `FloodOnce` is proved for it.
* Sensor node: the state resource, which writes a constant before it reads it,
  and the board name.
* ThingWorx: two polls at once, a restart of the server (its properties are
  persistent), the fields that are constants; the user interface, the data
  shapes and the report scripts, which only lay out or format.
* Command line: exit and logfilename (POSIX builds), instance (DLL), the state
  change handler, which prints; lines of more words than `currentArgv` holds;
  `prefix add` and `prefix remove` without an argument; what is printed before a result line; `logging.c`.
* RIOT: the other shell commands, vendored argument parsing around modules that
  are not in the repository; the parsing and the statistics of ping.
* Current logger and spectrum scanner: sequential loops around hardware reads.
* Build files and configuration.

## 6. Running it

    tlc -config MCLrWpanPhy.cfg MCLrWpanPhy
    tlc -config MCCsmaCaSystem.cfg MCCsmaCaSystem
    tlc -config MCLrWpanMac.cfg MCLrWpanMac          # also ...Live, ...Queue, ...Cancel
    tlc -config MCRouteOverLink.cfg MCRouteOverLink
    tlc -config MCPingNetwork.cfg MCPingNetwork
    tlc -config MCValveTotals.cfg MCValveTotals      # also ...All
    tlc -config MCCli.cfg MCCli
    tlc -config MCIcmpv6Ping.cfg MCIcmpv6Ping
    tlapm M.tla        # for each of the modules ...Proofs
