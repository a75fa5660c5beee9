---------------------------- MODULE MeshForwarding ----------------------------
(***************************************************************************)
(* How mesh-under devices use their tables: PdDataIndication and           *)
(* McpsDataRequest of mUnder_lr-wpan-mac.cc as far as the next hop of a    *)
(* frame goes.  A broadcast is relayed by every device that hears it from  *)
(* its own next hop towards the origin; there is no duplicate detection    *)
(* but that rule.  What the channel does to a frame is LrWpanMac's         *)
(* subject: here a device hears a transmission or does not, and a relayed  *)
(* frame waits in the MAC's queue for any time.                            *)
(***************************************************************************)
EXTENDS MeshTables

CONSTANTS
    Addr,               \* the short address of each device
    NoDevice            \* no broadcast was sent yet

ASSUME AddrAssumption ==
    /\ Addr \in [Devices -> Addresses]
    /\ \A d, e \in Devices : Addr[d] = Addr[e] => d = e
    /\ NoDevice \notin Devices

VARIABLES
    origin,             \* who sent the broadcast, or NoDevice
    toSend,             \* how often a device has it queued
    sent,               \* how often a device has transmitted it
    accepted,           \* how often a device has passed it up
    missed              \* history: some device did not hear a transmission

floodVars == <<origin, toSend, sent, accepted, missed>>
Nowhere   == [d \in Devices |-> 0]

FloodInit ==
    /\ origin = NoDevice /\ missed = FALSE
    /\ toSend = Nowhere /\ sent = Nowhere /\ accepted = Nowhere

\* McpsDataRequest of a broadcast by the device itself.
Broadcast(d) ==
    /\ origin = NoDevice
    /\ origin' = d /\ toSend' = [toSend EXCEPT ![d] = 1]
    /\ UNCHANGED <<sent, accepted, missed, tableVars>>

AcceptsSlip(r, from) == r # origin
AcceptsDirect(r, from) == from = origin /\ nextHop[r][Addr[origin]] = Addr[from] /\ r # origin

\* The frame names its origin and, in the PAN field, the device it was last sent by.
Accepts(r, from) == nextHop[r][Addr[origin]] = Addr[from] /\ r # origin

\* The frame goes on the air; those of the hearers that accept it pass it up and queue a
\* copy with their own address in the PAN field.
Transmit(t, hearers) ==
    LET now(r) == IF r \in hearers /\ r # t /\ Accepts(r, t) THEN 1 ELSE 0
    IN  /\ toSend[t] > 0
        /\ sent' = [sent EXCEPT ![t] = @ + 1]
        /\ accepted' = [r \in Devices |-> accepted[r] + now(r)]
        /\ toSend' = [r \in Devices |-> IF r = t THEN toSend[r] - 1 ELSE toSend[r] + now(r)]
        /\ missed' = (missed \/ \E r \in Devices : r # t /\ Accepts(r, t) /\ r \notin hearers)
        /\ UNCHANGED <<origin, tableVars>>

MeshInit == TablesInit /\ FloodInit

\* The simulations fill the tables before anything is sent.
MeshNext ==
    \/ origin = NoDevice /\ TablesNext /\ UNCHANGED floodVars
    \/ \E d \in Devices : Broadcast(d)
    \/ \E t \in Devices, hearers \in SUBSET Devices : Transmit(t, hearers)

meshVars == <<tableVars, floodVars>>
MeshSpec == MeshInit /\ [][MeshNext]_meshVars

-----------------------------------------------------------------------------
FloodTypeOK ==
    /\ origin \in Devices \cup {NoDevice}
    /\ toSend \in [Devices -> Nat] /\ sent \in [Devices -> Nat] /\ accepted \in [Devices -> Nat]
    /\ missed \in BOOLEAN

\* A broadcast is passed up and relayed at most once by every device, and never by its
\* origin, whatever the tables say and whoever hears which transmission.
FloodOnce ==
    \A d \in Devices :
        /\ accepted[d] <= 1 /\ sent[d] + toSend[d] <= 1
        /\ d = origin => accepted[d] = 0

\* Why: a device accepts only the copies of one device, which sends only what it has
\* accepted itself.
FloodInv ==
    /\ origin = NoDevice => toSend = Nowhere /\ sent = Nowhere /\ accepted = Nowhere
    /\ origin # NoDevice =>
         /\ sent[origin] + toSend[origin] = 1 /\ accepted[origin] = 0
         /\ \A d \in Devices \ {origin} :
              /\ accepted[d] = sent[d] + toSend[d]
              /\ accepted[d] > 0 => \E f \in Devices :
                    nextHop[d][Addr[origin]] = Addr[f] /\ accepted[d] <= sent[f]
===============================================================================
