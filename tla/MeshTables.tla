------------------------------ MODULE MeshTables ------------------------------
(***************************************************************************)
(* The mesh-under forwarding tables of the devices: the members that       *)
(* mUnder_lr-wpan-mac.cc adds to LrWpanMac and the functions that write    *)
(* them, lines 172-231.  A device has a parent, a next hop for each final  *)
(* address, and six neighbour entries, of which the unused ones hold the   *)
(* parent: the walk of SetNextHopForIndex has no other end than meeting it.*)
(***************************************************************************)
EXTENDS Integers, FiniteSetsExt

CONSTANTS
    Devices,            \* the LrWpanNetDevices of a simulation
    Addresses,          \* the 16-bit addresses in use
    Unset,              \* 00:00, what Mac16Address () makes
    BroadcastAddress    \* ff:ff

\* ff:ff cannot be a parent: the walk of SetNextHopForIndex starts with it as the address
\* last seen, so it would end before the first entry.
ASSUME TablesAssumption == Unset \in Addresses /\ BroadcastAddress \notin Addresses

VARIABLES
    meshParent,         \* m_MeshParentAddress
    nextHop,            \* m_nextMeshHopAddr
    neighbour           \* m_neighbourAddr

tableVars == <<meshParent, nextHop, neighbour>>

Indexes == 0..99
Entries == 0..5
LastEntry == 5

TablesInit ==
    /\ meshParent = [d \in Devices |-> Unset]
    /\ nextHop = [d \in Devices |-> [i \in Indexes |-> Unset]]
    /\ neighbour = [d \in Devices |-> [e \in Entries |-> Unset]]

Replaced(table, old, new) ==
    [x \in DOMAIN table |-> IF table[x] = old THEN new ELSE table[x]]

SetMeshParentAddressSlip(d, a) ==
    /\ meshParent' = [meshParent EXCEPT ![d] = a]
    /\ nextHop' = [nextHop EXCEPT ![d] = Replaced(@, meshParent[d], a)]
    /\ neighbour' = [neighbour EXCEPT ![d] =
           [Replaced(@, meshParent[d], a) EXCEPT ![LastEntry] = neighbour[d][LastEntry]]]

SetMeshParentAddress(d, a) ==
    /\ meshParent' = [meshParent EXCEPT ![d] = a]
    /\ nextHop' = [nextHop EXCEPT ![d] = Replaced(@, meshParent[d], a)]
    /\ neighbour' = [neighbour EXCEPT ![d] = Replaced(@, meshParent[d], a)]

\* The walk over the neighbours ends at the new hop, at the one it replaces, or at the
\* parent: a free entry, except that the last one stays the parent's.
WalkEnd(d, h, i) ==
    Min({e \in Entries : neighbour[d][e] \in {meshParent[d], nextHop[d][i], h}})

SetNextHopForIndexSlip(d, h, i) ==
    /\ nextHop' = [nextHop EXCEPT ![d] = Replaced(@, nextHop[d][i], h)]
    /\ UNCHANGED <<meshParent, neighbour>>

SetNextHopForIndex(d, h, i) ==
    /\ nextHop' = [nextHop EXCEPT ![d][i] = h]
    /\ neighbour' = IF WalkEnd(d, h, i) = LastEntry
                    THEN neighbour
                    ELSE [neighbour EXCEPT ![d][WalkEnd(d, h, i)] = h]
    /\ UNCHANGED meshParent

PurgeNeighbourList(d) ==
    /\ neighbour' = [neighbour EXCEPT ![d] = [e \in Entries |-> meshParent[d]]]
    /\ UNCHANGED <<meshParent, nextHop>>

TablesNext ==
    \E d \in Devices :
        \/ \E a \in Addresses : SetMeshParentAddress(d, a)
        \/ \E h \in Addresses, i \in Indexes : SetNextHopForIndex(d, h, i)
        \/ PurgeNeighbourList(d)

-----------------------------------------------------------------------------
TablesTypeOK ==
    /\ meshParent \in [Devices -> Addresses]
    /\ nextHop \in [Devices -> [Indexes -> Addresses]]
    /\ neighbour \in [Devices -> [Entries -> Addresses]]

\* The last neighbour entry always holds the parent's address, so the walk of
\* SetNextHopForIndex over m_neighbourAddr ends inside the array, whatever parents and
\* next hops were set and replaced before.
LastNeighbourIsParent == \A d \in Devices : neighbour[d][LastEntry] = meshParent[d]
===============================================================================
