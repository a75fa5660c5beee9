----------------------------- MODULE MeshPrograms -----------------------------
(***************************************************************************)
(* The four mesh-under simulations: which devices there are, in which      *)
(* order each program writes their tables, and who pings whom.  Device d   *)
(* has the address d + 1 in all of them; the last device of the big model  *)
(* is never given one and keeps 00:00.                                     *)
(***************************************************************************)
EXTENDS Integers, SequencesExt

MeshNames == {"mesh line", "mesh line of seven", "mesh triangle", "mesh big"}

LastDevice == 84
ShortAddress == [d \in 0..LastDevice |-> IF d = LastDevice THEN 0 ELSE d + 1]

\* dev[d]->GetMac ()->SetMeshParentAddress (address of p)
Parent(d, p) == [op |-> "parent", dev |-> d, hop |-> ShortAddress[p], index |-> 0]
\* dev[d]->GetMac ()->SetNextHopForIndex (address of h, i)
NextHop(d, h, i) == [op |-> "next", dev |-> d, hop |-> ShortAddress[h], index |-> i]

\* A line of n: towards i through the neighbour on that side, and to itself directly.
Toward(d, i) == IF i < d + 1 THEN d - 1 ELSE IF i > d + 1 THEN d + 1 ELSE d
LineHops(n) ==
    [k \in 1..(n * n) |-> LET d == (k - 1) \div n
                              i == ((k - 1) % n) + 1
                          IN  NextHop(d, Toward(d, i), i)]

MeshLine ==
    <<Parent(0, 1), Parent(1, 2), Parent(2, 1)>> \o LineHops(3)

MeshLine7 ==
    <<Parent(0, 1), Parent(1, 2), Parent(2, 3), Parent(3, 4), Parent(4, 3)>>
    \o LineHops(7)

\* Devices 0, 1 and 3 around the relay, device 2; only the relay reaches the others.
MeshTriangle ==
    [d \in 1..4 |-> Parent(d - 1, 2)] \o
    [k \in 1..16 |-> LET d == (k - 1) \div 4
                         i == ((k - 1) % 4) + 1
                     IN  NextHop(d, IF i = d + 1 \/ d = 2 THEN i - 1 ELSE 2, i)]

\* A cluster of the big model: its head f next to the root, and its leaves.
HeadOf(f) == <<NextHop(0, f, f + 1), Parent(f, 0)>>
LeafSlip(f, c) ==
    <<NextHop(0, f, c + 1), NextHop(f, c, c + 1), NextHop(c, f, 0), NextHop(c, f, f + 1)>>
Leaf(f, c) == <<NextHop(0, f, c + 1), NextHop(f, c, c + 1), NextHop(c, f, 1), NextHop(c, f, f + 1)>>
Leaves(f, cs) == FlattenSeq([k \in 1..Len(cs) |-> Leaf(f, cs[k])])
UpTo(a, b) == [k \in 1..(b - a + 1) |-> a + k - 1]

ClusterG == HeadOf(1) \o <<NextHop(0, 1, 3)>> \o Leaves(1, UpTo(2, 13))
ClusterI == HeadOf(14) \o Leaves(14, UpTo(15, 26))
ClusterK == HeadOf(27) \o Leaves(27, UpTo(28, 39))
ClusterQ == HeadOf(40) \o Leaves(40, UpTo(41, 52))

\* The last two blocks of R are one device off: they set up 65 and 66, not 64 and 65.
ClusterR ==
    HeadOf(53) \o Leaves(53, UpTo(54, 63))
    \o <<NextHop(0, 53, 65), NextHop(53, 65, 65), NextHop(65, 53, 1), NextHop(65, 53, 54)>>
    \o <<NextHop(0, 53, 66), NextHop(53, 66, 66), NextHop(66, 53, 1), NextHop(66, 53, 54)>>

\* T mixes its head, 67, with 65, and gives the last three leaves a parent instead of the
\* entry for the head.
ClusterT ==
    HeadOf(67)
    \o <<NextHop(0, 67, 67), NextHop(67, 66, 67), NextHop(66, 67, 1), NextHop(66, 67, 66)>>
    \o <<NextHop(0, 65, 68), NextHop(65, 67, 68), NextHop(67, 65, 1), NextHop(67, 65, 66)>>
    \o Leaves(65, UpTo(68, 74))
    \o FlattenSeq([k \in 1..3 |-> LET c == 74 + k IN
           <<NextHop(0, 65, c + 1), NextHop(65, c, c + 1), NextHop(c, 65, 1), Parent(c, 65)>>])

\* The second root; its loop uses the leaf's number where the others use its address.
SecondRoot ==
    <<Parent(78, 0), Parent(0, 78)>>
    \o FlattenSeq([k \in 1..4 |-> <<NextHop(78, 78 + k, 78 + k), Parent(78 + k, 78)>>])

MeshOps(name) ==
    CASE name = "mesh line" -> MeshLine
      [] name = "mesh line of seven" -> MeshLine7
      [] name = "mesh triangle" -> MeshTriangle
      [] name = "mesh big" ->
            ClusterG \o ClusterI \o ClusterK \o ClusterQ \o ClusterR \o ClusterT \o SecondRoot

MeshNodes(name) ==
    CASE name = "mesh line" -> 0..2
      [] name = "mesh line of seven" -> 0..6
      [] name = "mesh triangle" -> 0..3
      [] name = "mesh big" -> 0..LastDevice

\* The Ping6 applications of the big models: every leaf to the root.
BigPings ==
    ((2..13) \cup (15..26) \cup (28..39) \cup (41..52) \cup (54..66) \cup (66..77) \cup (79..82))
    \X {0}

MeshPings(name) ==
    CASE name = "mesh line" -> {<<0, 2>>}
      [] name = "mesh line of seven" -> {<<0, 1>>}
      [] name = "mesh triangle" -> {<<0, 3>>, <<1, 3>>}
      [] name = "mesh big" -> BigPings
===============================================================================
