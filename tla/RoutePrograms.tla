---------------------------- MODULE RoutePrograms ----------------------------
(***************************************************************************)
(* The four route-over simulations: the static IPv6 routes each program    *)
(* installs, in its order, and who pings whom.  A node is named by its     *)
(* index in deviceInterfaces.                                              *)
(***************************************************************************)
EXTENDS Integers, SequencesExt

RouteNames == {"route line", "route line of seven", "route triangle", "route big"}

\* The addresses are distinct; from device 15 on they do not follow the index.
RouteAddress == [d \in 0..82 |-> IF d < 15 THEN d + 1 ELSE IF d < 23 THEN d + 17 ELSE d + 18]

\* AddHostRouteTo (address of dst, address of via, ...)
Host(d, dst, via, metric) ==
    [dev |-> d, len |-> 128, dst |-> RouteAddress[dst], via |-> RouteAddress[via], metric |-> metric]
\* SetDefaultRoute (address of via, ...)
Default(d, via, metric) ==
    [dev |-> d, len |-> 0, dst |-> RouteAddress[d], via |-> RouteAddress[via], metric |-> metric]

\* deviceInterfaces.SetDefaultRouteInAllNodes (0), which all of them begin with.
DefaultRouteInAllNodes(n) == [d \in 1..(n - 1) |-> Default(d, 0, 0)]

RouteLine ==
    DefaultRouteInAllNodes(3) \o
    <<Host(0, 2, 1, 1), Host(1, 2, 2, 2), Host(1, 0, 0, 0), Host(2, 1, 1, 0), Host(2, 0, 1, 1)>>

RouteTriangle ==
    DefaultRouteInAllNodes(4) \o
    <<Host(0, 3, 1, 1), Host(1, 3, 2, 2), Host(1, 0, 0, 0),
      Host(2, 3, 3, 0), Host(2, 1, 1, 0), Host(2, 0, 1, 1)>>

Through(d, via, dsts) == [k \in 1..Len(dsts) |-> Host(d, dsts[k], via, 1)]

RouteLine7 ==
    DefaultRouteInAllNodes(7)
    \o Through(0, 1, <<4, 3, 2, 1, 6>>)
    \o <<Host(1, 4, 2, 2), Host(1, 3, 2, 2), Host(1, 2, 2, 2), Host(1, 0, 0, 0), Host(1, 6, 2, 1)>>
    \o <<Host(2, 1, 1, 0), Host(2, 0, 1, 1)>> \o Through(2, 3, <<4, 3, 6>>)
    \o Through(3, 4, <<4>>) \o Through(3, 2, <<0, 1, 2>>) \o Through(3, 4, <<6>>)
    \o Through(4, 3, <<0, 1, 2, 3>>) \o Through(4, 5, <<6>>)
    \o Through(5, 4, <<0, 1, 2, 3, 4>>) \o Through(5, 6, <<6>>)
    \o Through(6, 5, <<0, 1, 2, 3, 4, 5>>)

\* A cluster of 13: head f, leaves f + 1 .. f + 12.
Cluster(f) ==
    <<Default(f, 0, 1)>> \o
    FlattenSeq([k \in 1..12 |-> <<Default(f + k, f, 1), Host(0, f + k, f, 1), Host(f, f + k, f + k, 1)>>])

RouteBig ==
    DefaultRouteInAllNodes(83)
    \o FlattenSeq([k \in 1..6 |-> Cluster(13 * (k - 1) + 1)])
    \o <<Default(78, 0, 1)>>
    \o FlattenSeq([k \in 1..4 |-> <<Host(78, 78 + k, 78 + k, 1), Default(78 + k, 78, 1)>>])

RouteOps(name) ==
    CASE name = "route line" -> RouteLine
      [] name = "route line of seven" -> RouteLine7
      [] name = "route triangle" -> RouteTriangle
      [] name = "route big" -> RouteBig

RouteNodes(name) ==
    CASE name = "route line" -> 0..2
      [] name = "route line of seven" -> 0..6
      [] name = "route triangle" -> 0..3
      [] name = "route big" -> 0..82

RouteBigPings ==
    ((2..13) \cup (15..26) \cup (28..39) \cup (41..52) \cup (54..66) \cup (66..77) \cup (79..82))
    \X {0}

RoutePings(name) ==
    CASE name = "route line" -> {<<0, 2>>}
      [] name = "route line of seven" -> {<<0, 2>>}
      [] name = "route triangle" -> {<<0, 3>>, <<1, 3>>}
      [] name = "route big" -> RouteBigPings
===============================================================================
