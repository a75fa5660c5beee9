------------------------------- MODULE Ns3Event -------------------------------
(***************************************************************************)
(* A timer of the ns-3 scheduler as the lr-wpan classes use it: an EventId *)
(* member that is overwritten by the next Schedule, and can only cancel    *)
(* the event it refers to.  cur says whether that event is still to run;   *)
(* old counts the events the member referred to earlier and which will run *)
(* all the same.                                                           *)
(***************************************************************************)
EXTENDS Naturals

Events  == [cur : BOOLEAN, old : Nat]
NoEvent == [cur |-> FALSE, old |-> 0]

\* m_event = Simulator::Schedule (...)
Schedule(e) == [cur |-> TRUE, old |-> e.old + (IF e.cur THEN 1 ELSE 0)]

\* m_event.Cancel ()
CancelEvent(e) == [cur |-> FALSE, old |-> e.old]

\* The simulator runs one of the scheduled events.
Fire(e) == {x \in {[cur |-> FALSE, old |-> e.old]} : e.cur}
           \cup {x \in {[cur |-> e.cur, old |-> e.old - 1]} : e.old > 0}

Scheduled(e) == e.cur \/ e.old > 0
===============================================================================
