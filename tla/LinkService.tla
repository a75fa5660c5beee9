----------------------------- MODULE LinkService -----------------------------
(***************************************************************************)
(* What the data service of a MAC promises its user: requests are answered *)
(* in order, one confirm each.  A frame that asks for an acknowledgment    *)
(* can only reach its destination while it is first in line, and at most   *)
(* once per attempt; SUCCESS for it means that a frame with its number     *)
(* that asked for one, too, got through.  A frame that asks for none is    *)
(* confirmed when it is sent and may reach its destination after that, and *)
(* before the next confirm.  A frame that does not fit never gets through. *)
(***************************************************************************)
EXTENDS Naturals, Sequences

CONSTANTS Nodes, Everyone, Frame, MaxAttempts

VARIABLES
    pending,            \* the frames of a node that are not confirmed yet
    delivered,          \* how often a frame was passed up at its destination
    log                 \* the confirms of a node, in order

vars == <<pending, delivered, log>>

Init ==
    /\ pending = [n \in Nodes |-> <<>>] /\ log = [n \in Nodes |-> <<>>]
    /\ delivered = <<>>

Submit(f) ==
    /\ f.id = Len(delivered) + 1 /\ (f.ack => f.dst # Everyone)
    /\ delivered' = Append(delivered, [count |-> 0, frame |-> f])
    /\ pending' = [pending EXCEPT ![f.src] = Append(@, f)]
    /\ UNCHANGED log

\* A malformed request is answered before those that wait.
Refuse(f) ==
    /\ f.id = Len(delivered) + 1
    /\ delivered' = Append(delivered, [count |-> 0, frame |-> f])
    /\ log' = [log EXCEPT ![f.src] = Append(@, [id |-> f.id, status |-> "INVALID"])]
    /\ UNCHANGED pending

\* The first frame of n, which asks for an acknowledgment, reaches its destination.
Reach(n) ==
    /\ pending[n] # <<>>
    /\ LET f == Head(pending[n]) IN
         /\ delivered[f.id].count < MaxAttempts /\ f.ack /\ ~f.long
         /\ delivered' = [delivered EXCEPT ![f.id].count = @ + 1]

\* The frame n was last answered about, which asks for none, reaches its destination.
ReachUnacknowledged(n) ==
    /\ log[n] # <<>>
    /\ LET last == log[n][Len(log[n])]
           sent == delivered[last.id]
       IN  /\ last.status = "SUCCESS"
           /\ sent.count = 0 /\ ~sent.frame.ack /\ sent.frame.dst # Everyone
           /\ delivered' = [delivered EXCEPT ![last.id].count = @ + 1]

\* A frame with this number was acknowledged: this one, or another one with its number.
Acknowledged(f) ==
    \E i \in DOMAIN delivered :
        delivered[i].count > 0 /\ delivered[i].frame.ack /\ delivered[i].frame.dsn = f.dsn

Allowed(f, status) ==
    /\ status = "SUCCESS" => ~f.long /\ (f.ack => Acknowledged(f))
    /\ status = "NO_ACK" => ~f.long /\ f.ack
    /\ status = "FRAME_TOO_LONG" => f.long

Answer(n, status) ==
    /\ pending[n] # <<>> /\ Allowed(Head(pending[n]), status)
    /\ pending' = [pending EXCEPT ![n] = Tail(@)]
    /\ log' = [log EXCEPT ![n] = Append(@, [id |-> Head(pending[n]).id, status |-> status])]

Deliver(n) == (Reach(n) \/ ReachUnacknowledged(n)) /\ UNCHANGED <<pending, log>>
Confirm(n) ==
    /\ \E status \in {"SUCCESS", "NO_ACK", "CHANNEL_ACCESS_FAILURE", "FRAME_TOO_LONG"} : Answer(n, status)
    /\ UNCHANGED delivered

\* A node that receives a frame while it waits for an ACK may give up its own.
DeliverAndGiveUp(n) == Reach(n) /\ \E m \in Nodes \ {n} : Answer(m, "NO_ACK")

Next ==
    \/ \E n \in Nodes : Deliver(n) \/ Confirm(n) \/ DeliverAndGiveUp(n)
    \/ \E f \in Frame : Submit(f) \/ Refuse(f)

Spec == Init /\ [][Next]_vars
===============================================================================
