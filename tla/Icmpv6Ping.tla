------------------------------ MODULE Icmpv6Ping ------------------------------
(***************************************************************************)
(* The RIOT shell's ping (sc_icmpv6_echo.c).  The thread sends a request,  *)
(* waits for one message, discards the others and goes on.  The identifier *)
(* and the window of sequence numbers outlive a call.  Replies are lost,   *)
(* late and doubled, and other threads send the shell messages too.        *)
(***************************************************************************)
EXTENDS Integers, Sequences

CONSTANTS
    Counts,          \* requests a ping may be asked for
    SeqModulus,      \* the sequence numbers and
    IdModulus,       \* the identifier are 16-bit counters
    QueueSize,       \* of the thread's message queue
    MaxPings,        \* bounds: pings,
    MaxMessages      \*   messages of other threads

ASSUME PingAssumption ==
    /\ Counts \subseteq Nat \ {0}
    /\ SeqModulus \in Nat \ {0} /\ IdModulus \in Nat \ {0}
    /\ QueueSize \in Nat /\ MaxPings \in Nat /\ MaxMessages \in Nat

VARIABLES
    pc,                      \* idle, send, wait, drain or sleep
    id, min_seq_expected, max_seq_expected,
    remaining, success,
    registered,              \* my_entry is in the registry
    queue,                   \* the thread's messages
    replies,                 \* on their way
    pings,                   \* history: pings begun
    counted,                 \* history: the replies this ping has counted
    messages                 \* messages of other threads so far

statics == <<id, min_seq_expected, max_seq_expected>>
vars    == <<pc, statics, remaining, success, registered, queue, replies, pings,
             counted, messages>>

Other == [type |-> "other", ping |-> 0, id |-> 0, seq |-> 0]
ReplyTo(seq) == [type |-> "RCV", ping |-> pings, id |-> id, seq |-> seq]

Init ==
    /\ pc = "idle"
    /\ id = 0 /\ min_seq_expected = 0 /\ max_seq_expected = 0
    /\ remaining = 0 /\ success = 0
    /\ registered = FALSE /\ queue = <<>> /\ replies = {}
    /\ pings = 0 /\ counted = {} /\ messages = 0

----------------------------------------------------------------------------
(* The call, up to the loop; it may find the registry full.                *)
Ping(count) ==
    /\ pc = "idle" /\ pings < MaxPings
    /\ pings' = pings + 1
    /\ remaining' = count /\ success' = 0 /\ counted' = {}
    /\ \/ registered' = TRUE /\ pc' = "send"
       \/ UNCHANGED <<registered, pc>>
    /\ UNCHANGED <<statics, queue, replies, messages>>

SendSlip(sent, answered) ==                            \* Slip: tries the same one again
    /\ pc = "send" /\ remaining > 0
    /\ remaining' = IF sent THEN remaining - 1 ELSE remaining
    /\ max_seq_expected' = (max_seq_expected + 1) % SeqModulus
    /\ IF sent
       THEN /\ pc' = "wait"
            /\ replies' = IF answered THEN replies \cup {ReplyTo(max_seq_expected')} ELSE replies
       ELSE ~answered /\ UNCHANGED <<pc, replies>>
    /\ UNCHANGED <<id, min_seq_expected, success, registered, queue, pings, counted, messages>>
(* The head of the loop.  A full packet buffer, or nobody to dispatch the  *)
(* packet to, goes on with the next request at once.                       *)
Send(sent, answered) ==
    /\ pc = "send" /\ remaining > 0
    /\ remaining' = remaining - 1
    /\ max_seq_expected' = (max_seq_expected + 1) % SeqModulus
    /\ IF sent
       THEN /\ pc' = "wait"
            /\ replies' = IF answered THEN replies \cup {ReplyTo(max_seq_expected')} ELSE replies
       ELSE ~answered /\ UNCHANGED <<pc, replies>>
    /\ UNCHANGED <<id, min_seq_expected, success, registered, queue, pings, counted, messages>>

ExpectedSeq(seq) ==
    IF min_seq_expected > max_seq_expected
    THEN seq >= min_seq_expected \/ seq <= max_seq_expected
    ELSE min_seq_expected <= seq /\ seq <= max_seq_expected

HandleReply(reply) ==
    IF reply.id = id /\ ExpectedSeq(reply.seq)
    THEN /\ min_seq_expected' = IF reply.seq <= min_seq_expected
                                THEN (min_seq_expected + 1) % SeqModulus ELSE min_seq_expected
         /\ success' = success + 1
         /\ counted' = counted \cup {reply}
    ELSE UNCHANGED <<min_seq_expected, success, counted>>

(* One message is looked at; one that is no packet is sent to the thread   *)
(* itself, behind the others.                                              *)
Receive ==
    /\ pc = "wait" /\ queue # <<>>
    /\ IF Head(queue).type = "RCV"
       THEN HandleReply(Head(queue)) /\ queue' = Tail(queue)
       ELSE /\ queue' = Append(Tail(queue), Head(queue))
            /\ UNCHANGED <<min_seq_expected, success, counted>>
    /\ pc' = "drain"
    /\ UNCHANGED <<id, max_seq_expected, remaining, registered, replies, pings, messages>>

Timeout ==
    /\ pc = "wait" /\ queue = <<>>
    /\ pc' = "drain"
    /\ UNCHANGED <<statics, remaining, success, registered, queue, replies, pings,
                   counted, messages>>

(* Whatever else is in the queue goes, be it a packet or not.              *)
Drain ==
    /\ pc = "drain"
    /\ queue' = <<>>
    /\ pc' = IF remaining > 0 THEN "sleep" ELSE "send"
    /\ UNCHANGED <<statics, remaining, success, registered, replies, pings, counted, messages>>

Wake ==
    /\ pc = "sleep" /\ pc' = "send"
    /\ UNCHANGED <<statics, remaining, success, registered, queue, replies, pings,
                   counted, messages>>

EndSlip ==                                             \* Slip: id++ is missing
    /\ pc = "send" /\ remaining = 0
    /\ max_seq_expected' = 0
    /\ registered' = FALSE /\ queue' = <<>>
    /\ pc' = "idle"
    /\ UNCHANGED <<id, min_seq_expected, remaining, success, replies, pings, counted, messages>>
(* After the loop: no new messages from the registry, then a last drain.   *)
End ==
    /\ pc = "send" /\ remaining = 0
    /\ max_seq_expected' = 0
    /\ id' = (id + 1) % IdModulus
    /\ registered' = FALSE /\ queue' = <<>>
    /\ pc' = "idle"
    /\ UNCHANGED <<min_seq_expected, remaining, success, replies, pings, counted, messages>>

----------------------------------------------------------------------------
(* The stack gives a reply to whoever is registered; the network may hold  *)
(* another copy of it.                                                     *)
Deliver(reply, doubled) ==
    /\ replies' = IF doubled THEN replies ELSE replies \ {reply}
    /\ queue' = IF registered /\ Len(queue) < QueueSize THEN Append(queue, reply) ELSE queue
    /\ UNCHANGED <<pc, statics, remaining, success, registered, pings, counted, messages>>

Message ==
    /\ messages < MaxMessages /\ Len(queue) < QueueSize
    /\ messages' = messages + 1
    /\ queue' = Append(queue, Other)
    /\ UNCHANGED <<pc, statics, remaining, success, registered, replies, pings, counted>>

Loop ==
    \/ \E sent, answered \in BOOLEAN : Send(sent, answered)
    \/ Receive \/ Timeout \/ Drain \/ Wake \/ End

Next ==
    \/ \E count \in Counts : Ping(count)
    \/ Loop
    \/ \E reply \in replies, doubled \in BOOLEAN : Deliver(reply, doubled)
    \/ Message

Spec     == Init /\ [][Next]_vars
FairSpec == Spec /\ WF_vars(Loop)

----------------------------------------------------------------------------
(* Every reply that counts answers a request of this ping, though those of *)
(* earlier ones still arrive; and no packet stays behind in the queue when *)
(* the ping is over.                                                       *)
CountedIsOwn ==
    /\ \A reply \in counted : reply.ping = pings
    /\ pc = "idle" => \A k \in 1 .. Len(queue) : queue[k].type # "RCV"

(* Every ping comes to its end.                                            *)
PingReturns == pc # "idle" ~> pc = "idle"

(* "requeue wrong packets": while a ping runs, a message for someone else  *)
(* is not lost.  Not kept (README, "Observations").                        *)
WrongPacketsStay ==
    [][pc = "drain" => \A k \in 1 .. Len(queue) : queue[k].type = "other" =>
          \E j \in 1 .. Len(queue') : queue'[j].type = "other"]_vars
=============================================================================
