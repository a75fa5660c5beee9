--------------------------- MODULE Icmpv6PingProofs ---------------------------
(***************************************************************************)
(* A ping counts its own replies only, for any counts, sequence numbers    *)
(* and queue, as long as no identifier comes round again.                  *)
(***************************************************************************)
EXTENDS Icmpv6Ping, SequenceTheorems, TLAPS

Messages == [type : {"RCV", "other"}, ping : Nat, id : Nat, seq : Nat]

(* A reply belongs to this ping or carries an identifier of the past.      *)
Known(reply, state, ident, number) ==
    /\ state # "idle" => reply.id <= ident /\ (reply.id = ident => reply.ping = number)
    /\ state = "idle" /\ number < MaxPings => reply.id < ident

PingInv ==
    /\ pings \in 0 .. MaxPings /\ id \in Nat /\ max_seq_expected \in Nat
    /\ queue \in Seq(Messages) /\ replies \subseteq Messages
    /\ registered => pc # "idle"
    /\ pc # "idle" => id < pings
    /\ pc = "idle" /\ pings < MaxPings => id <= pings
    /\ \A reply \in replies : Known(reply, pc, id, pings)
    /\ \A k \in 1 .. Len(queue) : queue[k].type = "RCV" => pc # "idle" /\ Known(queue[k], pc, id, pings)
    /\ \A reply \in counted : reply.ping = pings

LEMMA Constants ==
    /\ MaxPings \in Nat /\ SeqModulus \in Nat \ {0} /\ IdModulus \in Nat \ {0}
BY PingAssumption DEF PingAssumption

LEMMA InitPing == Init => PingInv
BY Constants DEF Init, PingInv, Messages, Known

LEMMA PingStep ==
    ASSUME PingInv, NEW count \in Counts, Ping(count)
    PROVE  PingInv'
<1>1. pc = "idle" /\ pings < MaxPings /\ pings' = pings + 1 /\ UNCHANGED <<statics, queue, replies>>
  BY DEF Ping
<1>2. /\ pings' \in 0 .. MaxPings /\ id' = id /\ id < pings' /\ queue' = queue /\ replies' = replies
      /\ max_seq_expected' = max_seq_expected /\ counted' = {}
      /\ \A k \in 1 .. Len(queue) : queue[k].type # "RCV"
      /\ \A reply \in replies : reply.id < id /\ reply.id \in Nat /\ id \in Nat
  BY <1>1, Constants DEF Ping, PingInv, Known, statics, Messages
<1>3. \A reply \in replies' : Known(reply, pc', id', pings')
  BY <1>2 DEF Known
<1>4. registered' => pc' # "idle"
  BY <1>1 DEF Ping, PingInv
<1> QED
  BY <1>2, <1>3, <1>4, Constants DEF PingInv

LEMMA SendStep ==
    ASSUME PingInv, NEW sent \in BOOLEAN, NEW answered \in BOOLEAN, Send(sent, answered)
    PROVE  PingInv'
<1>1. /\ pc = "send" /\ pc' \in {"send", "wait"}
      /\ id' = id /\ UNCHANGED <<pings, queue, counted, registered>>
      /\ max_seq_expected' = (max_seq_expected + 1) % SeqModulus
  BY DEF Send
<1>2. max_seq_expected' \in Nat
  BY <1>1, Constants DEF PingInv
<1>3. replies' = replies \/ replies' = replies \cup {ReplyTo(max_seq_expected')}
  BY DEF Send
<1>4. /\ ReplyTo(max_seq_expected') \in Messages
      /\ ReplyTo(max_seq_expected').id = id /\ ReplyTo(max_seq_expected').ping = pings
  BY <1>2, Constants DEF ReplyTo, Messages, PingInv
<1>5. \A reply \in replies' : reply \in Messages /\ Known(reply, pc', id', pings')
  BY <1>1, <1>3, <1>4 DEF PingInv, Known, Messages
<1>6. \A k \in 1 .. Len(queue) : queue[k].type = "RCV" => Known(queue[k], pc', id', pings')
  BY <1>1 DEF PingInv, Known
<1> QED
  BY <1>1, <1>2, <1>5, <1>6 DEF PingInv

LEMMA ReceiveStep ==
    ASSUME PingInv, Receive
    PROVE  PingInv'
<1>1. /\ pc = "wait" /\ pc' = "drain" /\ queue # <<>>
      /\ UNCHANGED <<id, max_seq_expected, registered, replies, pings>>
  BY DEF Receive
<1>2. queue \in Seq(Messages) /\ Head(queue) = queue[1] /\ 1 \in 1 .. Len(queue) /\ queue[1] \in Messages
  BY <1>1 DEF PingInv
<1>3. queue' \in Seq(Messages)
      /\ \A k \in 1 .. Len(queue') : \E j \in 1 .. Len(queue) : queue'[k] = queue[j]
  <2>1. /\ Tail(queue) \in Seq(Messages) /\ Len(Tail(queue)) = Len(queue) - 1
        /\ \A k \in 1 .. Len(Tail(queue)) : Tail(queue)[k] = queue[k + 1]
    BY <1>1, <1>2, HeadTailProperties
  <2>2. \A k \in 1 .. Len(Tail(queue)) : k + 1 \in 1 .. Len(queue)
    BY <1>2, <2>1
  <2>3. CASE queue' = Tail(queue)
    BY <2>1, <2>2, <2>3
  <2>4. CASE queue' = Append(Tail(queue), Head(queue))
    <3>1. /\ queue' \in Seq(Messages) /\ Len(queue') = Len(Tail(queue)) + 1
          /\ \A k \in 1 .. Len(Tail(queue)) : queue'[k] = Tail(queue)[k]
          /\ queue'[Len(Tail(queue)) + 1] = queue[1]
      BY <1>2, <2>1, <2>4, AppendProperties
    <3>2. ASSUME NEW k \in 1 .. Len(queue') PROVE \E j \in 1 .. Len(queue) : queue'[k] = queue[j]
      <4>1. CASE k = Len(Tail(queue)) + 1
        BY <1>2, <3>1, <4>1
      <4>2. CASE k \in 1 .. Len(Tail(queue))
        BY <2>1, <2>2, <3>1, <4>2
      <4> QED
        BY <2>1, <3>1, <4>1, <4>2
    <3> QED
      BY <3>1, <3>2
  <2> QED
    BY <2>3, <2>4 DEF Receive
<1>4. \A k \in 1 .. Len(queue') : queue'[k].type = "RCV" => Known(queue'[k], pc', id', pings')
  BY <1>1, <1>3 DEF PingInv, Known
<1>5. \A reply \in replies : Known(reply, pc', id', pings')
  BY <1>1 DEF PingInv, Known
<1>6. \A reply \in counted' : reply.ping = pings
  <2>1. CASE counted' = counted
    BY <2>1 DEF PingInv
  <2>2. CASE counted' = counted \cup {queue[1]} /\ queue[1].id = id /\ queue[1].type = "RCV"
    BY <1>1, <1>2, <2>2 DEF PingInv, Known
  <2> QED
    BY <1>2, <2>1, <2>2 DEF Receive, HandleReply
<1> QED
  BY <1>1, <1>3, <1>4, <1>5, <1>6 DEF PingInv

LEMMA EndStep ==
    ASSUME MaxPings <= IdModulus, PingInv, End
    PROVE  PingInv'
<1>1. /\ pc = "send" /\ pc' = "idle" /\ queue' = <<>> /\ registered' = FALSE
      /\ max_seq_expected' = 0 /\ id' = (id + 1) % IdModulus
      /\ UNCHANGED <<pings, replies, counted>>
  BY DEF End
<1>2. id < pings /\ id \in Nat /\ pings \in 0 .. MaxPings /\ id' \in Nat
  BY <1>1, Constants DEF PingInv
<1>3. pings < MaxPings => id' = id + 1
  BY <1>1, <1>2, Constants
<1>4. \A reply \in replies : reply.id \in Nat /\ reply.id <= id
  BY <1>1 DEF PingInv, Known, Messages
<1>5. \A reply \in replies : Known(reply, pc', id', pings')
  BY <1>1, <1>2, <1>3, <1>4 DEF Known
<1> QED
  BY <1>1, <1>2, <1>3, <1>5, Constants DEF PingInv

(* The steps that neither send nor count.                                  *)
LEMMA OtherStep ==
    ASSUME PingInv, UNCHANGED <<id, max_seq_expected, pings, counted, registered>>,
           pc' = pc \/ (pc # "idle" /\ pc' # "idle"),
           replies' \subseteq replies, queue' \in Seq(Messages),
           \A k \in 1 .. Len(queue') : queue'[k].type = "RCV" =>
              pc # "idle" /\ (queue'[k] \in replies \/ \E j \in 1 .. Len(queue) : queue'[k] = queue[j])
    PROVE  PingInv'
<1>1. \A reply \in replies : Known(reply, pc', id', pings')
  BY DEF PingInv, Known
<1>2. \A k \in 1 .. Len(queue) : queue[k].type = "RCV" => Known(queue[k], pc', id', pings')
  BY DEF PingInv, Known
<1> QED
  BY <1>1, <1>2 DEF PingInv

LEMMA Joined ==
    ASSUME PingInv, NEW m \in Messages, queue' = Append(queue, m)
    PROVE  queue' \in Seq(Messages)
           /\ \A k \in 1 .. Len(queue') : queue'[k] = m \/ \E j \in 1 .. Len(queue) : queue'[k] = queue[j]
<1>1. /\ queue \in Seq(Messages) /\ queue' \in Seq(Messages) /\ Len(queue') = Len(queue) + 1
      /\ \A k \in 1 .. Len(queue) : queue'[k] = queue[k]
      /\ queue'[Len(queue) + 1] = m
  BY AppendProperties DEF PingInv
<1>2. \A k \in 1 .. Len(queue') : k = Len(queue) + 1 \/ k \in 1 .. Len(queue)
  BY <1>1
<1> QED
  BY <1>1, <1>2

LEMMA StepPing ==
    ASSUME MaxPings <= IdModulus, PingInv, [Next]_vars
    PROVE  PingInv'
<1> USE DEF statics
<1>1. CASE Timeout \/ Wake \/ UNCHANGED vars
  <2>1. queue' = queue /\ queue' \in Seq(Messages)
    BY <1>1 DEF Timeout, Wake, vars, PingInv
  <2>2. UNCHANGED <<id, max_seq_expected, pings, counted, registered, replies>>
        /\ (pc' = pc \/ (pc # "idle" /\ pc' # "idle"))
    BY <1>1 DEF Timeout, Wake, vars
  <2>3. \A k \in 1 .. Len(queue) : queue[k].type = "RCV" => pc # "idle"
    BY DEF PingInv
  <2> QED
    BY <2>1, <2>2, <2>3, OtherStep
<1>2. CASE Drain
  <2>1. /\ queue' = <<>> /\ queue' \in Seq(Messages) /\ pc # "idle" /\ pc' # "idle"
        /\ UNCHANGED <<id, max_seq_expected, pings, counted, registered, replies>>
    BY <1>2 DEF Drain
  <2> QED
    BY <2>1, OtherStep
<1>3. ASSUME NEW reply \in replies, NEW doubled \in BOOLEAN, Deliver(reply, doubled)
      PROVE  PingInv'
  <2>1. /\ replies' \subseteq replies /\ reply \in Messages
        /\ UNCHANGED <<pc, id, max_seq_expected, pings, counted, registered>>
    BY <1>3 DEF Deliver, PingInv
  <2>2. CASE queue' = queue
    BY <2>1, <2>2, OtherStep DEF PingInv
  <2>3. CASE registered /\ queue' = Append(queue, reply)
    <3>1. pc # "idle"
      BY <2>3 DEF PingInv
    <3> QED
      BY <2>1, <2>3, <3>1, Joined, OtherStep
  <2> QED
    BY <1>3, <2>2, <2>3 DEF Deliver
<1>4. CASE Message
  <2>1. /\ queue' = Append(queue, Other) /\ Other \in Messages /\ Other.type = "other"
        /\ UNCHANGED <<pc, id, max_seq_expected, pings, counted, registered, replies>>
    BY <1>4 DEF Message, Other, Messages
  <2>2. queue' \in Seq(Messages)
        /\ \A k \in 1 .. Len(queue') : queue'[k] = Other \/ \E j \in 1 .. Len(queue) : queue'[k] = queue[j]
    BY <2>1, Joined
  <2>3. \A k \in 1 .. Len(queue) : queue[k].type = "RCV" => pc # "idle"
    BY DEF PingInv
  <2> QED
    BY <2>1, <2>2, <2>3, OtherStep
<1> QED
  BY <1>1, <1>2, <1>3, <1>4, PingStep, SendStep, ReceiveStep, EndStep DEF Next, Loop

(* The replies that _handle_reply counts answer requests of the ping that  *)
(* runs, and none is left in the queue for the next one, if there are at   *)
(* least as many identifiers as pings.                                     *)
THEOREM CountsOwn ==
    ASSUME MaxPings <= IdModulus
    PROVE  Spec => []CountedIsOwn
<1>1. PingInv => CountedIsOwn
  BY DEF PingInv, CountedIsOwn
<1>2. PingInv /\ [Next]_vars => PingInv'
  BY StepPing
<1> QED
  BY <1>1, <1>2, InitPing, PTL DEF Spec
===============================================================================
