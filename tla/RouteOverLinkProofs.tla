------------------------- MODULE RouteOverLinkProofs -------------------------
(***************************************************************************)
(* The route-over MACs on their channel implement the data service, for    *)
(* any number of nodes, requests and retries, and any range of sequence    *)
(* numbers.                                                                *)
(***************************************************************************)
EXTENDS RouteOverLink, SequenceTheorems, TLAPS

Dsns   == 0..(DsnModulus - 1)
Acks   == [kind : {"ack"}, dsn : Dsns]
Packet == Frame \cup Acks \cup {NoFrame}
Statuses == {"SUCCESS", "NO_ACK", "CHANNEL_ACCESS_FAILURE", "FRAME_TOO_LONG", "INVALID"}
Confirms == Seq([id : 1..MaxRequests, status : Statuses])

Members ==
    [mac : {"IDLE", "CSMA", "SENDING", "ACK_PENDING"}, queue : Seq(Frame), tx : Packet,
     retr : 0..MaxFrameRetries, next : {"none", "IDLE", "CSMA", "ACK_PENDING", "SendAck"},
     ackDsn : Dsns, timer : BOOLEAN, dsn : Dsns, log : Confirms]

\* m_txPkt is the first frame of the queue.
HasFirst(s) == s.queue # <<>> /\ s.tx = Head(s.queue)

\* Waiting for an ACK, or about to.
Waiting(s) == s.next = "ACK_PENDING" \/ (s.next = "none" /\ s.mac = "ACK_PENDING")

\* What the handlers keep true of a node by themselves.
MacInv(s) ==
    /\ s \in Members
    /\ s.timer <=> Waiting(s)
    /\ s.timer => HasFirst(s) /\ ~s.tx.long /\ s.tx.ack
    /\ s.next = "CSMA" \/ (s.next = "none" /\ s.mac = "CSMA") => HasFirst(s)
    /\ s.next = "none" /\ s.mac = "SENDING" =>
         s.tx # NoFrame /\ (s.tx.kind = "data" => HasFirst(s))
    /\ s.next = "SendAck" => s.mac = "IDLE"

\* How often the first frame of the queue has been sent, at most.
Attempts(s) == s.retr + (IF s.timer THEN 1 ELSE 0)

\* The two things a handler does to the queue.
Kept(s, t) == t.queue = s.queue /\ t.log = s.log /\ Attempts(t) >= Attempts(s)
Answered(s, t, status) ==
    /\ s.queue # <<>> /\ t.queue = Tail(s.queue)
    /\ t.log = Append(s.log, [id |-> Head(s.queue).id, status |-> status])

\* No ACK in t that was not in s.
NoNewAck(s, t) ==
    /\ t.next = "SendAck" => s.next = "SendAck" /\ t.ackDsn = s.ackDsn
    /\ t.tx.kind = "ack" => t.tx = s.tx

-----------------------------------------------------------------------------
\* The handlers, one by one.

LEMMA Bounds == MaxFrameRetries \in Nat /\ MaxRequests \in Nat /\ DsnModulus \in Nat \ {0}
                /\ Everyone \notin Nodes
BY LinkAssumption DEF LinkAssumption

LEMMA HeadIsFrame ==
    ASSUME NEW q \in Seq(Frame), q # <<>>
    PROVE  Head(q) \in Frame /\ Tail(q) \in Seq(Frame)
OBVIOUS

LEMMA CheckQueueInv ==
    ASSUME NEW s, MacInv(s)
    PROVE  MacInv(CheckQueue(s)) /\ Kept(s, CheckQueue(s)) /\ NoNewAck(s, CheckQueue(s))
<1>1. CASE s.mac = "IDLE" /\ s.queue # <<>> /\ s.tx = NoFrame /\ s.next = "none"
  <2> DEFINE t == [s EXCEPT !.tx = Head(s.queue), !.next = "CSMA"]
  <2>1. CheckQueue(s) = t
    BY <1>1 DEF CheckQueue
  <2>2. Head(s.queue) \in Frame
    BY <1>1, HeadIsFrame DEF MacInv, Members
  <2>3. t \in Members /\ t.tx = Head(s.queue) /\ t.next = "CSMA" /\ t.queue = s.queue
        /\ t.timer = s.timer /\ t.mac = s.mac /\ t.log = s.log /\ t.retr = s.retr
    BY <2>2 DEF MacInv, Members, Packet
  <2>4. s.timer = FALSE
    BY <1>1 DEF MacInv, Members, Waiting
  <2>5. MacInv(t)
    BY <1>1, <2>3, <2>4 DEF MacInv, Waiting, HasFirst
  <2>6. Kept(s, t)
    BY <2>3, Bounds DEF Kept, Attempts, MacInv, Members
  <2>7. NoNewAck(s, t)
    BY <2>2, <2>3 DEF NoNewAck, Frame
  <2> QED
    BY <2>1, <2>5, <2>6, <2>7
<1>2. CASE ~(s.mac = "IDLE" /\ s.queue # <<>> /\ s.tx = NoFrame /\ s.next = "none")
  <2>1. CheckQueue(s) = s
    BY <1>2 DEF CheckQueue
  <2> QED
    BY <2>1, Bounds DEF Kept, Attempts, MacInv, Members, NoNewAck
<1> QED
  BY <1>1, <1>2

\* SetLrWpanMacState (MAC_IDLE), with the check of the queue in it.
LEMMA SetIdleInv ==
    ASSUME NEW s \in Members, s.next = "none", s.timer = FALSE
    PROVE  LET t == SetState(s, "IDLE")
           IN  MacInv(t) /\ Kept(s, t) /\ NoNewAck(s, t)
<1> DEFINE r == [s EXCEPT !.mac = "IDLE"]
<1>1. r \in Members /\ r.mac = "IDLE" /\ r.queue = s.queue /\ r.log = s.log /\ r.tx = s.tx
      /\ r.next = s.next /\ r.timer = s.timer /\ r.retr = s.retr /\ r.ackDsn = s.ackDsn
  BY DEF Members
<1>2. MacInv(r)
  BY <1>1 DEF MacInv, Waiting
<1>3. SetState(s, "IDLE") = CheckQueue(r)
  BY DEF SetState
<1>4. MacInv(CheckQueue(r)) /\ Kept(r, CheckQueue(r)) /\ NoNewAck(r, CheckQueue(r))
  BY <1>2, CheckQueueInv
<1> QED
  BY <1>1, <1>3, <1>4 DEF Kept, NoNewAck, Attempts

\* The confirm, and RemoveFirstTxQElement.
LEMMA FinishEffect ==
    ASSUME NEW s \in Members, s.queue # <<>>, NEW status \in Statuses
    PROVE  LET t == Finish(s, status)
           IN  /\ t \in Members /\ Answered(s, t, status)
               /\ t.tx = NoFrame /\ t.retr = 0 /\ t.mac = s.mac /\ t.next = s.next
               /\ t.timer = s.timer /\ t.ackDsn = s.ackDsn
<1> DEFINE c == [id |-> Head(s.queue).id, status |-> status]
           t == Finish(s, status)
<1>1. Head(s.queue) \in Frame /\ Tail(s.queue) \in Seq(Frame)
  BY HeadIsFrame DEF Members
<1>2. c \in [id : 1..MaxRequests, status : Statuses]
  BY <1>1 DEF Frame
<1>3. Append(s.log, c) \in Confirms
  BY <1>2 DEF Members, Confirms
<1>4. t = [s EXCEPT !.log = Append(s.log, c), !.queue = Tail(s.queue), !.tx = NoFrame, !.retr = 0]
  BY DEF Finish, Members
<1>5. NoFrame \in Packet /\ 0 \in 0..MaxFrameRetries
  BY Bounds DEF Packet
<1>6. t \in Members /\ t.log = Append(s.log, c) /\ t.queue = Tail(s.queue) /\ t.tx = NoFrame
      /\ t.retr = 0 /\ t.mac = s.mac /\ t.next = s.next /\ t.timer = s.timer /\ t.ackDsn = s.ackDsn
  BY <1>1, <1>3, <1>4, <1>5 DEF Members
<1> QED
  BY <1>6 DEF Answered

\* PrepareRetransmission, the timer being off.
LEMMA PrepareEffect ==
    ASSUME NEW s \in Members, s.queue # <<>>
    PROVE  LET t == PrepareRetransmission(s)
           IN  /\ t \in Members
               /\ t.mac = s.mac /\ t.next = s.next /\ t.timer = s.timer /\ t.ackDsn = s.ackDsn
               /\ AttemptLeft(s) => t.queue = s.queue /\ t.log = s.log /\ t.tx = s.tx
                                    /\ t.retr = s.retr + 1
               /\ ~AttemptLeft(s) => Answered(s, t, "NO_ACK") /\ t.tx = NoFrame /\ t.retr = 0
<1>1. CASE AttemptLeft(s)
  <2>1. s.retr + 1 \in 0..MaxFrameRetries
    BY <1>1, Bounds DEF AttemptLeft, Members
  <2>2. PrepareRetransmission(s) = [s EXCEPT !.retr = s.retr + 1]
    BY <1>1 DEF PrepareRetransmission, Members
  <2> QED
    BY <1>1, <2>1, <2>2 DEF Members
<1>2. CASE ~AttemptLeft(s)
  <2>1. PrepareRetransmission(s) = Finish(s, "NO_ACK")
    BY <1>2 DEF PrepareRetransmission
  <2> QED
    BY <1>2, <2>1, FinishEffect DEF Statuses
<1> QED
  BY <1>1, <1>2

\* Of a scheduled call: all but SendAck add no ACK.
LEMMA RunScheduledInv ==
    ASSUME NEW s, MacInv(s), s.next # "none"
    PROVE  LET t == RunScheduled(s)
           IN  /\ MacInv(t) /\ Kept(s, t)
               /\ t.next # "SendAck"
               /\ t.tx.kind = "ack" => t.tx = s.tx \/ (s.next = "SendAck" /\ t.tx = Ack(s.ackDsn))
<1> DEFINE r == [s EXCEPT !.next = "none"]
           t == RunScheduled(s)
<1>1. r \in Members /\ r.next = "none" /\ r.mac = s.mac /\ r.queue = s.queue /\ r.log = s.log
      /\ r.tx = s.tx /\ r.timer = s.timer /\ r.retr = s.retr /\ r.ackDsn = s.ackDsn
  BY DEF MacInv, Members
<1>2. CASE s.next = "IDLE"
  <2>1. s.timer = FALSE
    BY <1>2 DEF MacInv, Members, Waiting
  <2>2. t = SetState(r, "IDLE")
    BY <1>2 DEF RunScheduled
  <2>3. MacInv(t) /\ Kept(r, t) /\ NoNewAck(r, t)
    BY <1>1, <2>1, <2>2, SetIdleInv
  <2> QED
    BY <1>1, <2>3 DEF Kept, NoNewAck, Attempts
<1>3. CASE s.next \in {"CSMA", "ACK_PENDING"}
  <2>1. t = [r EXCEPT !.mac = s.next]
    BY <1>3 DEF RunScheduled, SetState
  <2>2. t \in Members /\ t.next = "none" /\ t.mac = s.next /\ t.queue = s.queue /\ t.log = s.log
        /\ t.tx = s.tx /\ t.timer = s.timer /\ t.retr = s.retr
    BY <1>1, <1>3, <2>1 DEF Members
  <2>3. MacInv(t)
    BY <1>3, <2>2 DEF MacInv, Waiting, HasFirst
  <2> QED
    BY <2>2, <2>3, Bounds DEF Kept, Attempts, Members
<1>4. CASE s.next = "SendAck"
  <2>1. t = [r EXCEPT !.tx = Ack(r.ackDsn), !.mac = "SENDING"]
    BY <1>4 DEF RunScheduled, SendAck
  <2>2. Ack(s.ackDsn) \in Packet /\ Ack(s.ackDsn) # NoFrame /\ Ack(s.ackDsn).kind = "ack"
    BY DEF Ack, NoFrame, Packet, Acks, MacInv, Members
  <2>3. t \in Members /\ t.next = "none" /\ t.mac = "SENDING" /\ t.queue = s.queue
        /\ t.log = s.log /\ t.tx = Ack(s.ackDsn) /\ t.timer = s.timer /\ t.retr = s.retr
    BY <1>1, <2>1, <2>2 DEF Members
  <2>4. s.timer = FALSE
    BY <1>4 DEF MacInv, Members, Waiting
  <2>5. MacInv(t)
    BY <2>2, <2>3, <2>4 DEF MacInv, Waiting, HasFirst
  <2> QED
    BY <1>4, <2>3, <2>5, Bounds DEF Kept, Attempts, Members
<1> QED
  BY <1>2, <1>3, <1>4 DEF MacInv, Members

\* What happens to a frame whose attempt was in vain: it keeps its place, or is given up.
Retried(s, t) == Kept(s, t) \/ Answered(s, t, "NO_ACK")

LEMMA AckWaitTimeoutInv ==
    ASSUME NEW s, MacInv(s), s.next = "none", s.timer
    PROVE  LET t == AckWaitTimeout(s)
           IN  MacInv(t) /\ Retried(s, t) /\ NoNewAck(s, t)
<1> DEFINE r == [s EXCEPT !.timer = FALSE]
           q == PrepareRetransmission(r)
           t == AckWaitTimeout(s)
<1>1. r \in Members /\ r.next = "none" /\ r.mac = s.mac /\ r.queue = s.queue /\ r.log = s.log
      /\ r.tx = s.tx /\ r.timer = FALSE /\ r.retr = s.retr /\ r.ackDsn = s.ackDsn
      /\ s.queue # <<>> /\ s.tx = Head(s.queue) /\ (AttemptLeft(r) <=> AttemptLeft(s))
  BY DEF MacInv, Members, HasFirst, AttemptLeft
<1>2. q \in Members /\ q.next = "none" /\ q.mac = s.mac /\ q.timer = FALSE
  BY <1>1, PrepareEffect
<1>3. CASE AttemptLeft(s)
  <2>1. t = [q EXCEPT !.mac = "CSMA"]
    BY <1>3 DEF AckWaitTimeout, SetState
  <2>2. q.queue = s.queue /\ q.log = s.log /\ q.tx = s.tx /\ q.retr = s.retr + 1
    BY <1>1, <1>3, PrepareEffect
  <2>3. t \in Members /\ t.next = "none" /\ t.mac = "CSMA" /\ t.queue = s.queue
        /\ t.log = s.log /\ t.tx = s.tx /\ t.timer = FALSE /\ t.retr = s.retr + 1
    BY <1>2, <2>1, <2>2 DEF Members
  <2>4. MacInv(t)
    BY <1>1, <2>3 DEF MacInv, Waiting, HasFirst
  <2> QED
    BY <2>3, <2>4, Bounds DEF Retried, Kept, Attempts, MacInv, Members, NoNewAck
<1>4. CASE ~AttemptLeft(s)
  <2>1. t = SetState(q, "IDLE")
    BY <1>4 DEF AckWaitTimeout
  <2>2. MacInv(t) /\ Kept(q, t) /\ NoNewAck(q, t)
    BY <1>2, <2>1, SetIdleInv
  <2>3. Answered(r, q, "NO_ACK") /\ q.tx = NoFrame
    BY <1>1, <1>4, PrepareEffect
  <2>4. Answered(s, t, "NO_ACK")
    BY <1>1, <2>2, <2>3 DEF Kept, Answered
  <2>5. NoNewAck(s, t)
    BY <1>2, <2>2, <2>3 DEF NoNewAck, NoFrame
  <2> QED
    BY <2>2, <2>4, <2>5 DEF Retried
<1> QED
  BY <1>3, <1>4

LEMMA ReceiveDataInv ==
    ASSUME NEW s, MacInv(s), s.next = "none", s.mac # "SENDING", NEW f \in Frame
    PROVE  LET t == ReceiveData(s, f)
           IN  /\ MacInv(t) /\ (Kept(s, t) \/ (s.timer /\ Answered(s, t, "NO_ACK")))
               /\ t.next = "SendAck" /\ t.ackDsn = f.dsn
               /\ t.tx.kind = "ack" => t.tx = s.tx
<1> DEFINE r == [s EXCEPT !.timer = FALSE]
           q == IF s.mac = "ACK_PENDING" THEN PrepareRetransmission(r) ELSE s
           t == ReceiveData(s, f)
<1>1. t = [q EXCEPT !.mac = "IDLE", !.next = "SendAck", !.ackDsn = f.dsn]
  BY DEF ReceiveData
<1>2. f.dsn \in Dsns
  BY DEF Frame, Dsns
<1>3. ASSUME q \in Members, q.timer = FALSE
      PROVE  /\ t \in Members /\ t.mac = "IDLE" /\ t.next = "SendAck" /\ t.ackDsn = f.dsn
             /\ t.queue = q.queue /\ t.log = q.log /\ t.tx = q.tx /\ t.timer = FALSE
             /\ t.retr = q.retr /\ MacInv(t)
  <2>1. /\ t \in Members /\ t.mac = "IDLE" /\ t.next = "SendAck" /\ t.ackDsn = f.dsn
        /\ t.queue = q.queue /\ t.log = q.log /\ t.tx = q.tx /\ t.timer = FALSE /\ t.retr = q.retr
    BY <1>1, <1>2, <1>3 DEF Members
  <2> QED
    BY <2>1 DEF MacInv, Waiting
<1>4. CASE s.mac = "ACK_PENDING"
  <2>1. r \in Members /\ r.queue = s.queue /\ r.log = s.log /\ r.tx = s.tx /\ r.timer = FALSE
        /\ r.retr = s.retr /\ s.queue # <<>> /\ s.timer
    BY <1>4 DEF MacInv, Members, HasFirst, Waiting
  <2>2. q \in Members /\ q.timer = FALSE
    BY <1>4, <2>1, PrepareEffect
  <2>3. CASE AttemptLeft(r)
    <3>1. q.queue = s.queue /\ q.log = s.log /\ q.tx = s.tx /\ q.retr = s.retr + 1
      BY <1>4, <2>1, <2>3, PrepareEffect
    <3>2. /\ t.next = "SendAck" /\ t.ackDsn = f.dsn /\ MacInv(t) /\ t.timer = FALSE
          /\ t.queue = s.queue /\ t.log = s.log /\ t.tx = s.tx /\ t.retr = s.retr + 1
      BY <1>3, <2>2, <3>1
    <3>3. Kept(s, t)
      BY <3>2, Bounds DEF Kept, Attempts, MacInv, Members
    <3> QED
      BY <3>2, <3>3
  <2>4. CASE ~AttemptLeft(r)
    <3>1. Answered(r, q, "NO_ACK") /\ q.tx = NoFrame
      BY <1>4, <2>1, <2>4, PrepareEffect
    <3>2. /\ t.next = "SendAck" /\ t.ackDsn = f.dsn /\ MacInv(t)
          /\ t.queue = q.queue /\ t.log = q.log /\ t.tx = NoFrame
      BY <1>3, <2>2, <3>1
    <3>3. Answered(s, t, "NO_ACK")
      BY <2>1, <3>1, <3>2 DEF Answered
    <3> QED
      BY <2>1, <3>2, <3>3 DEF NoFrame
  <2> QED
    BY <2>3, <2>4
<1>5. CASE s.mac # "ACK_PENDING"
  <2>1. q = s /\ s.timer = FALSE /\ s \in Members
    BY <1>5 DEF MacInv, Members, Waiting
  <2>2. /\ t.next = "SendAck" /\ t.ackDsn = f.dsn /\ MacInv(t) /\ t.timer = FALSE
        /\ t.queue = s.queue /\ t.log = s.log /\ t.tx = s.tx /\ t.retr = s.retr
    BY <1>3, <2>1
  <2>3. Kept(s, t)
    BY <2>1, <2>2, Bounds DEF Kept, Attempts, Members
  <2> QED
    BY <2>2, <2>3
<1> QED
  BY <1>4, <1>5

LEMMA ReceiveAckInv ==
    ASSUME NEW s, MacInv(s), s.next = "none", NEW d
    PROVE  LET t == ReceiveAck(s, d)
           IN  /\ MacInv(t) /\ NoNewAck(s, t)
               /\ \/ Kept(s, t)
                  \/ s.timer /\ (Answered(s, t, "NO_ACK") \/ (s.tx.dsn = d /\ Answered(s, t, "SUCCESS")))
<1> DEFINE r == [s EXCEPT !.timer = FALSE]
           q == PrepareRetransmission(r)
           t == ReceiveAck(s, d)
<1>1. CASE ~(s.tx # NoFrame /\ s.mac = "ACK_PENDING")
  <2>1. t = s
    BY <1>1 DEF ReceiveAck
  <2> QED
    BY <2>1, Bounds DEF Kept, Attempts, MacInv, Members, NoNewAck
<1>2. CASE s.tx # NoFrame /\ s.mac = "ACK_PENDING"
  <2>1. r \in Members /\ r.queue = s.queue /\ r.log = s.log /\ r.tx = s.tx /\ r.timer = FALSE
        /\ r.retr = s.retr /\ r.mac = "ACK_PENDING" /\ s.queue # <<>> /\ HasFirst(s) /\ s.timer
        /\ (AttemptLeft(r) <=> AttemptLeft(s))
    BY <1>2 DEF MacInv, Members, HasFirst, Waiting, AttemptLeft
  <2>2. CASE s.tx.dsn = d
    <3> DEFINE u == Finish(r, "SUCCESS")
    <3>1. t = [u EXCEPT !.next = "IDLE"]
      BY <1>2, <2>2 DEF ReceiveAck
    <3>2. u \in Members /\ Answered(r, u, "SUCCESS") /\ u.tx = NoFrame /\ u.timer = FALSE
      BY <2>1, FinishEffect DEF Statuses
    <3>3. t \in Members /\ t.next = "IDLE" /\ t.queue = u.queue /\ t.log = u.log
          /\ t.tx = NoFrame /\ t.timer = FALSE
      BY <3>1, <3>2 DEF Members
    <3>4. MacInv(t)
      BY <3>3 DEF MacInv, Waiting
    <3>5. Answered(s, t, "SUCCESS")
      BY <2>1, <3>2, <3>3 DEF Answered
    <3>6. NoNewAck(s, t)
      BY <3>3 DEF NoNewAck, NoFrame
    <3> QED
      BY <2>1, <2>2, <3>4, <3>5, <3>6
  <2>3. CASE s.tx.dsn # d /\ AttemptLeft(s)
    <3>1. t = [q EXCEPT !.next = "CSMA"]
      BY <1>2, <2>3 DEF ReceiveAck
    <3>2. q \in Members /\ q.timer = FALSE /\ q.queue = s.queue /\ q.log = s.log /\ q.tx = s.tx
          /\ q.retr = s.retr + 1
      BY <2>1, <2>3, PrepareEffect
    <3>3. t \in Members /\ t.next = "CSMA" /\ t.queue = s.queue /\ t.log = s.log
          /\ t.tx = s.tx /\ t.timer = FALSE /\ t.retr = s.retr + 1
      BY <3>1, <3>2 DEF Members
    <3>4. MacInv(t)
      BY <2>1, <3>3 DEF MacInv, Waiting, HasFirst
    <3>5. Kept(s, t)
      BY <2>1, <3>3, Bounds DEF Kept, Attempts, MacInv, Members
    <3>6. NoNewAck(s, t)
      BY <3>3 DEF NoNewAck
    <3> QED
      BY <3>4, <3>5, <3>6
  <2>4. CASE s.tx.dsn # d /\ ~AttemptLeft(s)
    <3>1. t = [q EXCEPT !.next = "IDLE"]
      BY <1>2, <2>4 DEF ReceiveAck
    <3>2. q \in Members /\ q.timer = FALSE /\ Answered(r, q, "NO_ACK") /\ q.tx = NoFrame
      BY <2>1, <2>4, PrepareEffect
    <3>3. t \in Members /\ t.next = "IDLE" /\ t.queue = q.queue /\ t.log = q.log
          /\ t.tx = NoFrame /\ t.timer = FALSE
      BY <3>1, <3>2 DEF Members
    <3>4. MacInv(t)
      BY <3>3 DEF MacInv, Waiting
    <3>5. Answered(s, t, "NO_ACK")
      BY <2>1, <3>2, <3>3 DEF Answered
    <3>6. NoNewAck(s, t)
      BY <3>3 DEF NoNewAck, NoFrame
    <3> QED
      BY <2>1, <3>4, <3>5, <3>6
  <2> QED
    BY <2>2, <2>3, <2>4
<1> QED
  BY <1>1, <1>2

LEMMA PdDataConfirmInv ==
    ASSUME NEW s, MacInv(s), s.next = "none", s.mac = "SENDING"
    PROVE  LET t == PdDataConfirm(s)
           IN  /\ MacInv(t) /\ NoNewAck(s, t)
               /\ s.tx.kind = "ack" => Kept(s, t)
               /\ s.tx.kind # "ack" => s.tx = Head(s.queue) /\ s.queue # <<>>
               /\ s.tx.kind # "ack" /\ s.tx.long => Answered(s, t, "FRAME_TOO_LONG")
               /\ s.tx.kind # "ack" /\ ~s.tx.long /\ ~s.tx.ack => Answered(s, t, "SUCCESS")
               /\ s.tx.kind # "ack" /\ ~s.tx.long /\ s.tx.ack =>
                    /\ Kept(s, t) /\ t.next = "ACK_PENDING" /\ t.retr = s.retr
                    /\ t.tx = s.tx
<1> DEFINE t == PdDataConfirm(s)
<1>1. s.tx # NoFrame /\ s.tx \in Packet /\ s.timer = FALSE
  BY DEF MacInv, Members, Waiting
<1>2. CASE s.tx.kind = "ack"
  <2>1. t = [s EXCEPT !.tx = NoFrame, !.next = "IDLE"]
    BY <1>2 DEF PdDataConfirm
  <2>2. t \in Members /\ t.tx = NoFrame /\ t.next = "IDLE" /\ t.queue = s.queue /\ t.log = s.log
        /\ t.timer = FALSE /\ t.retr = s.retr
    BY <1>1, <2>1 DEF MacInv, Members, Packet
  <2>3. MacInv(t)
    BY <2>2 DEF MacInv, Waiting
  <2> QED
    BY <1>1, <1>2, <2>2, <2>3, Bounds DEF Kept, Attempts, MacInv, Members, NoNewAck, NoFrame
<1>3. CASE s.tx.kind # "ack"
  <2>1. s.tx \in Frame /\ HasFirst(s)
    BY <1>1, <1>3 DEF Packet, Acks, MacInv, Frame
  <2>2. s.queue # <<>> /\ s.tx = Head(s.queue) /\ s \in Members
    BY <2>1 DEF HasFirst, MacInv
  <2>3. ASSUME NEW status \in Statuses, t = [Finish(s, status) EXCEPT !.next = "IDLE"]
        PROVE  MacInv(t) /\ NoNewAck(s, t) /\ Answered(s, t, status)
    <3> DEFINE u == Finish(s, status)
    <3>1. u \in Members /\ Answered(s, u, status) /\ u.tx = NoFrame /\ u.timer = FALSE
      BY <1>1, <2>2, FinishEffect
    <3>2. t \in Members /\ t.next = "IDLE" /\ t.queue = u.queue /\ t.log = u.log
          /\ t.tx = NoFrame /\ t.timer = FALSE
      BY <2>3, <3>1 DEF Members
    <3> QED
      BY <3>1, <3>2 DEF MacInv, Waiting, Answered, NoNewAck, NoFrame
  <2>4. CASE s.tx.long
    <3>1. t = [Finish(s, "FRAME_TOO_LONG") EXCEPT !.next = "IDLE"]
      BY <1>3, <2>4 DEF PdDataConfirm
    <3> QED
      BY <1>3, <2>2, <2>3, <2>4, <3>1 DEF Statuses
  <2>5. CASE ~s.tx.long /\ ~s.tx.ack
    <3>1. t = [Finish(s, "SUCCESS") EXCEPT !.next = "IDLE"]
      BY <1>3, <2>5 DEF PdDataConfirm
    <3> QED
      BY <1>3, <2>2, <2>3, <2>5, <3>1 DEF Statuses
  <2>6. CASE ~s.tx.long /\ s.tx.ack
    <3>1. t = [s EXCEPT !.timer = TRUE, !.next = "ACK_PENDING"]
      BY <1>3, <2>6 DEF PdDataConfirm
    <3>2. t \in Members /\ t.next = "ACK_PENDING" /\ t.timer = TRUE /\ t.queue = s.queue
          /\ t.log = s.log /\ t.tx = s.tx /\ t.retr = s.retr
      BY <2>2, <3>1 DEF Members
    <3>3. MacInv(t)
      BY <2>1, <2>6, <3>2 DEF MacInv, Waiting, HasFirst
    <3> QED
      BY <1>1, <1>3, <2>2, <2>6, <3>2, <3>3, Bounds DEF Kept, Attempts, Members, NoNewAck
  <2> QED
    BY <2>4, <2>5, <2>6
<1> QED
  BY <1>2, <1>3

-----------------------------------------------------------------------------
(* The queues and the history of deliveries.  In what follows del is a value of delivered. *)

Delivered == Seq([count : Nat, frame : Frame])

\* The queue of n holds frames of its own that were requested, each once, and only the first
\* may have been delivered, if it asks for an ACK: in each of its attempts at most once.
QueueOK(s, n, del) ==
    /\ \A i \in 1..Len(s.queue) :
         /\ s.queue[i].src = n /\ s.queue[i].dst # n
         /\ s.queue[i].id \in 1..Len(del) /\ del[s.queue[i].id].frame = s.queue[i]
         /\ del[s.queue[i].id].count <= (IF i = 1 /\ s.queue[i].ack THEN Attempts(s) ELSE 0)
    /\ \A i, j \in 1..Len(s.queue) : s.queue[i].id = s.queue[j].id => i = j

\* A frame with this sequence number that asks for an ACK was delivered.
Acked(d, del) ==
    \E i \in 1..Len(del) : del[i].count > 0 /\ del[i].frame.ack /\ del[i].frame.dsn = d

AckOK(s, del) ==
    /\ s.next = "SendAck" => Acked(s.ackDsn, del)
    /\ s.tx.kind = "ack" => Acked(s.tx.dsn, del)

LEMMA Entry ==
    ASSUME NEW del \in Delivered, NEW i \in 1..Len(del)
    PROVE  del[i] \in [count : Nat, frame : Frame] /\ del[i].count \in Nat /\ del[i].frame \in Frame
<1>1. del[i] \in [count : Nat, frame : Frame]
  BY ElementOfSeq DEF Delivered
<1> QED
  BY <1>1

LEMMA AttemptsNat == ASSUME NEW s \in Members PROVE Attempts(s) \in Nat /\ s.retr \in Nat
BY Bounds DEF Attempts, Members

LEMMA QueueKept ==
    ASSUME NEW s \in Members, NEW t \in Members, NEW n, NEW del \in Delivered,
           QueueOK(s, n, del), Kept(s, t)
    PROVE  QueueOK(t, n, del)
<1>1. t.queue = s.queue /\ Attempts(t) >= Attempts(s)
  BY DEF Kept
<1>2. \A i \in 1..Len(s.queue) : del[s.queue[i].id].count \in Nat
  BY Entry DEF QueueOK
<1> QED
  BY <1>1, <1>2, AttemptsNat DEF QueueOK

LEMMA QueueAnswered ==
    ASSUME NEW s \in Members, NEW t \in Members, NEW n, NEW del \in Delivered, NEW status,
           QueueOK(s, n, del), Answered(s, t, status)
    PROVE  QueueOK(t, n, del)
<1>1. /\ s.queue \in Seq(Frame) /\ s.queue # <<>> /\ t.queue = Tail(s.queue)
      /\ Len(t.queue) = Len(s.queue) - 1 /\ Len(s.queue) \in Nat
      /\ \A i \in 1..Len(t.queue) : t.queue[i] = s.queue[i + 1]
  BY HeadTailProperties DEF Answered, Members
<1>2. \A i \in 1..Len(t.queue) : i + 1 \in 1..Len(s.queue) /\ i + 1 # 1
  BY <1>1
<1>3. Attempts(t) \in Nat
  BY AttemptsNat
<1>4. \A i \in 1..Len(s.queue) : del[s.queue[i].id].count \in Nat
  BY Entry DEF QueueOK
<1>5. ASSUME NEW i \in 1..Len(t.queue)
      PROVE  /\ t.queue[i].src = n /\ t.queue[i].dst # n
             /\ t.queue[i].id \in 1..Len(del) /\ del[t.queue[i].id].frame = t.queue[i]
             /\ del[t.queue[i].id].count <= (IF i = 1 /\ t.queue[i].ack THEN Attempts(t) ELSE 0)
  BY <1>1, <1>2, <1>3, <1>4 DEF QueueOK
<1>6. ASSUME NEW i \in 1..Len(t.queue), NEW j \in 1..Len(t.queue), t.queue[i].id = t.queue[j].id
      PROVE  i = j
  <2>1. s.queue[i + 1].id = s.queue[j + 1].id /\ i + 1 \in 1..Len(s.queue) /\ j + 1 \in 1..Len(s.queue)
    BY <1>1, <1>2, <1>6
  <2>2. i + 1 = j + 1
    BY <2>1 DEF QueueOK
  <2> QED
    BY <1>1, <2>2
<1> QED
  BY <1>5, <1>6 DEF QueueOK

\* One more request in the history.
LEMMA HistoryGrows ==
    ASSUME NEW del \in Delivered, NEW f \in Frame
    PROVE  LET new == Append(del, [count |-> 0, frame |-> f])
           IN  /\ new \in Delivered /\ Len(new) = Len(del) + 1
               /\ \A i \in 1..Len(del) : new[i] = del[i]
               /\ new[Len(del) + 1] = [count |-> 0, frame |-> f]
               /\ \A d : Acked(d, del) => Acked(d, new)
               /\ \A s : AckOK(s, del) => AckOK(s, new)
               /\ \A s, n : QueueOK(s, n, del) => QueueOK(s, n, new)
<1> DEFINE e == [count |-> 0, frame |-> f]
           new == Append(del, e)
<1>1. e \in [count : Nat, frame : Frame]
  OBVIOUS
<1>2. /\ new \in Delivered /\ Len(new) = Len(del) + 1 /\ Len(del) \in Nat
      /\ \A i \in 1..Len(del) : new[i] = del[i]
      /\ new[Len(del) + 1] = e
  BY <1>1, AppendProperties DEF Delivered
<1>3. \A i \in 1..Len(del) : i \in 1..Len(new) /\ new[i] = del[i]
  BY <1>2
<1> HIDE DEF new, e
<1>4. \A d : Acked(d, del) => Acked(d, new)
  BY <1>3 DEF Acked
<1>5. \A s : AckOK(s, del) => AckOK(s, new)
  BY <1>4 DEF AckOK
<1>6. \A s, n : QueueOK(s, n, del) => QueueOK(s, n, new)
  BY <1>3 DEF QueueOK
<1> QED
  BY <1>2, <1>4, <1>5, <1>6 DEF new, e

\* The new request joins the queue.
LEMMA QueueJoined ==
    ASSUME NEW s \in Members, NEW t \in Members, NEW n \in Nodes, NEW del \in Delivered, NEW f \in Frame,
           QueueOK(s, n, del), t.queue = Append(s.queue, f), Attempts(t) = Attempts(s),
           f.src = n, f.dst # n, f.id = Len(del) + 1
    PROVE  QueueOK(t, n, Append(del, [count |-> 0, frame |-> f]))
<1> DEFINE new == Append(del, [count |-> 0, frame |-> f])
           last == Len(s.queue) + 1
<1>1. /\ Len(new) = Len(del) + 1 /\ new[Len(del) + 1] = [count |-> 0, frame |-> f]
      /\ \A i \in 1..Len(del) : new[i] = del[i]
      /\ Len(del) \in Nat
  BY HistoryGrows DEF Delivered
<1>2. /\ Len(t.queue) = last /\ t.queue[last] = f /\ Len(s.queue) \in Nat
      /\ \A i \in 1..Len(s.queue) : t.queue[i] = s.queue[i]
  BY AppendProperties DEF Members
<1>3. Attempts(t) = Attempts(s) /\ Attempts(t) \in Nat
  BY AttemptsNat
<1>4. \A i \in 1..Len(t.queue) : i = last \/ i \in 1..Len(s.queue)
  BY <1>2
<1> HIDE DEF new, last
<1>5. ASSUME NEW i \in 1..Len(t.queue)
      PROVE  /\ t.queue[i].src = n /\ t.queue[i].dst # n
             /\ t.queue[i].id \in 1..Len(new) /\ new[t.queue[i].id].frame = t.queue[i]
             /\ new[t.queue[i].id].count <= (IF i = 1 /\ t.queue[i].ack THEN Attempts(t) ELSE 0)
  <2>1. CASE i = last
    BY <1>1, <1>2, <1>3, <2>1
  <2>2. CASE i \in 1..Len(s.queue)
    <3>1. t.queue[i] = s.queue[i] /\ s.queue[i].id \in 1..Len(del)
      BY <1>2, <2>2 DEF QueueOK
    <3>2. new[t.queue[i].id] = del[s.queue[i].id] /\ t.queue[i].id \in 1..Len(new)
      BY <1>1, <3>1
    <3> QED
      BY <1>3, <2>2, <3>1, <3>2 DEF QueueOK
  <2> QED
    BY <1>4, <2>1, <2>2
<1>6. ASSUME NEW i \in 1..Len(t.queue), NEW j \in 1..Len(t.queue), t.queue[i].id = t.queue[j].id
      PROVE  i = j
  <2>1. \A k \in 1..Len(s.queue) : t.queue[k].id # t.queue[last].id
    BY <1>1, <1>2 DEF QueueOK
  <2> QED
    BY <1>2, <1>4, <1>6, <2>1 DEF QueueOK
<1> QED
  BY <1>5, <1>6 DEF QueueOK, new

\* A frame is delivered once more.
LEMMA HistoryCounts ==
    ASSUME NEW del \in Delivered, NEW k \in 1..Len(del)
    PROVE  LET new == [del EXCEPT ![k].count = @ + 1]
           IN  /\ new \in Delivered /\ Len(new) = Len(del)
               /\ \A i \in 1..Len(del) : new[i].frame = del[i].frame
               /\ \A i \in 1..Len(del) : i # k => new[i] = del[i]
               /\ new[k].count = del[k].count + 1
               /\ del[k].frame.ack => Acked(del[k].frame.dsn, new)
               /\ \A d : Acked(d, del) => Acked(d, new)
               /\ \A s : AckOK(s, del) => AckOK(s, new)
<1> DEFINE new == [del EXCEPT ![k].count = @ + 1]
           e == [del[k] EXCEPT !.count = @ + 1]
<1>1. /\ e \in [count : Nat, frame : Frame] /\ e.count = del[k].count + 1
      /\ e.frame = del[k].frame /\ \A i \in 1..Len(del) : del[i].count \in Nat
  <2>1. del[k] \in [count : Nat, frame : Frame]
    BY Entry
  <2>2. \A i \in 1..Len(del) : del[i].count \in Nat
    BY Entry
  <2> QED
    BY <2>1, <2>2
<1>2. new = [del EXCEPT ![k] = e]
  OBVIOUS
<1>3. new \in Delivered /\ Len(new) = Len(del) /\ \A i \in 1..Len(del) : new[i] = IF i = k THEN e ELSE del[i]
  <2> HIDE DEF e, new
  <2>1. del \in Seq([count : Nat, frame : Frame])
    BY DEF Delivered
  <2>2. /\ [del EXCEPT ![k] = e] \in Seq([count : Nat, frame : Frame])
        /\ Len([del EXCEPT ![k] = e]) = Len(del)
        /\ \A i \in 1..Len(del) : [del EXCEPT ![k] = e][i] = IF i = k THEN e ELSE del[i]
    BY <1>1, <2>1, ExceptSeq
  <2> QED
    BY <1>2, <2>2 DEF Delivered
<1>4. /\ \A i \in 1..Len(del) : new[i].frame = del[i].frame
      /\ \A i \in 1..Len(del) : i # k => new[i] = del[i]
      /\ new[k].count = del[k].count + 1
  <2> HIDE DEF e, new
  <2> QED
    BY <1>1, <1>3
<1> HIDE DEF new, e
<1>5. \A i \in 1..Len(del) : del[i].count > 0 => new[i].count > 0
  <2>1. TAKE i \in 1..Len(del)
  <2>2. CASE i = k
    BY <1>1, <1>4, <2>2
  <2>3. CASE i # k
    BY <1>4, <2>3
  <2> QED
    BY <2>2, <2>3
<1>6. \A d : Acked(d, del) => Acked(d, new)
  BY <1>3, <1>4, <1>5 DEF Acked
<1>7. \A s : AckOK(s, del) => AckOK(s, new)
  BY <1>6 DEF AckOK
<1>8. del[k].frame.ack => Acked(del[k].frame.dsn, new)
  BY <1>1, <1>3, <1>4 DEF Acked
<1> QED
  BY <1>3, <1>4, <1>6, <1>7, <1>8 DEF new

LEMMA QueueDelivered ==
    ASSUME NEW s \in Members, NEW n, NEW del \in Delivered, NEW f \in Frame, QueueOK(s, n, del),
           f.id \in 1..Len(del), del[f.id].frame = f,
           f.src = n =>
               \/ s.queue # <<>> /\ Head(s.queue) = f /\ f.ack /\ del[f.id].count < Attempts(s)
               \/ \A i \in 1..Len(s.queue) : s.queue[i].id # f.id
    PROVE  QueueOK(s, n, [del EXCEPT ![f.id].count = @ + 1])
<1> DEFINE new == [del EXCEPT ![f.id].count = @ + 1]
<1>1. /\ Len(new) = Len(del)
      /\ \A i \in 1..Len(del) : new[i].frame = del[i].frame
      /\ \A i \in 1..Len(del) : i # f.id => new[i] = del[i]
      /\ new[f.id].count = del[f.id].count + 1
      /\ del[f.id].count \in Nat /\ Attempts(s) \in Nat
  BY HistoryCounts, AttemptsNat, Entry
<1>2. \A i \in 1..Len(s.queue) : s.queue[i].id = f.id => s.queue[i] = f
  BY DEF QueueOK
<1>3. ASSUME NEW i \in 1..Len(s.queue), s.queue[i].id = f.id
      PROVE  i = 1 /\ s.queue[i].ack /\ del[f.id].count < Attempts(s)
  <2>1. s.queue[i] = f /\ s.queue[i].src = n
    BY <1>2, <1>3 DEF QueueOK
  <2>2. /\ s.queue # <<>> /\ s.queue[1] = f /\ f.ack /\ del[f.id].count < Attempts(s)
        /\ 1 \in 1..Len(s.queue)
    BY <1>3, <2>1 DEF Members
  <2> QED
    BY <1>3, <2>2 DEF QueueOK
<1> HIDE DEF new
<1>4. ASSUME NEW i \in 1..Len(s.queue)
      PROVE  /\ s.queue[i].src = n /\ s.queue[i].dst # n
             /\ s.queue[i].id \in 1..Len(new) /\ new[s.queue[i].id].frame = s.queue[i]
             /\ new[s.queue[i].id].count <= (IF i = 1 /\ s.queue[i].ack THEN Attempts(s) ELSE 0)
  <2>1. CASE s.queue[i].id = f.id
    BY <1>1, <1>3, <2>1 DEF QueueOK
  <2>2. CASE s.queue[i].id # f.id
    BY <1>1, <2>2 DEF QueueOK
  <2> QED
    BY <2>1, <2>2
<1> QED
  BY <1>4 DEF QueueOK, new

-----------------------------------------------------------------------------
(* The inductive invariant. *)

AirOK(a, s) ==
    a # NoFrame => s.next = "none" /\ s.mac = "SENDING" /\ a = s.tx /\ (a.kind = "data" => ~a.long)

NodeOK(n) ==
    MacInv(node[n]) /\ QueueOK(node[n], n, delivered) /\ AckOK(node[n], delivered)
    /\ AirOK(air[n], node[n])

NodesOK ==
    /\ node \in [Nodes -> Members] /\ air \in [Nodes -> Packet] /\ delivered \in Delivered
    /\ \A n \in Nodes : NodeOK(n)

\* A frame that arrives where it belongs and asks for an ACK is the first of a queue, and its
\* sender, which has just sent it, is about to wait for the ACK; one that asks for none has
\* left the queue, and its confirm is the last its sender has given.
SentLast(s, f, del) ==
    /\ s.log # <<>> /\ s.log[Len(s.log)] = [id |-> f.id, status |-> "SUCCESS"]
    /\ f.id \in 1..Len(del) /\ del[f.id].frame = f /\ del[f.id].count = 0
    /\ \A i \in 1..Len(s.queue) : s.queue[i].id # f.id

ArrivingOK(h) ==
    LET f == arriving[h]
    IN  f # NoFrame =>
            /\ node[h].next = "none" /\ node[h].mac # "SENDING"
            /\ f.kind = "ack" => Acked(f.dsn, delivered)
            /\ f.kind = "data" /\ f.dst = h => f.src # h
            /\ f.kind = "data" /\ f.dst = h /\ ~f.ack => SentLast(node[f.src], f, delivered)
            /\ f.kind = "data" /\ f.dst = h /\ f.ack =>
                 /\ node[f.src].next = "ACK_PENDING" /\ node[f.src].queue # <<>>
                 /\ Head(node[f.src].queue) = f /\ ~f.long
                 /\ delivered[f.id].count <= node[f.src].retr

ArrivalsOK ==
    /\ arriving \in [Nodes -> Packet]
    /\ \A h \in Nodes : ArrivingOK(h)
    /\ \A g, h \in Nodes : arriving[g] # NoFrame /\ arriving[h] # NoFrame => arriving[g] = arriving[h]

LinkInv == NodesOK /\ ArrivalsOK

\* A first frame that asks for no ACK has been confirmed.
LEMMA AnsweredLast ==
    ASSUME NEW s \in Members, NEW t \in Members, NEW n, NEW del \in Delivered, NEW f,
           QueueOK(s, n, del), Answered(s, t, "SUCCESS"), s.queue # <<>>, f = Head(s.queue), ~f.ack
    PROVE  f.src = n /\ SentLast(t, f, del)
<1>1. /\ f = s.queue[1] /\ 1 \in 1..Len(s.queue) /\ f \in Frame
      /\ t.queue = Tail(s.queue) /\ Len(t.queue) = Len(s.queue) - 1 /\ Len(s.queue) \in Nat
      /\ \A i \in 1..Len(t.queue) : t.queue[i] = s.queue[i + 1]
  BY HeadTailProperties, HeadIsFrame DEF Answered, Members
<1>2. f.src = n /\ f.id \in 1..Len(del) /\ del[f.id].frame = f /\ del[f.id].count = 0
  <2>1. /\ f.src = n /\ f.id \in 1..Len(del) /\ del[f.id].frame = f
        /\ del[f.id].count <= (IF 1 = 1 /\ f.ack THEN Attempts(s) ELSE 0)
    BY <1>1 DEF QueueOK
  <2>2. del[f.id].count \in Nat
    BY <2>1, Entry
  <2> QED
    BY <2>1, <2>2
<1>3. ASSUME NEW i \in 1..Len(t.queue) PROVE t.queue[i].id # f.id
  <2>1. i + 1 \in 1..Len(s.queue) /\ t.queue[i] = s.queue[i + 1] /\ i + 1 # 1
    BY <1>1
  <2> QED
    BY <1>1, <2>1 DEF QueueOK
<1>4. t.log # <<>> /\ t.log[Len(t.log)] = [id |-> f.id, status |-> "SUCCESS"]
  <2> DEFINE c == [id |-> f.id, status |-> "SUCCESS"]
  <2>1. c \in [id : 1..MaxRequests, status : Statuses]
    BY <1>1 DEF Frame, Statuses
  <2>2. t.log = Append(s.log, c) /\ s.log \in Seq([id : 1..MaxRequests, status : Statuses])
    BY DEF Answered, Members, Confirms
  <2> HIDE DEF c
  <2>3. t.log # <<>> /\ t.log[Len(t.log)] = c
    BY <2>1, <2>2, AppendProperties
  <2> QED
    BY <2>3 DEF c
<1> QED
  BY <1>2, <1>3, <1>4 DEF SentLast

LEMMA NoFrameKind == NoFrame \in Packet /\ NoFrame.kind = "none"
BY DEF NoFrame, Packet

LEMMA PacketKind ==
    ASSUME NEW f \in Packet, f # NoFrame
    PROVE  (f.kind = "ack" /\ f \in Acks) \/ (f.kind = "data" /\ f \in Frame)
BY DEF Packet, Acks, Frame

LEMMA FreshOK ==
    ASSUME NEW n \in Nodes, NEW d \in Dsns
    PROVE  MacInv(Fresh(d)) /\ QueueOK(Fresh(d), n, <<>>) /\ AckOK(Fresh(d), <<>>)
<1> DEFINE s == Fresh(d)
<1>1. 0 \in 0..MaxFrameRetries /\ 0 \in Dsns /\ <<>> \in Seq(Frame) /\ <<>> \in Confirms
  BY Bounds DEF Dsns, Confirms
<1>2. s \in Members
  BY <1>1, NoFrameKind DEF Fresh, Members
<1>3. MacInv(s)
  BY <1>2 DEF MacInv, Fresh, Waiting
<1>4. s.queue = <<>> /\ s.next = "none" /\ s.tx = NoFrame
  BY DEF Fresh
<1> HIDE DEF s
<1>5. QueueOK(s, n, <<>>) /\ AckOK(s, <<>>)
  BY <1>4, NoFrameKind DEF QueueOK, AckOK
<1> QED
  BY <1>3, <1>5 DEF s

LEMMA QuietArrivals ==
    ASSUME arriving' = [h \in Nodes |-> NoFrame]
    PROVE  ArrivalsOK'
BY NoFrameKind DEF ArrivalsOK, ArrivingOK

LEMMA InitLink == LinkInit => LinkInv
<1> SUFFICES ASSUME LinkInit PROVE LinkInv
  OBVIOUS
<1>1. PICK d \in [Nodes -> FirstDsn] : node = [n \in Nodes |-> Fresh(d[n])]
  BY DEF LinkInit
<1>2. \A n \in Nodes : d[n] \in Dsns
  BY LinkAssumption DEF LinkAssumption, Dsns
<1>3. /\ air = [n \in Nodes |-> NoFrame] /\ arriving = [n \in Nodes |-> NoFrame]
      /\ delivered = <<>> /\ <<>> \in Delivered
  BY DEF LinkInit, Delivered
<1>4. ASSUME NEW n \in Nodes PROVE NodeOK(n)
  BY <1>1, <1>2, <1>3, FreshOK DEF NodeOK, AirOK
<1>5. \A n \in Nodes : node[n] \in Members
  BY <1>4 DEF NodeOK, MacInv
<1>6. NodesOK
  BY <1>1, <1>3, <1>4, <1>5, NoFrameKind DEF NodesOK
<1>7. ArrivalsOK
  BY <1>3, NoFrameKind DEF ArrivalsOK, ArrivingOK
<1> QED
  BY <1>6, <1>7 DEF LinkInv

\* A handler of n that delivers nothing.
LEMMA HandlerStep ==
    ASSUME NodesOK, NEW n \in Nodes, NEW t, Put(n, t), MacInv(t), UNCHANGED delivered,
           Kept(node[n], t) \/ \E status : Answered(node[n], t, status),
           AckOK(t, delivered), AirOK(air'[n], t),
           air' \in [Nodes -> Packet], \A m \in Nodes \ {n} : air'[m] = air[m]
    PROVE  NodesOK'
<1>1. node[n] \in Members /\ t \in Members /\ delivered \in Delivered /\ QueueOK(node[n], n, delivered)
  BY DEF NodesOK, NodeOK, MacInv
<1>2. QueueOK(t, n, delivered)
  BY <1>1, QueueKept, QueueAnswered
<1>3. node' \in [Nodes -> Members] /\ node'[n] = t /\ \A m \in Nodes \ {n} : node'[m] = node[m]
  BY <1>1 DEF Put, NodesOK
<1>4. ASSUME NEW m \in Nodes PROVE NodeOK(m)'
  <2>1. CASE m = n
    BY <1>2, <1>3, <2>1 DEF NodeOK
  <2>2. CASE m # n
    BY <1>3, <2>2 DEF NodeOK, NodesOK
  <2> QED
    BY <2>1, <2>2
<1> QED
  BY <1>1, <1>3, <1>4 DEF NodesOK

-----------------------------------------------------------------------------
(* The refinement mapping: what a handler does to a queue, as a step of the service. *)

LEMMA MapsToStutter ==
    ASSUME node \in [Nodes -> Members], NEW n \in Nodes, NEW t, Put(n, t), Kept(node[n], t),
           UNCHANGED delivered
    PROVE  UNCHANGED Service!vars
<1>1. \A m \in Nodes : node'[m].queue = node[m].queue /\ node'[m].log = node[m].log
  BY DEF Put, Kept
<1> QED
  BY <1>1 DEF Service!vars

LEMMA MapsToAnswer ==
    ASSUME node \in [Nodes -> Members], NEW n \in Nodes, NEW t, Put(n, t), NEW status,
           Answered(node[n], t, status), Service!Allowed(Head(node[n].queue), status)
    PROVE  Service!Answer(n, status)
<1>1. /\ node'[n].queue = Tail(node[n].queue) /\ node[n].queue # <<>>
      /\ node'[n].log = Append(node[n].log, [id |-> Head(node[n].queue).id, status |-> status])
      /\ \A m \in Nodes \ {n} : node'[m] = node[m]
  BY DEF Put, Answered
<1> DEFINE pend == [m \in Nodes |-> node[m].queue]
           logs == [m \in Nodes |-> node[m].log]
<1>2. [m \in Nodes |-> node'[m].queue] = [pend EXCEPT ![n] = Tail(@)]
  BY <1>1
<1>3. [m \in Nodes |-> node'[m].log]
        = [logs EXCEPT ![n] = Append(@, [id |-> Head(pend[n]).id, status |-> status])]
  BY <1>1
<1> QED
  BY <1>1, <1>2, <1>3 DEF Service!Answer

LEMMA MapsToConfirm ==
    ASSUME node \in [Nodes -> Members], NEW n \in Nodes, NEW t, Put(n, t), UNCHANGED delivered,
           NEW status \in {"SUCCESS", "NO_ACK", "CHANNEL_ACCESS_FAILURE", "FRAME_TOO_LONG"},
           Answered(node[n], t, status), Service!Allowed(Head(node[n].queue), status)
    PROVE  Service!Next
BY MapsToAnswer DEF Service!Next, Service!Confirm

Refined == LinkInv' /\ (Service!Next \/ UNCHANGED Service!vars)

-----------------------------------------------------------------------------
(* The steps. *)

\* Nothing arrives, and the step leaves it so.
LEMMA StillQuiet ==
    ASSUME LinkInv, NothingArrives, UNCHANGED arriving
    PROVE  ArrivalsOK'
<1>1. arriving = [h \in Nodes |-> NoFrame]
  BY DEF LinkInv, ArrivalsOK, NothingArrives
<1> QED
  BY <1>1, QuietArrivals

\* A node that transmits is left alone by everything but the end of the transmission.
LEMMA NotOnAir ==
    ASSUME LinkInv, NEW n \in Nodes, node[n].next # "none" \/ node[n].mac # "SENDING", UNCHANGED air
    PROVE  air' \in [Nodes -> Packet] /\ \A s : AirOK(air'[n], s)
BY DEF LinkInv, NodesOK, NodeOK, AirOK

LEMMA ScheduledRefined ==
    ASSUME LinkInv, NEW n \in Nodes, Scheduled(n)
    PROVE  Refined
<1> DEFINE s == node[n]
           t == RunScheduled(s)
<1>1. /\ NothingArrives /\ s.next # "none" /\ Put(n, t) /\ UNCHANGED <<air, arriving, delivered>>
      /\ NodesOK /\ MacInv(s) /\ AckOK(s, delivered) /\ node \in [Nodes -> Members]
  BY DEF Scheduled, LinkInv, NodesOK, NodeOK
<1>2. /\ MacInv(t) /\ Kept(s, t) /\ t.next # "SendAck"
      /\ t.tx.kind = "ack" => t.tx = s.tx \/ (s.next = "SendAck" /\ t.tx = Ack(s.ackDsn))
  BY <1>1, RunScheduledInv
<1>3. AckOK(t, delivered)
  BY <1>1, <1>2 DEF AckOK, Ack
<1>4. air' \in [Nodes -> Packet] /\ AirOK(air'[n], t)
  BY <1>1, NotOnAir
<1> HIDE DEF s, t
<1>5. NodesOK'
  BY <1>1, <1>2, <1>3, <1>4, HandlerStep DEF s
<1>6. ArrivalsOK'
  BY <1>1, StillQuiet
<1>7. UNCHANGED Service!vars
  BY <1>1, <1>2, MapsToStutter DEF s
<1> QED
  BY <1>5, <1>6, <1>7 DEF Refined, LinkInv

LEMMA TimeoutRefined ==
    ASSUME LinkInv, NEW n \in Nodes, Timeout(n)
    PROVE  Refined
<1> DEFINE s == node[n]
           t == AckWaitTimeout(s)
<1>1. /\ NothingArrives /\ s.next = "none" /\ s.timer /\ Put(n, t)
      /\ UNCHANGED <<air, arriving, delivered>>
      /\ NodesOK /\ MacInv(s) /\ AckOK(s, delivered) /\ node \in [Nodes -> Members]
  BY DEF Timeout, Settled, LinkInv, NodesOK, NodeOK
<1>2. MacInv(t) /\ Retried(s, t) /\ NoNewAck(s, t)
  BY <1>1, AckWaitTimeoutInv
<1>3. AckOK(t, delivered)
  BY <1>1, <1>2 DEF AckOK, NoNewAck
<1>4. s.mac = "ACK_PENDING" /\ Head(s.queue) = s.tx /\ ~s.tx.long /\ s.tx.ack
  BY <1>1 DEF MacInv, Waiting, HasFirst
<1>5. air' \in [Nodes -> Packet] /\ AirOK(air'[n], t)
  BY <1>1, <1>4, NotOnAir
<1> HIDE DEF s, t
<1>6. NodesOK'
  BY <1>1, <1>2, <1>3, <1>5, HandlerStep DEF s, Retried
<1>7. ArrivalsOK'
  BY <1>1, StillQuiet
<1>8. Service!Allowed(Head(s.queue), "NO_ACK")
  BY <1>4 DEF Service!Allowed
<1>9. Service!Next \/ UNCHANGED Service!vars
  BY <1>1, <1>2, <1>8, MapsToStutter, MapsToConfirm DEF s, Retried
<1> QED
  BY <1>6, <1>7, <1>9 DEF Refined, LinkInv

LEMMA VerdictRefined ==
    ASSUME LinkInv, NEW n \in Nodes, NEW idle \in BOOLEAN, ChannelVerdict(n, idle)
    PROVE  Refined
<1> DEFINE s == node[n]
<1>1. /\ NothingArrives /\ s.next = "none" /\ s.mac = "CSMA"
      /\ UNCHANGED <<air, arriving, delivered>>
      /\ NodesOK /\ MacInv(s) /\ AckOK(s, delivered) /\ node \in [Nodes -> Members]
  BY DEF ChannelVerdict, Settled, LinkInv, NodesOK, NodeOK
<1>2. /\ s \in Members /\ s.queue # <<>> /\ s.tx = Head(s.queue) /\ s.timer = FALSE
  BY <1>1 DEF MacInv, HasFirst, Waiting, Members
<1>3. s.tx \in Frame
  BY <1>2, HeadIsFrame DEF Members
<1>4. \A t : air' \in [Nodes -> Packet] /\ AirOK(air'[n], t)
  BY <1>1, NotOnAir
<1>5. ArrivalsOK'
  BY <1>1, StillQuiet
<1>6. CASE idle
  <2> DEFINE t == [s EXCEPT !.mac = "SENDING"]
  <2>1. Put(n, t)
    BY <1>6 DEF ChannelVerdict
  <2>2. t \in Members /\ t.mac = "SENDING" /\ t.next = "none" /\ t.queue = s.queue /\ t.log = s.log
        /\ t.tx = s.tx /\ t.timer = FALSE /\ t.retr = s.retr
    BY <1>1, <1>2 DEF Members
  <2>3. MacInv(t)
    BY <1>2, <1>3, <2>2, NoFrameKind DEF MacInv, Waiting, HasFirst, Frame
  <2>4. Kept(s, t)
    BY <1>2, <2>2, AttemptsNat DEF Kept, Attempts
  <2>5. AckOK(t, delivered)
    BY <1>1, <2>2 DEF AckOK
  <2> HIDE DEF s, t
  <2>6. NodesOK'
    BY <1>1, <1>4, <2>1, <2>3, <2>4, <2>5, HandlerStep DEF s
  <2>7. UNCHANGED Service!vars
    BY <1>1, <2>1, <2>4, MapsToStutter DEF s
  <2> QED
    BY <1>5, <2>6, <2>7 DEF Refined, LinkInv
<1>7. CASE ~idle
  <2> DEFINE u == Finish(s, "CHANNEL_ACCESS_FAILURE")
             t == [u EXCEPT !.mac = "IDLE"]
  <2>1. Put(n, t)
    BY <1>7 DEF ChannelVerdict
  <2>2. /\ u \in Members /\ Answered(s, u, "CHANNEL_ACCESS_FAILURE") /\ u.tx = NoFrame
        /\ u.next = "none" /\ u.timer = FALSE
    BY <1>1, <1>2, FinishEffect DEF Statuses
  <2>3. /\ t \in Members /\ t.mac = "IDLE" /\ t.tx = NoFrame /\ t.next = "none" /\ t.timer = FALSE
        /\ t.queue = u.queue /\ t.log = u.log
    BY <2>2 DEF Members
  <2>4. MacInv(t)
    BY <2>3 DEF MacInv, Waiting
  <2>5. Answered(s, t, "CHANNEL_ACCESS_FAILURE")
    BY <2>2, <2>3 DEF Answered
  <2>6. AckOK(t, delivered)
    BY <2>3, NoFrameKind DEF AckOK
  <2> HIDE DEF s, t, u
  <2>7. NodesOK'
    BY <1>1, <1>4, <2>1, <2>4, <2>5, <2>6, HandlerStep DEF s
  <2>8. Service!Allowed(Head(s.queue), "CHANNEL_ACCESS_FAILURE")
    BY DEF Service!Allowed
  <2>9. Service!Next
    BY <1>1, <2>1, <2>5, <2>8, MapsToConfirm DEF s
  <2> QED
    BY <1>5, <2>7, <2>9 DEF Refined, LinkInv
<1> QED
  BY <1>6, <1>7

LEMMA StartTxRefined ==
    ASSUME LinkInv, NEW n \in Nodes, StartTx(n)
    PROVE  Refined
<1> DEFINE s == node[n]
           t == PdDataConfirm(s)
<1>1. /\ NothingArrives /\ s.next = "none" /\ s.mac = "SENDING" /\ air[n] = NoFrame
      /\ UNCHANGED <<arriving, delivered>>
      /\ NodesOK /\ MacInv(s) /\ AckOK(s, delivered) /\ node \in [Nodes -> Members]
      /\ air \in [Nodes -> Packet]
  BY DEF StartTx, Settled, LinkInv, NodesOK, NodeOK
<1>2. ArrivalsOK'
  BY <1>1, StillQuiet
<1>3. CASE s.tx.kind = "data" /\ s.tx.long
  <2>1. Put(n, t) /\ UNCHANGED air
    BY <1>3 DEF StartTx
  <2>2. /\ MacInv(t) /\ NoNewAck(s, t) /\ Answered(s, t, "FRAME_TOO_LONG") /\ s.tx = Head(s.queue)
    BY <1>1, <1>3, PdDataConfirmInv
  <2>3. AckOK(t, delivered)
    BY <1>1, <2>2 DEF AckOK, NoNewAck
  <2>4. AirOK(air'[n], t)
    BY <1>1, <2>1 DEF AirOK
  <2> HIDE DEF s, t
  <2>5. NodesOK'
    BY <1>1, <2>1, <2>2, <2>3, <2>4, HandlerStep DEF s
  <2>6. Service!Allowed(Head(s.queue), "FRAME_TOO_LONG")
    BY <1>3, <2>2 DEF Service!Allowed
  <2>7. Service!Next
    BY <1>1, <2>1, <2>2, <2>6, MapsToConfirm DEF s
  <2> QED
    BY <1>2, <2>5, <2>7 DEF Refined, LinkInv
<1>4. CASE ~(s.tx.kind = "data" /\ s.tx.long)
  <2>1. air' = [air EXCEPT ![n] = s.tx] /\ UNCHANGED node
    BY <1>4 DEF StartTx
  <2>2. s.tx \in Packet
    BY <1>1 DEF MacInv, Members
  <2>3. air' \in [Nodes -> Packet] /\ air'[n] = s.tx /\ \A m \in Nodes \ {n} : air'[m] = air[m]
    BY <1>1, <2>1, <2>2
  <2>4. AirOK(s.tx, s)
    BY <1>1, <1>4 DEF AirOK
  <2>5. ASSUME NEW m \in Nodes PROVE NodeOK(m)'
    <3>1. CASE m = n
      BY <1>1, <2>1, <2>3, <2>4, <3>1 DEF NodeOK, NodesOK
    <3>2. CASE m # n
      BY <1>1, <2>1, <2>3, <3>2 DEF NodeOK, NodesOK
    <3> QED
      BY <3>1, <3>2
  <2>6. NodesOK'
    BY <1>1, <2>1, <2>3, <2>5 DEF NodesOK
  <2>7. UNCHANGED Service!vars
    BY <1>1, <2>1 DEF Service!vars
  <2> QED
    BY <1>2, <2>6, <2>7 DEF Refined, LinkInv
<1> QED
  BY <1>3, <1>4

LEMMA EndTxRefined ==
    ASSUME LinkInv, NEW n \in Nodes, NEW hearers \in SUBSET (Nodes \ {n}), EndTx(n, hearers)
    PROVE  Refined
<1> DEFINE s == node[n]
           t == PdDataConfirm(s)
<1>1. /\ air[n] # NoFrame /\ Put(n, t) /\ air' = [air EXCEPT ![n] = NoFrame] /\ UNCHANGED delivered
      /\ \A h \in Nodes : node[h].next = "none"
      /\ \A h \in hearers : node[h].mac # "SENDING"
      /\ arriving' = [h \in Nodes |-> IF h \in hearers THEN air[n] ELSE NoFrame]
      /\ NodesOK /\ NodeOK(n) /\ node \in [Nodes -> Members] /\ air \in [Nodes -> Packet]
  BY DEF EndTx, Settled, LinkInv, NodesOK
<1>2. /\ MacInv(s) /\ AckOK(s, delivered) /\ QueueOK(s, n, delivered) /\ s \in Members
      /\ s.next = "none" /\ s.mac = "SENDING" /\ air[n] = s.tx /\ (s.tx.kind = "data" => ~s.tx.long)
      /\ s.tx \in Packet /\ s.tx # NoFrame
  BY <1>1 DEF NodeOK, AirOK, MacInv, Members
<1>3. s.tx.kind = "ack" \/ (s.tx.kind = "data" /\ s.tx \in Frame)
  BY <1>2, PacketKind
<1>4. MacInv(t) /\ NoNewAck(s, t)
  BY <1>2, PdDataConfirmInv
<1>5. \/ s.tx.kind = "ack" /\ Kept(s, t)
      \/ /\ s.tx.kind = "data" /\ ~s.tx.ack /\ Answered(s, t, "SUCCESS")
         /\ s.tx = Head(s.queue)
      \/ /\ s.tx.kind = "data" /\ s.tx.ack /\ Kept(s, t) /\ t.next = "ACK_PENDING" /\ t.retr = s.retr
         /\ s.tx = Head(s.queue) /\ s.queue # <<>>
  BY <1>2, <1>3, PdDataConfirmInv
<1>6. AckOK(t, delivered)
  BY <1>2, <1>4 DEF AckOK, NoNewAck
<1>7. /\ air' \in [Nodes -> Packet] /\ AirOK(air'[n], t) /\ \A m \in Nodes \ {n} : air'[m] = air[m]
      /\ s.timer = FALSE
  BY <1>1, <1>2, NoFrameKind DEF AirOK, MacInv, Waiting, Members
<1>8. NodesOK'
  <2> HIDE DEF s, t
  <2> QED
    BY <1>1, <1>4, <1>5, <1>6, <1>7, HandlerStep DEF s
<1>9. /\ node'[n] = t /\ \A m \in Nodes \ {n} : node'[m] = node[m]
  BY <1>1 DEF Put
<1>10. ASSUME NEW h \in Nodes, arriving'[h] # NoFrame PROVE ArrivingOK(h)'
  <2>1. h \in hearers /\ h # n /\ arriving'[h] = s.tx /\ node'[h] = node[h]
    BY <1>1, <1>2, <1>9, <1>10
  <2>2. node'[h].next = "none" /\ node'[h].mac # "SENDING"
    BY <1>1, <2>1
  <2>3. s.tx.kind = "ack" => Acked(s.tx.dsn, delivered)
    BY <1>2 DEF AckOK
  <2>4. ASSUME s.tx.kind = "data", s.tx.dst = h, s.tx.ack
        PROVE  /\ s.tx.src = n /\ t.next = "ACK_PENDING" /\ t.queue # <<>> /\ Head(t.queue) = s.tx
               /\ ~s.tx.long /\ delivered[s.tx.id].count <= t.retr
    <3>1. /\ Kept(s, t) /\ t.next = "ACK_PENDING" /\ t.retr = s.retr
          /\ s.tx = Head(s.queue) /\ s.queue # <<>>
      BY <1>5, <2>4
    <3>2. s.queue[1] = s.tx /\ 1 \in 1..Len(s.queue)
      BY <1>2, <3>1 DEF Members
    <3>3. s.tx.src = n /\ delivered[s.tx.id].count <= Attempts(s)
      BY <1>2, <2>4, <3>2 DEF QueueOK
    <3>4. Attempts(s) = s.retr
      BY <1>2, <1>7, AttemptsNat DEF Attempts
    <3> QED
      BY <1>2, <2>4, <3>1, <3>3, <3>4 DEF Kept
  <2>5. ASSUME s.tx.kind = "data", ~s.tx.ack
        PROVE  s.tx.src = n /\ SentLast(t, s.tx, delivered)
    <3>1. /\ Answered(s, t, "SUCCESS") /\ s.tx = Head(s.queue) /\ s.queue # <<>>
      BY <1>5, <2>5 DEF Answered
    <3>2. delivered \in Delivered /\ t \in Members
      BY <1>1, <1>4 DEF NodesOK, MacInv
    <3> HIDE DEF t
    <3> QED
      BY <1>2, <2>5, <3>1, <3>2, AnsweredLast
  <2>6. s.tx.kind = "data" => s.tx.src = n
    <3>1. s.tx.kind = "data" => s.queue # <<>> /\ s.queue[1] = s.tx /\ 1 \in 1..Len(s.queue)
      BY <1>2, <1>5 DEF Members, Answered
    <3> QED
      BY <1>2, <3>1 DEF QueueOK
  <2> HIDE DEF s, t
  <2> QED
    BY <1>1, <1>9, <2>1, <2>2, <2>3, <2>4, <2>5, <2>6 DEF ArrivingOK
<1>11. ArrivalsOK'
  <2>1. arriving' \in [Nodes -> Packet]
    BY <1>1, NoFrameKind
  <2>2. \A h \in Nodes : ArrivingOK(h)'
    BY <1>10 DEF ArrivingOK
  <2>3. \A g, h \in Nodes : arriving'[g] # NoFrame /\ arriving'[h] # NoFrame => arriving'[g] = arriving'[h]
    BY <1>1
  <2> QED
    BY <2>1, <2>2, <2>3 DEF ArrivalsOK
<1>12. Service!Next \/ UNCHANGED Service!vars
  <2>1. CASE Kept(s, t)
    <3> HIDE DEF s, t
    <3> QED
      BY <1>1, <2>1, MapsToStutter DEF s
  <2>2. CASE s.tx.kind = "data" /\ ~s.tx.ack /\ Answered(s, t, "SUCCESS") /\ s.tx = Head(s.queue)
    <3>1. Service!Allowed(Head(s.queue), "SUCCESS")
      BY <1>2, <2>2 DEF Service!Allowed
    <3> HIDE DEF s, t
    <3> QED
      BY <1>1, <2>2, <3>1, MapsToConfirm DEF s
  <2> QED
    BY <1>5, <2>1, <2>2
<1> QED
  BY <1>8, <1>11, <1>12 DEF Refined, LinkInv

\* What every reception has in common.
LEMMA Reception ==
    ASSUME LinkInv, NEW h \in Nodes, PdDataIndication(h)
    PROVE  /\ arriving[h] # NoFrame /\ arriving[h] \in Packet /\ UNCHANGED air
           /\ NodesOK /\ node \in [Nodes -> Members] /\ NodeOK(h) /\ node[h] \in Members
           /\ ArrivingOK(h) /\ node[h].next = "none" /\ node[h].mac # "SENDING"
           /\ arriving' \in [Nodes -> Packet] /\ arriving'[h] = NoFrame
           /\ \A m \in Nodes \ {h} : arriving'[m] = arriving[m]
           /\ \A m \in Nodes : arriving'[m] # NoFrame => m # h /\ arriving'[m] = arriving[h]
           /\ air \in [Nodes -> Packet] /\ \A m \in Nodes : AirOK(air[m], node[m])
           /\ \A t : AirOK(air'[h], t)
<1>1. /\ arriving[h] # NoFrame /\ arriving' = [arriving EXCEPT ![h] = NoFrame] /\ UNCHANGED air
      /\ arriving \in [Nodes -> Packet] /\ NodesOK /\ ArrivingOK(h)
      /\ \A g, m \in Nodes : arriving[g] # NoFrame /\ arriving[m] # NoFrame => arriving[g] = arriving[m]
  BY DEF PdDataIndication, LinkInv, ArrivalsOK
<1>2. arriving' \in [Nodes -> Packet] /\ arriving'[h] = NoFrame
      /\ \A m \in Nodes \ {h} : arriving'[m] = arriving[m]
  BY <1>1, NoFrameKind
<1>3. \A m \in Nodes : arriving'[m] # NoFrame => m # h /\ arriving'[m] = arriving[h]
  BY <1>1, <1>2
<1>4. node[h].next = "none" /\ node[h].mac # "SENDING"
  BY <1>1 DEF ArrivingOK
<1>5. /\ node \in [Nodes -> Members] /\ NodeOK(h) /\ air \in [Nodes -> Packet]
      /\ \A m \in Nodes : AirOK(air[m], node[m])
  BY <1>1 DEF NodesOK, NodeOK
<1>6. \A t : AirOK(air'[h], t)
  BY <1>1, <1>4, NotOnAir
<1> QED
  BY <1>1, <1>2, <1>3, <1>4, <1>5, <1>6

LEMMA AckArrives ==
    ASSUME LinkInv, NEW h \in Nodes, PdDataIndication(h), arriving[h].kind = "ack"
    PROVE  Refined
<1> DEFINE s == node[h]
           f == arriving[h]
           t == ReceiveAck(s, f.dsn)
<1>1. Put(h, t) /\ UNCHANGED delivered /\ UNCHANGED air /\ f # NoFrame
  BY DEF PdDataIndication
<1>2. /\ MacInv(s) /\ AckOK(s, delivered) /\ s.next = "none" /\ s.mac # "SENDING" /\ NodesOK
      /\ node \in [Nodes -> Members]
      /\ Acked(f.dsn, delivered)
  BY Reception DEF NodeOK, ArrivingOK
<1>3. MacInv(t) /\ NoNewAck(s, t)
      /\ \/ Kept(s, t)
         \/ s.timer /\ (Answered(s, t, "NO_ACK") \/ (s.tx.dsn = f.dsn /\ Answered(s, t, "SUCCESS")))
  BY <1>2, ReceiveAckInv
<1>4. AckOK(t, delivered)
  BY <1>2, <1>3 DEF AckOK, NoNewAck
<1>5. s.timer => Head(s.queue) = s.tx /\ ~s.tx.long /\ s.tx.ack
  BY <1>2 DEF MacInv, HasFirst
<1>6. NodesOK'
  <2>1. air' \in [Nodes -> Packet] /\ AirOK(air'[h], t)
    BY <1>1, Reception
  <2> HIDE DEF s, t, f
  <2> QED
    BY <1>1, <1>2, <1>3, <1>4, <2>1, HandlerStep DEF s
<1>7. ArrivalsOK'
  <2>1. ASSUME NEW m \in Nodes, arriving'[m] # NoFrame PROVE ArrivingOK(m)'
    <3>1. m # h /\ arriving'[m] = f /\ arriving[m] = f
      BY <2>1, Reception
    <3>2. node'[m] = node[m] /\ node[m].next = "none" /\ node[m].mac # "SENDING"
      BY <1>1, <1>2, <3>1 DEF Put, LinkInv, ArrivalsOK, ArrivingOK
    <3> QED
      BY <1>1, <1>2, <3>1, <3>2 DEF ArrivingOK
  <2>2. \A m \in Nodes : ArrivingOK(m)'
    BY <2>1 DEF ArrivingOK
  <2> QED
    BY <2>2, Reception DEF ArrivalsOK
<1>8. Service!Next \/ UNCHANGED Service!vars
  <2>1. CASE Kept(s, t)
    <3> HIDE DEF s, t
    <3> QED
      BY <1>1, <1>2, <2>1, MapsToStutter DEF s
  <2>2. CASE s.timer /\ Answered(s, t, "NO_ACK")
    <3>1. Service!Allowed(Head(s.queue), "NO_ACK")
      BY <1>5, <2>2 DEF Service!Allowed
    <3> HIDE DEF s, t
    <3> QED
      BY <1>1, <1>2, <2>2, <3>1, MapsToConfirm DEF s
  <2>3. CASE s.timer /\ s.tx.dsn = f.dsn /\ Answered(s, t, "SUCCESS")
    <3>1. DOMAIN delivered = 1..Len(delivered)
      BY DEF LinkInv, NodesOK, Delivered
    <3>2. Service!Acknowledged(s.tx)
      BY <1>2, <2>3, <3>1 DEF Service!Acknowledged, Acked
    <3>3. Service!Allowed(Head(s.queue), "SUCCESS")
      BY <1>5, <2>3, <3>2 DEF Service!Allowed
    <3> HIDE DEF s, t
    <3> QED
      BY <1>1, <1>2, <2>3, <3>3, MapsToConfirm DEF s
  <2> QED
    BY <1>3, <2>1, <2>2, <2>3
<1> QED
  BY <1>6, <1>7, <1>8 DEF Refined, LinkInv

LEMMA DataArrives ==
    ASSUME LinkInv, NEW h \in Nodes, PdDataIndication(h), arriving[h].kind # "ack",
           arriving[h].dst = h, arriving[h].ack
    PROVE  Refined
<1> DEFINE s == node[h]
           f == arriving[h]
           t == ReceiveData(s, f)
           new == [delivered EXCEPT ![f.id].count = @ + 1]
           r == node[f.src]
<1>1. Put(h, t) /\ delivered' = new /\ UNCHANGED air
  BY DEF PdDataIndication
<1>2. /\ MacInv(s) /\ AckOK(s, delivered) /\ QueueOK(s, h, delivered) /\ s \in Members
      /\ s.next = "none" /\ s.mac # "SENDING" /\ NodesOK
      /\ node \in [Nodes -> Members] /\ delivered \in Delivered
  BY Reception DEF NodeOK, NodesOK
<1>3. f.kind = "data" /\ f \in Frame /\ f.src \in Nodes
  BY Reception, PacketKind DEF Frame
<1>4. /\ r.next = "ACK_PENDING" /\ r.queue # <<>> /\ Head(r.queue) = f /\ ~f.long
      /\ delivered[f.id].count <= r.retr
  BY <1>3, Reception DEF ArrivingOK
<1>5. f.src # h /\ r \in Members /\ MacInv(r) /\ QueueOK(r, f.src, delivered)
  BY <1>2, <1>3, <1>4 DEF NodesOK, NodeOK
<1>6. r.queue[1] = f /\ 1 \in 1..Len(r.queue)
  BY <1>4, <1>5 DEF Members
<1>7. f.id \in 1..Len(delivered) /\ delivered[f.id].frame = f
  <2>1. \A i \in 1..Len(r.queue) :
          r.queue[i].id \in 1..Len(delivered) /\ delivered[r.queue[i].id].frame = r.queue[i]
    BY <1>5 DEF QueueOK
  <2> QED
    BY <1>6, <2>1
<1>8. delivered[f.id].count < Attempts(r) /\ delivered[f.id].count < MaxFrameRetries + 1
  <2>1. r.timer = TRUE /\ r.retr \in 0..MaxFrameRetries
    BY <1>4, <1>5 DEF MacInv, Waiting, Members
  <2>2. delivered[f.id].count \in Nat
    BY <1>2, <1>7, Entry
  <2> QED
    BY <1>4, <2>1, <2>2, Bounds DEF Attempts
<1>9. /\ new \in Delivered /\ Acked(f.dsn, new) /\ \A d : Acked(d, delivered) => Acked(d, new)
      /\ \A q : AckOK(q, delivered) => AckOK(q, new)
  BY <1>2, <1>7, HistoryCounts
<1>10. /\ MacInv(t) /\ (Kept(s, t) \/ (s.timer /\ Answered(s, t, "NO_ACK")))
       /\ t.next = "SendAck" /\ t.ackDsn = f.dsn
       /\ t.tx.kind = "ack" => t.tx = s.tx
  BY <1>2, <1>3, ReceiveDataInv
<1> HIDE DEF new, t
<1>11. AckOK(t, new)
  BY <1>2, <1>9, <1>10 DEF AckOK
<1>12. QueueOK(t, h, new)
  <2>1. t \in Members
    BY <1>10 DEF MacInv
  <2>2. QueueOK(t, h, delivered)
    BY <1>2, <1>10, <2>1, QueueKept, QueueAnswered
  <2> QED
    BY <1>2, <1>3, <1>5, <1>7, <2>1, <2>2, QueueDelivered DEF new
<1>13. node' = [node EXCEPT ![h] = t] /\ t \in Members
  BY <1>1, <1>10 DEF Put, MacInv
<1>14. ASSUME NEW m \in Nodes PROVE NodeOK(m)'
  <2>1. CASE m = h
    <3>1. node'[m] = t
      BY <1>2, <1>13, <2>1
    <3> QED
      BY <1>1, <1>10, <1>11, <1>12, <2>1, <3>1, Reception DEF NodeOK
  <2>2. CASE m # h
    <3>1. node'[m] = node[m] /\ node[m] \in Members /\ NodeOK(m)
      BY <1>2, <1>13, <2>2 DEF NodesOK
    <3>2. QueueOK(node[m], m, new)
      BY <1>2, <1>3, <1>4, <1>7, <1>8, <3>1, QueueDelivered DEF new, NodeOK
    <3> QED
      BY <1>1, <1>9, <3>1, <3>2 DEF NodeOK
  <2> QED
    BY <2>1, <2>2
<1>15. NodesOK'
  BY <1>1, <1>2, <1>9, <1>13, <1>14, Reception DEF NodesOK
<1>16. ArrivalsOK'
  <2>1. ASSUME NEW m \in Nodes, arriving'[m] # NoFrame PROVE ArrivingOK(m)'
    <3>1. m # h /\ arriving'[m] = f /\ arriving[m] = f /\ f # NoFrame
      BY <2>1, Reception
    <3>2. node'[m] = node[m] /\ node[m].next = "none" /\ node[m].mac # "SENDING"
      BY <1>2, <1>13, <3>1 DEF LinkInv, ArrivalsOK, ArrivingOK
    <3> QED
      BY <1>3, <3>1, <3>2 DEF ArrivingOK
  <2>2. \A m \in Nodes : ArrivingOK(m)'
    BY <2>1 DEF ArrivingOK
  <2> QED
    BY <2>2, Reception DEF ArrivalsOK
<1>17. Service!Next
  <2>1. Service!Reach(f.src)
    BY <1>1, <1>3, <1>4, <1>8, Bounds DEF Service!Reach, new
  <2>2. CASE Kept(s, t)
    <3>1. \A m \in Nodes : node'[m].queue = node[m].queue /\ node'[m].log = node[m].log
      BY <1>2, <1>13, <2>2 DEF Kept
    <3> QED
      BY <1>3, <2>1, <3>1 DEF Service!Next, Service!Deliver
  <2>3. CASE s.timer /\ Answered(s, t, "NO_ACK")
    <3>1. Head(s.queue) = s.tx /\ ~s.tx.long /\ s.tx.ack
      BY <1>2, <2>3 DEF MacInv, HasFirst
    <3>2. Service!Allowed(Head(s.queue), "NO_ACK")
      BY <3>1 DEF Service!Allowed
    <3>3. Service!Answer(h, "NO_ACK")
      BY <1>1, <1>2, <2>3, <3>2, MapsToAnswer
    <3> QED
      BY <1>3, <1>5, <2>1, <3>3 DEF Service!Next, Service!DeliverAndGiveUp
  <2> QED
    BY <1>10, <2>2, <2>3
<1> QED
  BY <1>15, <1>16, <1>17 DEF Refined, LinkInv

\* A frame that asks for no ACK changes nothing but the history.
LEMMA UnackedArrives ==
    ASSUME LinkInv, NEW h \in Nodes, PdDataIndication(h), arriving[h].kind # "ack",
           arriving[h].dst = h, ~arriving[h].ack
    PROVE  Refined
<1> DEFINE f == arriving[h]
           new == [delivered EXCEPT ![f.id].count = @ + 1]
<1>1. node' = node /\ delivered' = new /\ UNCHANGED air
  <2>1. Put(h, node[h]) /\ delivered' = new /\ UNCHANGED air
    BY DEF PdDataIndication
  <2>2. node \in [Nodes -> Members]
    BY Reception
  <2> QED
    BY <2>1, <2>2 DEF Put
<1>2. NodesOK /\ node \in [Nodes -> Members] /\ delivered \in Delivered
  BY Reception DEF NodesOK
<1>3. f.kind = "data" /\ f \in Frame /\ f.src \in Nodes /\ f.src # h
  BY Reception, PacketKind DEF Frame, ArrivingOK
<1>4. SentLast(node[f.src], f, delivered)
  BY <1>3, Reception DEF ArrivingOK
<1>5. /\ f.id \in 1..Len(delivered) /\ delivered[f.id].frame = f /\ delivered[f.id].count = 0
      /\ \A i \in 1..Len(node[f.src].queue) : node[f.src].queue[i].id # f.id
      /\ node[f.src].log # <<>>
      /\ node[f.src].log[Len(node[f.src].log)] = [id |-> f.id, status |-> "SUCCESS"]
  BY <1>4 DEF SentLast
<1>6. new \in Delivered /\ \A q : AckOK(q, delivered) => AckOK(q, new)
  BY <1>2, <1>5, HistoryCounts
<1> HIDE DEF new
<1>7. ASSUME NEW m \in Nodes PROVE NodeOK(m)'
  <2>1. NodeOK(m) /\ node[m] \in Members
    BY <1>2 DEF NodesOK
  <2>2. QueueOK(node[m], m, new)
    BY <1>2, <1>3, <1>5, <2>1, QueueDelivered DEF new, NodeOK
  <2> QED
    BY <1>1, <1>6, <2>1, <2>2 DEF NodeOK
<1>8. NodesOK'
  BY <1>1, <1>2, <1>6, <1>7, Reception DEF NodesOK
<1>9. ArrivalsOK'
  <2>1. ASSUME NEW m \in Nodes, arriving'[m] # NoFrame PROVE ArrivingOK(m)'
    <3>1. m # h /\ arriving'[m] = f /\ arriving[m] = f /\ f # NoFrame
      BY <2>1, Reception
    <3>2. node'[m] = node[m] /\ node[m].next = "none" /\ node[m].mac # "SENDING"
      BY <1>1, <3>1 DEF LinkInv, ArrivalsOK, ArrivingOK
    <3> QED
      BY <1>3, <3>1, <3>2 DEF ArrivingOK
  <2>2. \A m \in Nodes : ArrivingOK(m)'
    BY <2>1 DEF ArrivingOK
  <2> QED
    BY <2>2, Reception DEF ArrivalsOK
<1>10. Service!ReachUnacknowledged(f.src)
  <2> DEFINE e == [id |-> f.id, status |-> "SUCCESS"]
  <2>1. e.id = f.id /\ e.status = "SUCCESS"
    OBVIOUS
  <2>2. f.dst # Everyone /\ ~f.ack
    BY Bounds
  <2> QED
    BY <1>1, <1>3, <1>5, <2>1, <2>2 DEF Service!ReachUnacknowledged, new
<1>11. Service!Next
  BY <1>1, <1>3, <1>10 DEF Service!Next, Service!Deliver
<1> QED
  BY <1>8, <1>9, <1>11 DEF Refined, LinkInv

LEMMA OtherArrives ==
    ASSUME LinkInv, NEW h \in Nodes, PdDataIndication(h), arriving[h].kind # "ack", arriving[h].dst # h
    PROVE  Refined
<1>1. UNCHANGED <<node, delivered, air>>
  BY DEF PdDataIndication
<1>2. NodesOK'
  BY <1>1, Reception DEF NodesOK, NodeOK
<1>3. ArrivalsOK'
  <2>1. \A m \in Nodes : ArrivingOK(m)'
    BY <1>1, Reception DEF ArrivingOK, LinkInv, ArrivalsOK
  <2> QED
    BY <2>1, Reception DEF ArrivalsOK
<1>4. UNCHANGED Service!vars
  BY <1>1 DEF Service!vars
<1> QED
  BY <1>2, <1>3, <1>4 DEF Refined, LinkInv

LEMMA RequestIsFrame ==
    ASSUME LinkInv, NEW n \in Nodes, NEW d \in Nodes \cup {Everyone}, NEW long \in BOOLEAN,
           NEW option \in BOOLEAN, Len(delivered) < MaxRequests
    PROVE  LET f == Request(n, d, long, option) IN
           /\ f \in Frame /\ f.id = Len(delivered) + 1 /\ f.src = n /\ f.dst = d
           /\ f.ack => f.dst # Everyone
           /\ (node[n].dsn + 1) % DsnModulus \in Dsns
<1>1. node[n].dsn \in Dsns /\ Len(delivered) \in Nat
  BY DEF LinkInv, NodesOK, Members, Delivered
<1>2. Len(delivered) + 1 \in 1..MaxRequests
  BY <1>1, Bounds
<1>3. (node[n].dsn + 1) % DsnModulus \in Dsns
  BY <1>1, Bounds DEF Dsns
<1> QED
  BY <1>1, <1>2, <1>3 DEF Request, Frame, Dsns

LEMMA RequestRefined ==
    ASSUME LinkInv, NEW n \in Nodes, NEW d \in (Nodes \ {n}) \cup {Everyone}, NEW long \in BOOLEAN,
           NEW option \in BOOLEAN, McpsDataRequest(n, d, long, option)
    PROVE  Refined
<1> DEFINE s == node[n]
           f == Request(n, d, long, option)
           r == [s EXCEPT !.queue = Append(@, f), !.dsn = (@ + 1) % DsnModulus]
           t == CheckQueue(r)
           new == Append(delivered, [count |-> 0, frame |-> f])
<1>1. /\ NothingArrives /\ Len(delivered) < MaxRequests /\ Put(n, t) /\ delivered' = new
      /\ UNCHANGED <<air, arriving>>
  BY DEF McpsDataRequest
<1>2. /\ NodesOK /\ MacInv(s) /\ s \in Members /\ AckOK(s, delivered) /\ QueueOK(s, n, delivered)
      /\ AirOK(air[n], s) /\ node \in [Nodes -> Members] /\ delivered \in Delivered
      /\ air \in [Nodes -> Packet]
  BY DEF LinkInv, NodesOK, NodeOK
<1>3. /\ f \in Frame /\ f.id = Len(delivered) + 1 /\ f.src = n /\ f.dst = d /\ d # n
      /\ f.ack => f.dst # Everyone
      /\ (s.dsn + 1) % DsnModulus \in Dsns
  BY <1>1, RequestIsFrame, Bounds
<1> HIDE DEF f
<1>4. /\ r \in Members /\ r.queue = Append(s.queue, f) /\ r.tx = s.tx /\ r.mac = s.mac
      /\ r.next = s.next /\ r.timer = s.timer /\ r.retr = s.retr /\ r.log = s.log
      /\ r.ackDsn = s.ackDsn
  <2>1. Append(s.queue, f) \in Seq(Frame)
    BY <1>2, <1>3 DEF Members
  <2> QED
    BY <1>2, <1>3, <2>1 DEF Members
<1>5. r.queue # <<>> /\ (s.queue # <<>> => Head(r.queue) = Head(s.queue))
  BY <1>2, <1>3, <1>4, AppendProperties, HeadTailAppend DEF Members
<1> HIDE DEF r
<1>6. MacInv(r)
  BY <1>2, <1>4, <1>5 DEF MacInv, Waiting, HasFirst
<1>7. MacInv(t) /\ Kept(r, t) /\ NoNewAck(r, t)
  BY <1>6, CheckQueueInv
<1>8. /\ new \in Delivered /\ \A q : AckOK(q, delivered) => AckOK(q, new)
      /\ \A q, m : QueueOK(q, m, delivered) => QueueOK(q, m, new)
  BY <1>2, <1>3, HistoryGrows
<1>9. QueueOK(r, n, new)
  BY <1>2, <1>3, <1>4, QueueJoined DEF Attempts
<1>10. t \in Members /\ t.queue = Append(s.queue, f) /\ t.log = s.log
  BY <1>4, <1>7 DEF MacInv, Kept
<1>11. air[n] # NoFrame => t = r
  BY <1>2, <1>4 DEF AirOK, CheckQueue
<1> HIDE DEF t, new
<1>12. QueueOK(t, n, new)
  BY <1>4, <1>7, <1>8, <1>9, <1>10, QueueKept
<1>13. AckOK(t, new)
  BY <1>2, <1>4, <1>7, <1>8 DEF AckOK, NoNewAck
<1>14. AirOK(air[n], t)
  BY <1>2, <1>4, <1>11 DEF AirOK
<1>15. node' = [node EXCEPT ![n] = t]
  BY <1>1 DEF Put
<1>16. ASSUME NEW m \in Nodes PROVE NodeOK(m)'
  <2>1. CASE m = n
    BY <1>1, <1>2, <1>7, <1>12, <1>13, <1>14, <1>15, <2>1 DEF NodeOK
  <2>2. CASE m # n
    BY <1>1, <1>2, <1>8, <1>15, <2>2 DEF NodeOK, NodesOK
  <2> QED
    BY <2>1, <2>2
<1>17. NodesOK'
  BY <1>1, <1>2, <1>8, <1>10, <1>15, <1>16 DEF NodesOK
<1>18. ArrivalsOK'
  BY <1>1, StillQuiet
<1>19. PICK g \in Frame : g = f
  BY <1>3
<1>20. Service!Submit(g)
  <2>1. [m \in Nodes |-> node'[m].queue]
          = [[m \in Nodes |-> node[m].queue] EXCEPT ![n] = Append(@, f)]
    BY <1>2, <1>10, <1>15
  <2>2. [m \in Nodes |-> node'[m].log] = [m \in Nodes |-> node[m].log]
    BY <1>2, <1>10, <1>15
  <2> QED
    BY <1>1, <1>3, <1>19, <2>1, <2>2 DEF Service!Submit, new
<1>21. Service!Next
  BY <1>20 DEF Service!Next
<1> QED
  BY <1>17, <1>18, <1>21 DEF Refined, LinkInv

LEMMA RefusalRefined ==
    ASSUME LinkInv, NEW n \in Nodes, McpsDataRequestFails(n)
    PROVE  Refined
<1> DEFINE s == node[n]
           f == Request(n, Everyone, TRUE, FALSE)
           c == [id |-> f.id, status |-> "INVALID"]
           t == [s EXCEPT !.log = Append(@, c), !.dsn = (@ + 1) % DsnModulus]
           new == Append(delivered, [count |-> 0, frame |-> f])
<1>1. /\ NothingArrives /\ Len(delivered) < MaxRequests /\ Put(n, t) /\ delivered' = new
      /\ UNCHANGED <<air, arriving>>
  BY DEF McpsDataRequestFails
<1>2. /\ NodesOK /\ MacInv(s) /\ s \in Members /\ AckOK(s, delivered) /\ QueueOK(s, n, delivered)
      /\ AirOK(air[n], s) /\ node \in [Nodes -> Members] /\ delivered \in Delivered
      /\ air \in [Nodes -> Packet]
  BY DEF LinkInv, NodesOK, NodeOK
<1>3. /\ f \in Frame /\ f.id = Len(delivered) + 1 /\ f.src = n
      /\ (s.dsn + 1) % DsnModulus \in Dsns
  <2>1. TRUE \in BOOLEAN /\ FALSE \in BOOLEAN /\ Everyone \in Nodes \cup {Everyone}
    OBVIOUS
  <2> QED
    BY <1>1, <2>1, RequestIsFrame
<1> HIDE DEF f
<1>4. Append(s.log, c) \in Confirms
  <2>1. c \in [id : 1..MaxRequests, status : Statuses]
    BY <1>3 DEF Frame, Statuses
  <2> QED
    BY <1>2, <2>1 DEF Members, Confirms
<1>5. /\ t \in Members /\ t.queue = s.queue /\ t.tx = s.tx /\ t.mac = s.mac
      /\ t.next = s.next /\ t.timer = s.timer /\ t.retr = s.retr /\ t.ackDsn = s.ackDsn
      /\ t.log = Append(s.log, c)
  BY <1>2, <1>3, <1>4 DEF Members
<1>6. /\ new \in Delivered /\ \A q : AckOK(q, delivered) => AckOK(q, new)
      /\ \A q, m : QueueOK(q, m, delivered) => QueueOK(q, m, new)
  BY <1>2, <1>3, HistoryGrows
<1> HIDE DEF t, new
<1>7. MacInv(t)
  BY <1>2, <1>5 DEF MacInv, Waiting, HasFirst
<1>8. QueueOK(t, n, new)
  <2>1. QueueOK(s, n, new)
    BY <1>2, <1>6
  <2>2. t.queue = s.queue /\ Attempts(t) = Attempts(s)
    BY <1>5 DEF Attempts
  <2> QED
    BY <2>1, <2>2 DEF QueueOK
<1>9. AckOK(t, new) /\ AirOK(air[n], t)
  BY <1>2, <1>5, <1>6 DEF AckOK, AirOK
<1>10. node' = [node EXCEPT ![n] = t]
  BY <1>1 DEF Put
<1>11. ASSUME NEW m \in Nodes PROVE NodeOK(m)'
  <2>1. CASE m = n
    BY <1>1, <1>2, <1>7, <1>8, <1>9, <1>10, <2>1 DEF NodeOK
  <2>2. CASE m # n
    BY <1>1, <1>2, <1>6, <1>10, <2>2 DEF NodeOK, NodesOK
  <2> QED
    BY <2>1, <2>2
<1>12. NodesOK'
  BY <1>1, <1>2, <1>5, <1>6, <1>10, <1>11 DEF NodesOK
<1>13. ArrivalsOK'
  BY <1>1, StillQuiet
<1>14. PICK g \in Frame : g = f
  BY <1>3
<1>15. Service!Refuse(g)
  <2>1. [m \in Nodes |-> node'[m].queue] = [m \in Nodes |-> node[m].queue]
    BY <1>2, <1>5, <1>10
  <2>2. [m \in Nodes |-> node'[m].log]
          = [[m \in Nodes |-> node[m].log] EXCEPT ![n] = Append(@, c)]
    BY <1>2, <1>5, <1>10
  <2> QED
    BY <1>1, <1>3, <1>14, <2>1, <2>2 DEF Service!Refuse, new
<1>16. Service!Next
  BY <1>15 DEF Service!Next
<1> QED
  BY <1>12, <1>13, <1>16 DEF Refined, LinkInv

LEMMA StepRefined ==
    ASSUME LinkInv, [LinkNext]_linkVars
    PROVE  Refined
<1>1. CASE UNCHANGED linkVars
  <2>1. UNCHANGED <<node, air, arriving, delivered>>
    BY <1>1 DEF linkVars
  <2>2. LinkInv'
    BY <2>1 DEF LinkInv, NodesOK, NodeOK, ArrivalsOK, ArrivingOK
  <2>3. UNCHANGED Service!vars
    BY <2>1 DEF Service!vars
  <2> QED
    BY <2>2, <2>3 DEF Refined
<1>2. ASSUME NEW n \in Nodes, PdDataIndication(n) PROVE Refined
  BY <1>2, AckArrives, DataArrives, UnackedArrives, OtherArrives
<1>3. ASSUME NEW n \in Nodes, Work(n) PROVE Refined
  BY <1>2, <1>3, ScheduledRefined, StartTxRefined, TimeoutRefined, VerdictRefined, EndTxRefined DEF Work
<1> QED
  BY <1>1, <1>3, RequestRefined, RefusalRefined DEF LinkNext

-----------------------------------------------------------------------------
\* The asserts of the MAC hold between events, for any number of nodes, whatever frames and
\* ACKs are lost, and wherever the sequence numbers start and wrap.
THEOREM MacConsistentHolds == LinkSpec => []MacConsistent
<1>1. LinkInv /\ [LinkNext]_linkVars => LinkInv'
  BY StepRefined DEF Refined
<1>2. LinkInv => MacConsistent
  <2> SUFFICES ASSUME LinkInv PROVE MacConsistent
    OBVIOUS
  <2>1. ASSUME NEW n \in Nodes PROVE MacInv(node[n]) /\ node[n] \in Members
    BY DEF LinkInv, NodesOK, NodeOK, MacInv
  <2>2. LinkTypeOK
    BY <2>1 DEF LinkTypeOK, Members, Dsns
  <2>3. ASSUME NEW n \in Nodes
        PROVE  LET s == node[n] IN
                 /\ s.next = "none" =>
                      /\ s.mac \in {"CSMA", "ACK_PENDING"} => s.queue # <<>> /\ s.tx = Head(s.queue)
                      /\ s.mac = "SENDING" => s.tx # NoFrame
                      /\ s.timer <=> s.mac = "ACK_PENDING"
                 /\ s.next = "SendAck" => s.mac = "IDLE"
    BY <2>1 DEF MacInv, Waiting, HasFirst
  <2> QED
    BY <2>2, <2>3 DEF MacConsistent
<1> QED
  BY <1>1, <1>2, InitLink, PTL DEF LinkSpec

\* Together the MACs implement the data service: PdDataIndication, the timer and CSMA-CA
\* never confirm a request twice or out of order, and never one of a frame that is not in
\* line.  SUCCESS for a frame that asked for an ACK means that a frame of that number which
\* asked for one, too, was delivered; for one that asked for none, that it was sent: it may
\* be delivered once, before the next confirm of its sender.
THEOREM ImplementsService == LinkSpec => ServiceSpec
<1>1. LinkInit => Service!Init
  BY DEF LinkInit, Fresh, Service!Init
<1>2. LinkInv /\ [LinkNext]_linkVars => LinkInv' /\ [Service!Next]_(Service!vars)
  BY StepRefined DEF Refined
<1> QED
  BY <1>1, <1>2, InitLink, PTL DEF LinkSpec, ServiceSpec, Service!Spec
===============================================================================
