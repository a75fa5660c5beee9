------------------------------ MODULE SensorNode ------------------------------
(***************************************************************************)
(* The sensor nodes: interrupts count the openings of the valves, CoAP     *)
(* resources give the counters and overwrite them, and /sha256 digests     *)
(* what is posted to it block by block.  The counters and the digest's     *)
(* context are in RAM.                                                     *)
(***************************************************************************)
EXTENDS Integers, Sequences

CONSTANTS
    NumMachines,     \* nodes
    NumValves,       \* valve inputs of a node
    Payloads,        \* numbers that are PUT to a counter
    Uploads,         \* posts to /sha256 of node 1, and
    LastBlock,       \* the number of the last block of each
    MaxOpenings,     \* bounds: openings of a valve,
    MaxBoots,        \*   restarts of a node,
    MaxPosts         \*   posts to /sha256

Machines == 1 .. NumMachines
Valves   == 1 .. NumValves
ShaNode  == 1

ASSUME NodeAssumption ==
    /\ NumMachines \in Nat \ {0} /\ NumValves \in Nat \ {0}
    /\ Payloads \subseteq Nat
    /\ LastBlock \in [Uploads -> Nat]
    /\ MaxOpenings \in Nat /\ MaxBoots \in Nat /\ MaxPosts \in Nat

VARIABLES
    secondValue,     \* the counters of a node
    sha256,          \* the shared context: what it was fed since it was initialised
    nextBlock,       \* per upload, the block its client sends next
    digest,          \* per upload, what the digest in its last reply covers
    opened,          \* history: openings of each valve
    boots,           \* history: restarts of each node
    written,         \* history: the counters that were overwritten
    disturbed,       \* history: uploads whose context something else has touched
    posts            \* for the bound: posts so far

shaVars  == <<sha256, nextBlock, digest, disturbed, posts>>
nodeVars == <<secondValue, shaVars, opened, boots, written>>

NodeInit ==
    /\ secondValue = [m \in Machines |-> [v \in Valves |-> 0]]
    /\ sha256 = <<>>
    /\ nextBlock = [u \in Uploads |-> 0] /\ digest = [u \in Uploads |-> <<>>]
    /\ opened = [m \in Machines |-> [v \in Valves |-> 0]]
    /\ boots = [m \in Machines |-> 0] /\ written = {} /\ disturbed = {} /\ posts = 0

----------------------------------------------------------------------------
UnderWay == {u \in Uploads : nextBlock[u] > 0 /\ nextBlock[u] <= LastBlock[u]}

Boot(m) ==
    /\ boots[m] < MaxBoots
    /\ boots' = [boots EXCEPT ![m] = @ + 1]
    /\ secondValue' = [secondValue EXCEPT ![m] = [v \in Valves |-> 0]]
    /\ IF m = ShaNode THEN sha256' = <<>> /\ disturbed' = disturbed \cup UnderWay
       ELSE UNCHANGED <<sha256, disturbed>>
    /\ UNCHANGED <<nextBlock, digest, posts, written>>

PowerCycle(m) == Boot(m) /\ UNCHANGED opened

(* The handlers first increment what their argument, NULL, points to: that *)
(* stops the node, which starts again, or does no harm.                    *)
ValveHandler(m, v) ==
    /\ opened[m][v] < MaxOpenings
    /\ opened' = [opened EXCEPT ![m][v] = @ + 1]
    /\ \/ /\ secondValue' = [secondValue EXCEPT ![m][v] = @ + 1]
          /\ UNCHANGED <<shaVars, boots, written>>
       \/ Boot(m)

(* PUT to /riot/valveN.  A GET gives secondValue[m][v].                    *)
PutValue(m, v, payload) ==
    /\ secondValue' = [secondValue EXCEPT ![m][v] = payload]
    /\ written' = written \cup {<<m, v>>}
    /\ UNCHANGED <<shaVars, opened, boots>>

----------------------------------------------------------------------------
(* What the context holds once a block has been digested.                  *)
DigestedSlip(u, offset) == Append(sha256, <<u, offset>>)         \* Slip: no sha256_init
Digested(u, offset) ==
    IF offset = 0 THEN <<<<u, 0>>>> ELSE Append(sha256, <<u, offset>>)

(* The client sends a block again when the reply is lost; the server does  *)
(* not know a block it has had.  Finishing pads the context, as if with    *)
(* one block more.                                                         *)
Sha256Handler(u, replyLost) ==
    LET offset == nextBlock[u]
        more   == offset < LastBlock[u]
        whole  == Digested(u, offset)
    IN /\ offset <= LastBlock[u]
       /\ posts < MaxPosts /\ posts' = posts + 1
       /\ sha256' = IF more THEN whole ELSE Append(whole, <<u, offset + 1>>)
       /\ IF replyLost THEN UNCHANGED <<nextBlock, digest>>
          ELSE /\ nextBlock' = [nextBlock EXCEPT ![u] = @ + 1]
               /\ digest' = IF more THEN digest ELSE [digest EXCEPT ![u] = whole]
       /\ disturbed' = ((IF offset = 0 THEN disturbed \ {u} ELSE disturbed)
                          \cup (UnderWay \ {u}))
                       \cup (IF replyLost /\ offset > 0 THEN {u} ELSE {})
       /\ UNCHANGED <<secondValue, opened, boots, written>>

(* The client starts over, as often as it likes.                           *)
UploadAgain(u) ==
    /\ nextBlock[u] > 0
    /\ nextBlock' = [nextBlock EXCEPT ![u] = 0]
    /\ digest' = [digest EXCEPT ![u] = <<>>]
    /\ UNCHANGED <<secondValue, sha256, opened, boots, written, disturbed, posts>>

NodeNext ==
    \/ \E m \in Machines :
         \/ PowerCycle(m)
         \/ \E v \in Valves : \/ ValveHandler(m, v)
                              \/ \E payload \in Payloads : PutValue(m, v, payload)
    \/ \E u \in Uploads : UploadAgain(u) \/ \E lost \in BOOLEAN : Sha256Handler(u, lost)

----------------------------------------------------------------------------
(* The digest an upload is given covers exactly its blocks, unless another *)
(* upload, a block sent twice or a restart got into the shared context     *)
(* while it was under way: then it never does.                             *)
DigestWhole ==
    \A u \in Uploads : digest[u] # <<>> =>
        (u \notin disturbed <=> digest[u] = [k \in 1 .. LastBlock[u] + 1 |-> <<u, k - 1>>])
=============================================================================
