------------------------------ MODULE Untaint ------------------------------
(***************************************************************************)
(* The untainting protocol of the time service nodes (ENode.cpp).  A node  *)
(* whose enclave was interrupted is tainted.  Its refresh thread sends the *)
(* numbered request T of a round to every sibling; a sibling whose clock   *)
(* agrees with the time authority answers U, with its own view of the      *)
(* requester; the receive thread records the answers per sibling and       *)
(* clears the taint when enough of them agree.                             *)
(*                                                                         *)
(* A message handler is one step: the receive thread runs one at a time,   *)
(* and it is the only one that touches the registers.  The values of the   *)
(* clocks are left to other modules; what U finds of them, that the offset *)
(* is below PEER_CONSISTENCY_DRIFT_THRESHOLD, is an input of the step.     *)
(***************************************************************************)
EXTENDS Naturals, FiniteSets

CONSTANTS
  Node,       \* the time service nodes
  Links,      \* <<n, m>>: the program calls n's add_sibling with m's address
  Verdicts,   \* the outcomes of the comparison of an offset with the threshold
  Lossy,      \* may the network lose and duplicate datagrams
  MaxRound,   \* bound: rounds of requests each node sends
  MaxNet      \* bound: datagrams in flight

ASSUME NodeAssumption == IsFiniteSet(Node)
ASSUME LinksAssumption == Links \subseteq (Node \X Node)
ASSUME InputAssumption == Verdicts \subseteq BOOLEAN /\ Lossy \in BOOLEAN
ASSUME BoundAssumption == MaxRound \in [Node -> Nat] /\ MaxNet \in Nat

VARIABLES
  sibs,        \* sibs[n]: the vector siblings of n
  tainted,     \* tainted[n]
  pending,     \* the loop of requests has a round to send: it begins, or
               \* total_aex_count has moved since the loop read it
  refreshing,  \* the refresh thread is in its loop of requests
  asked,       \* tainted_msg_count, the number of the next round
  peer,        \* peer[n][m]: what n keeps about its sibling m
  taOK,        \* clock_state = TA_CONSISTENT_STATE
  net,         \* datagrams in flight
  vouched      \* history: <<m, n, c>>, m answered n's round c TA-consistent

vars == <<sibs, tainted, pending, refreshing, asked, peer, taOK, net, vouched>>

Register == [count : Nat, cons : BOOLEAN, views : BOOLEAN]
TMsg == [type : {"T"}, from : Node, to : Node, count : Nat]
UMsg == [type : {"U"}, from : Node, to : Node, count : Nat, view : BOOLEAN]
SMsg == [type : {"S"}, from : Node, to : Node]

TypeOK ==
  /\ sibs \in [Node -> SUBSET Node] /\ \A n \in Node : n \notin sibs[n]
  /\ tainted \in [Node -> BOOLEAN]
  /\ pending \in [Node -> BOOLEAN]
  /\ refreshing \in [Node -> BOOLEAN]
  /\ asked \in [Node -> Nat]
  /\ peer \in [Node -> [Node -> Register]]
  /\ taOK \in [Node -> BOOLEAN]
  /\ net \subseteq (TMsg \cup UMsg \cup SMsg)
  /\ vouched \subseteq (Node \X Node \X Nat)

Init ==
  /\ sibs = [n \in Node |-> {}]
  /\ tainted = [n \in Node |-> FALSE]
  /\ pending = [n \in Node |-> FALSE]
  /\ refreshing = [n \in Node |-> FALSE]
  /\ asked = [n \in Node |-> 0]
  /\ peer = [n \in Node |->
               [m \in Node |-> [count |-> 0, cons |-> FALSE, views |-> FALSE]]]
  /\ taOK = [n \in Node |-> FALSE]
  /\ net = {}
  /\ vouched = {}

-----------------------------------------------------------------------------
(* Datagrams.  A lossy network may drop any of those sent; it delivers in  *)
(* any order, and may deliver one again.                                   *)
Sent(rest, ms) ==
  /\ net' \in IF Lossy THEN {rest \cup s : s \in SUBSET ms} ELSE {rest \cup ms}
  /\ Cardinality(net') <= MaxNet

After(msg) == IF Lossy THEN {net, net \ {msg}} ELSE {net \ {msg}}

Received(msg) == net' \in After(msg)

-----------------------------------------------------------------------------
(* The sibling registry *)

(* Mutant: the test for the own address is dropped. *)
AddSiblingOrSelf(n, m) ==
  /\ <<n, m>> \in Links /\ m \notin sibs[n]
  /\ sibs' = [sibs EXCEPT ![n] = @ \cup {m}]
  /\ Sent(net, {[type |-> "S", from |-> n, to |-> m]})
  /\ UNCHANGED <<tainted, pending, refreshing, asked, peer, taOK, vouched>>

AddSibling(n, m) ==
  /\ <<n, m>> \in Links /\ n # m /\ m \notin sibs[n]
  /\ sibs' = [sibs EXCEPT ![n] = @ \cup {m}]
  /\ Sent(net, {[type |-> "S", from |-> n, to |-> m]})
  /\ UNCHANGED <<tainted, pending, refreshing, asked, peer, taOK, vouched>>

HandleS(msg) ==
  /\ msg.type = "S"
  /\ Received(msg)
  /\ sibs' = [sibs EXCEPT ![msg.to] = @ \cup {msg.from}]
  /\ UNCHANGED <<tainted, pending, refreshing, asked, peer, taOK, vouched>>

-----------------------------------------------------------------------------
(* An AEX, or the monitor thread taints its own node after too many quiet  *)
(* rounds.                                                                 *)
Taint(n) ==
  /\ asked[n] < MaxRound[n]
  /\ tainted' = [tainted EXCEPT ![n] = TRUE]
  /\ pending' = [pending EXCEPT ![n] = refreshing[n]]
  /\ UNCHANGED <<sibs, refreshing, asked, peer, taOK, net, vouched>>

-----------------------------------------------------------------------------
(* The refresh thread *)

(* Mutant: the counter is incremented before the request is built. *)
SendAfterCounting(n) ==
  /\ asked[n] < MaxRound[n]
  /\ Sent(net, {[type |-> "T", from |-> n, to |-> m, count |-> asked[n] + 1] :
                  m \in sibs[n]})
  /\ asked' = [asked EXCEPT ![n] = @ + 1]
  /\ pending' = [pending EXCEPT ![n] = FALSE]

SendTaintedMessages(n) ==
  /\ asked[n] < MaxRound[n]
  /\ Sent(net, {[type |-> "T", from |-> n, to |-> m, count |-> asked[n]] :
                  m \in sibs[n]})
  /\ asked' = [asked EXCEPT ![n] = @ + 1]
  /\ pending' = [pending EXCEPT ![n] = FALSE]

(* The taint is looked at under the mutex; the round goes out after it is  *)
(* released, when the receive thread may have cleared the taint.           *)
RefreshWoken(n) ==
  /\ ~refreshing[n] /\ tainted[n] /\ asked[n] < MaxRound[n]
  /\ refreshing' = [refreshing EXCEPT ![n] = TRUE]
  /\ pending' = [pending EXCEPT ![n] = TRUE]
  /\ UNCHANGED <<sibs, tainted, asked, peer, taOK, net, vouched>>

RefreshRound(n) ==
  /\ refreshing[n] /\ pending[n]
  /\ SendTaintedMessages(n)
  /\ UNCHANGED <<sibs, tainted, refreshing, peer, taOK, vouched>>

(* 10 ms went by, or the taint is gone, and there was no AEX meanwhile. *)
RefreshEnd(n) ==
  /\ refreshing[n] /\ ~pending[n]
  /\ refreshing' = [refreshing EXCEPT ![n] = FALSE]
  /\ UNCHANGED <<sibs, tainted, pending, asked, peer, taOK, net, vouched>>

-----------------------------------------------------------------------------
(* The receive thread *)

Ignore(msg) ==
  /\ Received(msg)
  /\ UNCHANGED <<sibs, tainted, pending, refreshing, asked, peer, taOK,
                 vouched>>

(* Mutant: the test of the own clock_state is dropped. *)
AnswersAlways(msg) == msg.from \in sibs[msg.to]

(* The receiver answers a sibling, while it agrees with the authority. *)
Answers(msg) == msg.from \in sibs[msg.to] /\ taOK[msg.to]

Reply(msg) ==
  [type |-> "U", from |-> msg.to, to |-> msg.from, count |-> msg.count,
   view |-> peer[msg.to][msg.from].cons]

HandleT(msg) ==
  /\ msg.type = "T"
  /\ IF Answers(msg)
       THEN /\ \E rest \in After(msg) : Sent(rest, {Reply(msg)})
            /\ vouched' = IF taOK[msg.to]
                            THEN vouched \cup {<<msg.to, msg.from, msg.count>>}
                            ELSE vouched
            /\ UNCHANGED <<sibs, tainted, pending, refreshing, asked, peer,
                           taOK>>
       ELSE Ignore(msg)

(* Mutant: only the repetition of the last answer is a replay. *)
ReplayedLast(msg) == msg.count = peer[msg.to][msg.from].count

(* Mutant: a register that is as old as the answer is overwritten. *)
ReplayedEarlier(msg) == msg.count < peer[msg.to][msg.from].count

(* Reported as a replay, and not recorded. *)
Replayed(msg) == msg.count <= peer[msg.to][msg.from].count

Record(msg, ok) ==
  IF Replayed(msg) THEN peer
  ELSE [peer EXCEPT ![msg.to][msg.from] =
          [count |-> msg.count, cons |-> ok, views |-> msg.view]]

(* Mutant: an answer counts only once a later one is recorded. *)
ConsistentLater(n, count, reg) ==
  {m \in sibs[n] : /\ reg[m].cons
                   /\ count < reg[m].count
                   /\ \A k \in sibs[n] : reg[k].count <= reg[m].count}

(* The siblings found consistent in the latest round n has an answer of,   *)
(* and those that find n consistent.                                       *)
Consistent(n, count, reg) ==
  {m \in sibs[n] : /\ reg[m].cons
                   /\ count <= reg[m].count
                   /\ \A k \in sibs[n] : reg[k].count <= reg[m].count}

Viewing(n, reg) == {m \in sibs[n] : reg[m].views}

(* Mutant: the views of the siblings are not counted. *)
EnoughUnviewed(n, count, reg) ==
  Cardinality(Consistent(n, count, reg)) >= Cardinality(sibs[n]) - 1

Enough(n, count, reg) ==
  /\ Cardinality(Consistent(n, count, reg)) >= Cardinality(sibs[n]) - 1
  /\ Cardinality(Viewing(n, reg)) >= Cardinality(sibs[n]) - 1

HandleU(msg) ==
  /\ msg.type = "U"
  /\ IF msg.from \in sibs[msg.to]
       THEN /\ \E ok \in Verdicts : peer' = Record(msg, ok)
            /\ tainted' = IF Enough(msg.to, msg.count, peer'[msg.to])
                            THEN [tainted EXCEPT ![msg.to] = FALSE]
                            ELSE tainted
            /\ Received(msg)
            /\ UNCHANGED <<sibs, pending, refreshing, asked, taOK, vouched>>
       ELSE Ignore(msg)

(* What an answer of the time authority leaves for this protocol. *)
HandleD(n) ==
  /\ \E b \in BOOLEAN : taOK' = [taOK EXCEPT ![n] = b]
  /\ UNCHANGED <<sibs, tainted, pending, refreshing, asked, peer, net, vouched>>

-----------------------------------------------------------------------------
Handle(msg) == HandleS(msg) \/ HandleT(msg) \/ HandleU(msg)

Next ==
  \/ \E n \in Node : \/ \E m \in Node : AddSibling(n, m)
                     \/ Taint(n) \/ HandleD(n)
                     \/ RefreshWoken(n) \/ RefreshRound(n) \/ RefreshEnd(n)
  \/ \E msg \in net : HandleS(msg) \/ HandleT(msg) \/ HandleU(msg)

Spec == Init /\ [][Next]_vars

(* Fairness: the trigger wakes refresh every second while the node is      *)
(* tainted and its loop ends within 10 ms; the receive thread takes what   *)
(* reaches the socket.                                                     *)
RefreshThread(n) == RefreshWoken(n) \/ RefreshRound(n) \/ RefreshEnd(n)

ReceiveThread(n) == \E msg \in net : msg.to = n /\ Handle(msg)

Fairness ==
  \A n \in Node : SF_vars(RefreshThread(n)) /\ WF_vars(ReceiveThread(n))

(* The nodes stay in agreement with the authority once they are. *)
Steady == \A n \in Node : taOK[n] => taOK'[n]

FairSpec == Init /\ [][Next /\ Steady]_vars /\ Fairness
-----------------------------------------------------------------------------
(* No register of a sibling goes back to an earlier round, however late    *)
(* and however often the answers arrive (the test of line 690).            *)
RoundsNeverGoBack ==
  [][\A n, m \in Node : peer'[n][m].count >= peer[n][m].count]_vars

(* No node holds or awaits an answer to a round it has not sent: the       *)
(* counter a requester writes in T comes back in U unchanged.              *)
OnlySentRounds ==
  /\ \A msg \in net : /\ msg.type = "T" => msg.count < asked[msg.from]
                      /\ msg.type = "U" => msg.count < asked[msg.to]
  /\ \A n, m \in Node : peer[n][m].cons => peer[n][m].count < asked[n]

(* What a node holds in favour of a sibling rests on an answer that the    *)
(* sibling gave, to that very round, while it agreed with the authority;   *)
(* and a sibling reported to view the node as consistent has itself had    *)
(* such an answer from the node.                                           *)
EvidenceIsVouched ==
  \A n, m \in Node :
    /\ peer[n][m].cons => <<m, n, peer[n][m].count>> \in vouched
    /\ peer[n][m].views => \E k \in 0 .. asked[m] : <<n, m, k>> \in vouched

(* The registers of fresh siblings and the first round are both numbered   *)
(* 0, and the test of line 690 is strict: an answer to the first round     *)
(* counts as a replay, and a node with two siblings or more is never       *)
(* untainted before it has sent a second round.                            *)
SecondRoundNeeded ==
  [][\A n \in Node : tainted[n] /\ ~tainted'[n] /\ Cardinality(sibs[n]) >= 2
       => asked[n] >= 2]_vars

(* The protocol keeps the promise of PeerTrust: in particular no taint is  *)
(* cleared without the answers, of one round, of all siblings but one and  *)
(* the favourable views of all siblings but one.                           *)
Promise == INSTANCE PeerTrust
             WITH Node <- Node, sibs <- sibs, tainted <- tainted,
                  taOK <- taOK, asked <- asked, vouched <- vouched
KeepsPromise == Promise!Spec

(* A tainted node that has a round left to send, and that all its siblings *)
(* but one, in agreement with the authority, view as consistent, is        *)
(* untainted.                                                              *)
Supported(n) ==
  \E Q \in SUBSET sibs[n] \ {{}} :
    /\ Cardinality(Q) >= Cardinality(sibs[n]) - 1
    /\ \A m \in Q : taOK[m] /\ n \in sibs[m] /\ peer[m][n].cons

SupportedUntaints ==
  \A n \in Node :
    (tainted[n] /\ Supported(n) /\ asked[n] < MaxRound[n]) ~> ~tainted[n]
=============================================================================
