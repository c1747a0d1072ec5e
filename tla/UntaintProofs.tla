--------------------------- MODULE UntaintProofs ---------------------------
(***************************************************************************)
(* The invariants of the untainting protocol, for every set of nodes,      *)
(* every program of add_sibling calls, every bound and either network, and *)
(* that the protocol implements PeerTrust.                                 *)
(***************************************************************************)
EXTENDS Untaint, FiniteSetTheorems, TLAPS

(* A sibling message never comes from the node it is addressed to. *)
SiblingsDiffer == \A msg \in net : msg.type = "S" => msg.from # msg.to

(* Only rounds that were sent have been answered. *)
VouchedRounds ==
  \A m, n \in Node : \A k \in Nat : <<m, n, k>> \in vouched => k < asked[n]

(* An answer in flight was given in agreement with the authority, and a    *)
(* favourable view in it rests on such an answer in the other direction.   *)
AnswersVouched ==
  \A msg \in net : msg.type = "U" =>
    /\ <<msg.from, msg.to, msg.count>> \in vouched
    /\ msg.view => \E k \in 0 .. asked[msg.from] :
                     <<msg.to, msg.from, k>> \in vouched

(* A register with an answer in it is of a later round than the first. *)
FirstUnrecorded ==
  \A n, m \in Node : peer[n][m].cons => peer[n][m].count > 0

IInv ==
  /\ TypeOK
  /\ SiblingsDiffer
  /\ OnlySentRounds
  /\ VouchedRounds
  /\ AnswersVouched
  /\ EvidenceIsVouched
  /\ FirstUnrecorded

-----------------------------------------------------------------------------
(* What the network does to the datagrams in flight. *)
LEMMA SentAddsOnly ==
  ASSUME NEW rest, NEW ms, Sent(rest, ms)
  PROVE  net' \subseteq rest \cup ms
BY DEF Sent

LEMMA AfterRemovesOnly ==
  ASSUME NEW msg, NEW rest \in After(msg)
  PROVE  rest \subseteq net
BY DEF After

(* The datagrams of each kind. *)
LEMMA Kinds ==
  ASSUME TypeOK, NEW msg \in net
  PROVE  /\ msg.from \in Node /\ msg.to \in Node
         /\ msg.type = "T" => msg \in TMsg
         /\ msg.type = "U" => msg \in UMsg
         /\ msg.type = "S" => msg \in SMsg
BY DEF TypeOK, TMsg, UMsg, SMsg

-----------------------------------------------------------------------------
(* Everything but the types is kept by a step that adds no datagram,       *)
(* touches no register and loses neither a round nor a history entry.      *)
LEMMA QuietStep ==
  ASSUME IInv, TypeOK',
         net' \subseteq net, UNCHANGED <<asked, peer, vouched>>
  PROVE  IInv'
<1>1. SiblingsDiffer' BY DEF IInv, SiblingsDiffer
<1>2. OnlySentRounds' BY DEF IInv, OnlySentRounds
<1>3. VouchedRounds' BY DEF IInv, VouchedRounds
<1>4. AnswersVouched' BY DEF IInv, AnswersVouched
<1>5. EvidenceIsVouched' BY DEF IInv, EvidenceIsVouched
<1>6. FirstUnrecorded' BY DEF IInv, FirstUnrecorded
<1> QED BY <1>1, <1>2, <1>3, <1>4, <1>5, <1>6 DEF IInv

LEMMA InitIInv == Init => IInv
<1> SUFFICES ASSUME Init PROVE IInv OBVIOUS
<1>1. TypeOK BY DEF Init, TypeOK, Register
<1>2. SiblingsDiffer /\ AnswersVouched BY DEF Init, SiblingsDiffer, AnswersVouched
<1>3. OnlySentRounds BY DEF Init, OnlySentRounds
<1>4. VouchedRounds BY DEF Init, VouchedRounds
<1>5. EvidenceIsVouched BY DEF Init, EvidenceIsVouched
<1>6. FirstUnrecorded BY DEF Init, FirstUnrecorded
<1> QED BY <1>1, <1>2, <1>3, <1>4, <1>5, <1>6 DEF IInv

LEMMA AddSiblingIInv ==
  ASSUME IInv, NEW n \in Node, NEW m \in Node, AddSibling(n, m)
  PROVE  IInv'
<1>1. net' \subseteq net \cup {[type |-> "S", from |-> n, to |-> m]}
  BY SentAddsOnly DEF AddSibling
<1>2. TypeOK'
  BY <1>1 DEF IInv, TypeOK, AddSibling, SMsg
<1>3. SiblingsDiffer'
  BY <1>1 DEF IInv, SiblingsDiffer, AddSibling
<1>4. OnlySentRounds'
  BY <1>1 DEF IInv, OnlySentRounds, AddSibling
<1>5. VouchedRounds'
  BY DEF IInv, VouchedRounds, AddSibling
<1>6. AnswersVouched'
  BY <1>1 DEF IInv, AnswersVouched, AddSibling
<1>7. EvidenceIsVouched'
  BY DEF IInv, EvidenceIsVouched, AddSibling
<1>8. FirstUnrecorded'
  BY DEF IInv, FirstUnrecorded, AddSibling
<1> QED BY <1>2, <1>3, <1>4, <1>5, <1>6, <1>7, <1>8 DEF IInv

LEMMA IgnoreIInv ==
  ASSUME IInv, NEW msg \in net, Ignore(msg)
  PROVE  IInv'
<1>1. net' \subseteq net BY AfterRemovesOnly DEF Ignore, Received
<1>2. TypeOK' BY <1>1 DEF IInv, TypeOK, Ignore
<1> QED BY <1>1, <1>2, QuietStep DEF Ignore

LEMMA HandleSIInv ==
  ASSUME IInv, NEW msg \in net, HandleS(msg)
  PROVE  IInv'
<1>1. net' \subseteq net BY AfterRemovesOnly DEF HandleS, Received
<1>2. msg.from \in Node /\ msg.to \in Node /\ msg.from # msg.to
  BY Kinds DEF IInv, SiblingsDiffer, HandleS
<1>3. TypeOK' BY <1>1, <1>2 DEF IInv, TypeOK, HandleS
<1> QED BY <1>1, <1>3, QuietStep DEF HandleS

LEMMA LocalIInv ==
  ASSUME IInv, NEW n \in Node,
         Taint(n) \/ HandleD(n) \/ RefreshWoken(n) \/ RefreshEnd(n)
  PROVE  IInv'
<1>1. UNCHANGED <<net, asked, peer, vouched>>
  BY DEF Taint, HandleD, RefreshWoken, RefreshEnd
<1>2. TypeOK'
  <2>1. CASE Taint(n) BY <2>1 DEF IInv, TypeOK, Taint
  <2>2. CASE HandleD(n) BY <2>2 DEF IInv, TypeOK, HandleD
  <2>3. CASE RefreshWoken(n) BY <2>3 DEF IInv, TypeOK, RefreshWoken
  <2>4. CASE RefreshEnd(n) BY <2>4 DEF IInv, TypeOK, RefreshEnd
  <2> QED BY <2>1, <2>2, <2>3, <2>4
<1> QED BY <1>1, <1>2, QuietStep

(* A round is numbered before the counter moves on: its requests carry the *)
(* number of a round that has then been sent.                              *)
LEMMA SendIInv ==
  ASSUME IInv, NEW n \in Node, RefreshRound(n)
  PROVE  IInv'
<1> DEFINE ms == {[type |-> "T", from |-> n, to |-> m, count |-> asked[n]] :
                    m \in sibs[n]}
<1> USE DEF IInv
<1>1. /\ net' \subseteq net \cup ms
      /\ asked' = [asked EXCEPT ![n] = @ + 1]
      /\ pending' = [pending EXCEPT ![n] = FALSE]
      /\ refreshing' \in [Node -> BOOLEAN]
      /\ UNCHANGED <<sibs, tainted, peer, taOK, vouched>>
  BY SentAddsOnly DEF RefreshRound, SendTaintedMessages, TypeOK
<1>2. \A msg \in ms : /\ msg \in TMsg /\ msg.type = "T"
                      /\ msg.from = n /\ msg.count = asked[n]
  BY DEF TypeOK, TMsg
<1>3. asked \in [Node -> Nat] /\ asked' \in [Node -> Nat]
  BY <1>1 DEF TypeOK
<1>4. \A k \in Node : asked[k] <= asked'[k] /\ asked'[n] = asked[n] + 1
  BY <1>1, <1>3
<1> HIDE DEF ms
<1>5. TypeOK'
  BY <1>1, <1>2, <1>3 DEF TypeOK
<1>6. SiblingsDiffer'
  BY <1>1, <1>2 DEF SiblingsDiffer
<1>7. OnlySentRounds'
  <2>1. ASSUME NEW msg \in net'
        PROVE  /\ msg.type = "T" => msg.count < asked'[msg.from]
               /\ msg.type = "U" => msg.count < asked'[msg.to]
    <3>1. CASE msg \in ms BY <3>1, <1>2, <1>3, <1>4
    <3>2. CASE msg \in net
      <4>1. /\ msg.from \in Node /\ msg.to \in Node
            /\ msg.type = "T" => msg.count \in Nat
            /\ msg.type = "U" => msg.count \in Nat
        BY <3>2, Kinds DEF TMsg, UMsg
      <4> QED BY <3>2, <4>1, <1>3, <1>4 DEF OnlySentRounds
    <3> QED BY <3>1, <3>2, <1>1
  <2>2. ASSUME NEW p \in Node, NEW m \in Node, peer'[p][m].cons
        PROVE  peer'[p][m].count < asked'[p]
    <3>1. peer[p][m].count \in Nat BY DEF TypeOK, Register
    <3> QED BY <2>2, <3>1, <1>1, <1>3, <1>4 DEF OnlySentRounds
  <2> QED BY <2>1, <2>2 DEF OnlySentRounds
<1>8. VouchedRounds'
  BY <1>1, <1>3, <1>4 DEF VouchedRounds
<1>9. AnswersVouched'
  <2> SUFFICES ASSUME NEW msg \in net', msg.type = "U"
               PROVE  /\ <<msg.from, msg.to, msg.count>> \in vouched
                      /\ msg.view => \E k \in 0 .. asked'[msg.from] :
                                       <<msg.to, msg.from, k>> \in vouched
    BY <1>1 DEF AnswersVouched
  <2>1. msg \in net BY <1>1, <1>2
  <2>2. msg.from \in Node BY <2>1, Kinds
  <2>3. 0 .. asked[msg.from] \subseteq 0 .. asked'[msg.from]
    BY <2>2, <1>3, <1>4
  <2> QED BY <2>1, <2>3 DEF AnswersVouched
<1>10. EvidenceIsVouched'
  <2>1. \A m \in Node : 0 .. asked[m] \subseteq 0 .. asked'[m]
    BY <1>3, <1>4
  <2> QED BY <1>1, <2>1 DEF EvidenceIsVouched
<1>11. FirstUnrecorded'
  BY <1>1 DEF FirstUnrecorded
<1> QED BY <1>5, <1>6, <1>7, <1>8, <1>9, <1>10, <1>11

(* An answer carries the number of the request it answers, and is counted  *)
(* in the history when it is given.                                        *)
LEMMA HandleTIInv ==
  ASSUME IInv, NEW msg \in net, HandleT(msg), Answers(msg)
  PROVE  IInv'
<1> USE DEF IInv
<1>1. /\ net' \subseteq net \cup {Reply(msg)}
      /\ vouched' = vouched \cup {<<msg.to, msg.from, msg.count>>}
      /\ UNCHANGED <<sibs, tainted, pending, refreshing, asked, peer, taOK>>
  BY SentAddsOnly, AfterRemovesOnly DEF HandleT, Answers
<1>2. /\ msg.from \in Node /\ msg.to \in Node /\ msg.count \in Nat
      /\ msg.count < asked[msg.from]
  BY Kinds DEF HandleT, TMsg, OnlySentRounds
<1>3. /\ Reply(msg) \in UMsg
      /\ Reply(msg).type = "U" /\ Reply(msg).count = msg.count
      /\ Reply(msg).from = msg.to /\ Reply(msg).to = msg.from
      /\ Reply(msg).view = peer[msg.to][msg.from].cons
  <2>1. peer[msg.to][msg.from].cons \in BOOLEAN
    BY <1>2 DEF TypeOK, Register
  <2> QED BY <1>2, <2>1 DEF Reply, UMsg
<1>4. asked \in [Node -> Nat] BY DEF TypeOK
<1>5. TypeOK'
  BY <1>1, <1>2, <1>3 DEF TypeOK
<1>6. SiblingsDiffer'
  BY <1>1, <1>3 DEF SiblingsDiffer
<1>7. OnlySentRounds'
  BY <1>1, <1>2, <1>3 DEF OnlySentRounds
<1>8. VouchedRounds'
  BY <1>1, <1>2 DEF VouchedRounds
<1>9. AnswersVouched'
  <2> SUFFICES ASSUME NEW u \in net', u.type = "U"
               PROVE  /\ <<u.from, u.to, u.count>> \in vouched'
                      /\ u.view => \E k \in 0 .. asked[u.from] :
                                     <<u.to, u.from, k>> \in vouched'
    BY <1>1 DEF AnswersVouched
  <2>1. CASE u \in net
    BY <2>1, <1>1 DEF AnswersVouched
  <2>2. CASE u = Reply(msg)
    <3>1. <<u.from, u.to, u.count>> \in vouched'
      BY <2>2, <1>1, <1>3
    <3>2. ASSUME u.view
          PROVE  \E k \in 0 .. asked[u.from] : <<u.to, u.from, k>> \in vouched'
      <4> DEFINE k == peer[msg.to][msg.from].count
      <4>1. peer[msg.to][msg.from].cons BY <3>2, <2>2, <1>3
      <4>2. k \in Nat BY <1>2 DEF TypeOK, Register
      <4>3. <<msg.from, msg.to, k>> \in vouched
        BY <4>1, <1>2 DEF EvidenceIsVouched
      <4>4. k < asked[msg.to] BY <4>1, <1>2 DEF OnlySentRounds
      <4>5. k \in 0 .. asked[msg.to] BY <4>2, <4>4, <1>2, <1>4
      <4> QED BY <2>2, <1>1, <1>3, <4>3, <4>5
    <3> QED BY <3>1, <3>2
  <2> QED BY <2>1, <2>2, <1>1
<1>10. EvidenceIsVouched'
  BY <1>1 DEF EvidenceIsVouched
<1>11. FirstUnrecorded'
  BY <1>1 DEF FirstUnrecorded
<1> QED BY <1>5, <1>6, <1>7, <1>8, <1>9, <1>10, <1>11

(* A register takes over what a vouched answer says, or stays. *)
LEMMA HandleUIInv ==
  ASSUME IInv, NEW msg \in net, HandleU(msg), msg.from \in sibs[msg.to]
  PROVE  IInv'
<1> USE DEF IInv
<1>1. /\ net' \subseteq net
      /\ UNCHANGED <<sibs, pending, refreshing, asked, taOK, vouched>>
      /\ \E ok \in Verdicts : peer' = Record(msg, ok)
      /\ \/ tainted' = tainted
         \/ tainted' = [tainted EXCEPT ![msg.to] = FALSE]
  BY AfterRemovesOnly DEF HandleU, Received
<1>2. PICK ok \in BOOLEAN : peer' = Record(msg, ok)
  BY <1>1, InputAssumption
<1>3. /\ msg \in UMsg /\ msg.from \in Node /\ msg.to \in Node
      /\ msg.count \in Nat /\ msg.view \in BOOLEAN
  BY Kinds DEF HandleU, UMsg
<1>4. \A n, m \in Node :
        \/ peer'[n][m] = peer[n][m]
        \/ /\ n = msg.to /\ m = msg.from
           /\ peer'[n][m] = [count |-> msg.count, cons |-> ok, views |-> msg.view]
  BY <1>2, <1>3 DEF Record, TypeOK
<1>5. TypeOK'
  <2>1. peer' \in [Node -> [Node -> Register]]
    BY <1>2, <1>3 DEF Record, TypeOK, Register
  <2> QED BY <1>1, <1>3, <2>1 DEF TypeOK
<1>6. SiblingsDiffer' BY <1>1 DEF SiblingsDiffer
<1>7. OnlySentRounds'
  <2>1. msg.count < asked[msg.to] BY DEF OnlySentRounds, HandleU
  <2>2. \A n, m \in Node : peer'[n][m].cons => peer'[n][m].count < asked[n]
    BY <1>4, <2>1 DEF OnlySentRounds
  <2> QED BY <1>1, <2>2 DEF OnlySentRounds
<1>8. VouchedRounds' BY <1>1 DEF VouchedRounds
<1>9. AnswersVouched' BY <1>1 DEF AnswersVouched
<1>10. EvidenceIsVouched'
  <2>1. /\ <<msg.from, msg.to, msg.count>> \in vouched
        /\ msg.view => \E k \in 0 .. asked[msg.from] :
                         <<msg.to, msg.from, k>> \in vouched
    BY DEF AnswersVouched, HandleU
  <2>2. ASSUME NEW n \in Node, NEW m \in Node
        PROVE  /\ peer'[n][m].cons => <<m, n, peer'[n][m].count>> \in vouched
               /\ peer'[n][m].views =>
                    \E k \in 0 .. asked[m] : <<n, m, k>> \in vouched
    <3>1. CASE peer'[n][m] = peer[n][m]
      BY <3>1 DEF EvidenceIsVouched
    <3>2. CASE /\ n = msg.to /\ m = msg.from
               /\ peer'[n][m] = [count |-> msg.count, cons |-> ok,
                                 views |-> msg.view]
      BY <3>2, <2>1
    <3> QED BY <3>1, <3>2, <1>4
  <2> QED BY <1>1, <2>2 DEF EvidenceIsVouched
<1>11. FirstUnrecorded'
  <2>1. peer[msg.to][msg.from].count \in Nat
    BY <1>3 DEF TypeOK, Register
  <2>2. CASE Replayed(msg) BY <1>2, <2>2 DEF Record, FirstUnrecorded
  <2>3. CASE ~Replayed(msg)
    <3>1. msg.count > 0 BY <1>3, <2>1, <2>3 DEF Replayed
    <3> QED BY <1>4, <3>1 DEF FirstUnrecorded
  <2> QED BY <2>2, <2>3
<1> QED BY <1>5, <1>6, <1>7, <1>8, <1>9, <1>10, <1>11

LEMMA NextIInv == IInv /\ [Next]_vars => IInv'
<1> SUFFICES ASSUME IInv, [Next]_vars PROVE IInv' OBVIOUS
<1>1. ASSUME NEW n \in Node, NEW m \in Node, AddSibling(n, m) PROVE IInv'
  BY <1>1, AddSiblingIInv
<1>2. ASSUME NEW n \in Node,
             Taint(n) \/ HandleD(n) \/ RefreshWoken(n) \/ RefreshEnd(n)
      PROVE  IInv'
  BY <1>2, LocalIInv
<1>3. ASSUME NEW n \in Node, RefreshRound(n) PROVE IInv'
  BY <1>3, SendIInv
<1>4. ASSUME NEW msg \in net, HandleS(msg) PROVE IInv'
  BY <1>4, HandleSIInv
<1>5. ASSUME NEW msg \in net, HandleT(msg) PROVE IInv'
  <2>1. CASE Answers(msg) BY <1>5, <2>1, HandleTIInv
  <2>2. CASE ~Answers(msg) BY <1>5, <2>2, IgnoreIInv DEF HandleT
  <2> QED BY <2>1, <2>2
<1>6. ASSUME NEW msg \in net, HandleU(msg) PROVE IInv'
  <2>1. CASE msg.from \in sibs[msg.to] BY <1>6, <2>1, HandleUIInv
  <2>2. CASE msg.from \notin sibs[msg.to] BY <1>6, <2>2, IgnoreIInv DEF HandleU
  <2> QED BY <2>1, <2>2
<1>7. CASE UNCHANGED vars
  <2>1. TypeOK' BY <1>7 DEF vars, IInv, TypeOK
  <2> QED BY <1>7, <2>1, QuietStep DEF vars
<1> QED BY <1>1, <1>2, <1>3, <1>4, <1>5, <1>6, <1>7 DEF Next

(* The inductive invariant holds in every reachable state. *)
THEOREM Invariance == Spec => []IInv
BY InitIInv, NextIInv, PTL DEF Spec

(* Every variable keeps its type, and no node is its own sibling: the test *)
(* for the own address in add_sibling suffices for the 'S' handler too.    *)
THEOREM Typing == Spec => []TypeOK
<1>1. IInv => TypeOK BY DEF IInv
<1> QED BY <1>1, Invariance, PTL

(* No node holds or awaits an answer to a round it has not sent. *)
THEOREM SentRounds == Spec => []OnlySentRounds
<1>1. IInv => OnlySentRounds BY DEF IInv
<1> QED BY <1>1, Invariance, PTL

(* All a node holds in favour of a sibling, or of itself in a sibling's    *)
(* eyes, rests on answers given in agreement with the time authority.      *)
THEOREM Evidence == Spec => []EvidenceIsVouched
<1>1. IInv => EvidenceIsVouched BY DEF IInv
<1> QED BY <1>1, Invariance, PTL

-----------------------------------------------------------------------------
(* However late and however often the answers arrive, no register of a     *)
(* sibling goes back to an earlier round.                                  *)
LEMMA RegisterStep ==
  ASSUME IInv, [Next]_vars, NEW n \in Node, NEW m \in Node
  PROVE  peer'[n][m].count >= peer[n][m].count
<1>1. peer[n][m].count \in Nat BY DEF IInv, TypeOK, Register
<1>2. ASSUME NEW msg \in net, HandleU(msg), msg.from \in sibs[msg.to]
      PROVE  peer'[n][m].count >= peer[n][m].count
  <2>1. PICK ok \in Verdicts : peer' = Record(msg, ok) BY <1>2 DEF HandleU
  <2>2. msg.from \in Node /\ msg.to \in Node /\ msg.count \in Nat
    BY <1>2, Kinds DEF IInv, HandleU, UMsg
  <2>3. CASE Replayed(msg) BY <2>1, <2>3, <1>1 DEF Record
  <2>4. CASE ~Replayed(msg)
    <3>1. peer' = [peer EXCEPT ![msg.to][msg.from] =
                     [count |-> msg.count, cons |-> ok, views |-> msg.view]]
      BY <2>1, <2>4 DEF Record
    <3>2. peer[msg.to][msg.from].count < msg.count
      BY <2>2, <2>4 DEF Replayed, IInv, TypeOK, Register
    <3> QED BY <3>1, <3>2, <2>2, <1>1 DEF IInv, TypeOK
  <2> QED BY <2>3, <2>4
<1>3. CASE UNCHANGED peer BY <1>1, <1>3
<1>4. Next => \/ UNCHANGED peer
              \/ \E msg \in net : HandleU(msg) /\ msg.from \in sibs[msg.to]
  BY DEF Next, AddSibling, Taint, HandleD, RefreshWoken, RefreshRound,
         RefreshEnd, HandleS, HandleT, HandleU, Ignore
<1> QED BY <1>2, <1>3, <1>4 DEF vars

THEOREM Monotone == Spec => RoundsNeverGoBack
<1>1. IInv /\ [Next]_vars =>
        [\A n, m \in Node : peer'[n][m].count >= peer[n][m].count]_vars
  BY RegisterStep
<1> QED BY <1>1, Invariance, PTL DEF Spec, RoundsNeverGoBack

-----------------------------------------------------------------------------
(* A node with two siblings or more needs the favourable register of one.  *)
LEMMA OneConsistent ==
  ASSUME IInv', UNCHANGED <<sibs, asked>>, NEW n \in Node, NEW count,
         Enough(n, count, peer'[n]), Cardinality(sibs[n]) >= 2
  PROVE  asked[n] >= 2
<1>1. sibs[n] \subseteq Node /\ asked[n] \in Nat
  BY DEF IInv, TypeOK
<1>2. Cardinality(sibs[n]) \in Nat
  BY <1>1, NodeAssumption, FS_Subset, FS_CardinalityType
<1>3. Consistent(n, count, peer'[n]) # {}
  <2>1. Cardinality({}) = 0
    BY FS_EmptySet
  <2>2. Cardinality(Consistent(n, count, peer'[n])) >= Cardinality(sibs[n]) - 1
    BY DEF Enough
  <2> HIDE DEF Consistent
  <2> QED BY <1>2, <2>1, <2>2
<1>4. PICK m \in sibs[n] : peer'[n][m].cons
  BY <1>3 DEF Consistent
<1>5. peer'[n][m].count \in Nat /\ peer'[n][m].count > 0
  BY <1>1, <1>4 DEF IInv, TypeOK, Register, FirstUnrecorded
<1>6. peer'[n][m].count < asked[n]
  BY <1>1, <1>4 DEF IInv, OnlySentRounds
<1> QED BY <1>1, <1>5, <1>6

(* The first round of a node with two siblings or more never untaints it,  *)
(* whatever the siblings answer: its number is that of a fresh register.   *)
THEOREM FirstRoundIdle == Spec => SecondRoundNeeded
<1>1. ASSUME IInv, IInv', [Next]_vars, NEW n \in Node,
             tainted[n], ~tainted'[n], Cardinality(sibs[n]) >= 2
      PROVE  asked[n] >= 2
  <2>1. PICK msg \in net : HandleU(msg) /\ msg.from \in sibs[msg.to]
    BY <1>1 DEF Next, vars, AddSibling, Taint, HandleD, RefreshWoken,
                RefreshRound, RefreshEnd, HandleS, HandleT, HandleU, Ignore,
                IInv, TypeOK
  <2>2. UNCHANGED <<sibs, asked>> /\ n = msg.to
    BY <1>1, <2>1 DEF HandleU, IInv, TypeOK
  <2>3. Enough(n, msg.count, peer'[n])
    BY <1>1, <2>1, <2>2 DEF HandleU
  <2> QED BY <1>1, <2>2, <2>3, OneConsistent
<1>2. IInv /\ IInv' /\ [Next]_vars =>
        [\A n \in Node : tainted[n] /\ ~tainted'[n] /\ Cardinality(sibs[n]) >= 2
           => asked[n] >= 2]_vars
  BY <1>1
<1> QED BY <1>2, Invariance, PTL DEF Spec, SecondRoundNeeded

-----------------------------------------------------------------------------
(* The protocol implements PeerTrust. *)

(* When the receive thread clears the taint, the answers it counts are all *)
(* of one round: the latest of which it holds an answer.                   *)
LEMMA EnoughIsAnswered ==
  ASSUME IInv', UNCHANGED <<sibs, asked, vouched>>,
         NEW n \in Node, NEW count, Enough(n, count, peer'[n])
  PROVE  Promise!Answered(n) /\ Promise!Viewed(n)
<1> DEFINE Q == Consistent(n, count, peer'[n])
           V == Viewing(n, peer'[n])
<1>1. /\ sibs[n] \subseteq Node
      /\ \A m \in Node : asked[m] \in Nat /\ peer'[n][m].count \in Nat
  BY DEF IInv, TypeOK, Register
<1>2. \A m \in Node :
        peer'[n][m].cons => /\ <<m, n, peer'[n][m].count>> \in vouched
                            /\ peer'[n][m].count \in 0 .. asked[n]
  BY <1>1 DEF IInv, EvidenceIsVouched, OnlySentRounds
<1>3. Promise!Answered(n)
  <2>1. Q \in SUBSET sibs[n] /\ Promise!AllButOne(n, Q)
    BY DEF Enough, Consistent, Promise!AllButOne, Cardinality, Promise!Cardinality
  <2>2. \E k \in 0 .. asked[n] : \A m \in Q : <<m, n, k>> \in vouched
    <3>1. CASE Q = {}
      <4>1. 0 \in 0 .. asked[n] BY <1>1
      <4> QED BY <3>1, <4>1
    <3>2. CASE Q # {}
      <4>1. PICK m0 \in Q : TRUE BY <3>2
      <4>2. \A m \in Q : peer'[n][m].count = peer'[n][m0].count
        BY <1>1 DEF Consistent
      <4>3. peer'[n][m0].count \in 0 .. asked[n] BY <1>1, <1>2 DEF Consistent
      <4> QED BY <4>2, <4>3, <1>1, <1>2 DEF Consistent
    <3> QED BY <3>1, <3>2
  <2> QED BY <2>1, <2>2 DEF Promise!Answered
<1>4. Promise!Viewed(n)
  <2>1. V \in SUBSET sibs[n] /\ Promise!AllButOne(n, V)
    BY DEF Enough, Viewing, Promise!AllButOne, Cardinality, Promise!Cardinality
  <2>2. \A m \in V : \E k \in 0 .. asked[m] : <<n, m, k>> \in vouched
    BY <1>1 DEF Viewing, IInv, EvidenceIsVouched
  <2> QED BY <2>1, <2>2 DEF Promise!Viewed
<1> QED BY <1>3, <1>4

LEMMA HandleTStep ==
  ASSUME IInv, NEW msg \in net, HandleT(msg), Answers(msg)
  PROVE  Promise!Next
<1>1. /\ msg.from \in Node /\ msg.to \in Node /\ msg.count \in Nat
      /\ msg.count < asked[msg.from] /\ asked[msg.from] \in Nat
  BY Kinds DEF IInv, HandleT, TMsg, OnlySentRounds, TypeOK
<1>2. Promise!Vouch(msg.to, msg.from, msg.count)
  BY <1>1 DEF HandleT, Answers, Promise!Vouch
<1> QED BY <1>1, <1>2 DEF Promise!Next

LEMMA HandleUStep ==
  ASSUME IInv, IInv', NEW msg \in net, HandleU(msg),
         msg.from \in sibs[msg.to]
  PROVE  Promise!Next \/ UNCHANGED Promise!vars
<1>1. msg.to \in Node BY Kinds DEF IInv
<1>2. UNCHANGED <<sibs, asked, taOK, vouched>> BY DEF HandleU
<1>3. CASE Enough(msg.to, msg.count, peer'[msg.to])
  <2>1. tainted' = [tainted EXCEPT ![msg.to] = FALSE] BY <1>3 DEF HandleU
  <2>2. Promise!Untaint(msg.to)
    BY <2>1, <1>1, <1>2, <1>3, EnoughIsAnswered DEF Promise!Untaint
  <2> QED BY <1>1, <2>2 DEF Promise!Next
<1>4. CASE ~Enough(msg.to, msg.count, peer'[msg.to])
  <2>1. tainted' = tainted BY <1>4 DEF HandleU
  <2> QED BY <1>2, <2>1 DEF Promise!vars
<1> QED BY <1>3, <1>4

LEMMA PromiseStep ==
  ASSUME IInv, IInv', [Next]_vars
  PROVE  [Promise!Next]_(Promise!vars)
<1> USE DEF Promise!vars
<1>1. ASSUME NEW n \in Node, NEW m \in Node, AddSibling(n, m)
      PROVE  Promise!Next
  <2>1. Promise!Learn(n, m) BY <1>1 DEF AddSibling, Promise!Learn
  <2> QED BY <2>1 DEF Promise!Next
<1>2. ASSUME NEW n \in Node, Taint(n) PROVE Promise!Next
  <2>1. Promise!Taint(n) BY <1>2 DEF Taint, Promise!Taint
  <2> QED BY <2>1 DEF Promise!Next
<1>3. ASSUME NEW n \in Node, HandleD(n) PROVE Promise!Next
  <2>1. Promise!Assess(n) BY <1>3 DEF HandleD, Promise!Assess
  <2> QED BY <2>1 DEF Promise!Next
<1>4. ASSUME NEW n \in Node, RefreshRound(n)
      PROVE  Promise!Next
  <2>1. Promise!Ask(n)
    BY <1>4 DEF RefreshRound, SendTaintedMessages, Promise!Ask
  <2> QED BY <2>1 DEF Promise!Next
<1>5. ASSUME NEW n \in Node, RefreshWoken(n) \/ RefreshEnd(n)
      PROVE  UNCHANGED Promise!vars
  BY <1>5 DEF RefreshWoken, RefreshEnd
<1>6. ASSUME NEW msg \in net, HandleS(msg) PROVE Promise!Next
  <2>1. Promise!Learn(msg.to, msg.from) BY <1>6 DEF HandleS, Promise!Learn
  <2>2. msg.to \in Node /\ msg.from \in Node BY Kinds DEF IInv
  <2> QED BY <2>1, <2>2 DEF Promise!Next
<1>7. ASSUME NEW msg \in net, Ignore(msg) PROVE UNCHANGED Promise!vars
  BY <1>7 DEF Ignore
<1>8. ASSUME NEW msg \in net, HandleT(msg)
      PROVE  Promise!Next \/ UNCHANGED Promise!vars
  <2>1. CASE Answers(msg) BY <1>8, <2>1, HandleTStep
  <2>2. CASE ~Answers(msg) BY <1>7, <1>8, <2>2 DEF HandleT
  <2> QED BY <2>1, <2>2
<1>9. ASSUME NEW msg \in net, HandleU(msg)
      PROVE  Promise!Next \/ UNCHANGED Promise!vars
  <2>1. CASE msg.from \in sibs[msg.to] BY <1>9, <2>1, HandleUStep
  <2>2. CASE msg.from \notin sibs[msg.to] BY <1>7, <1>9, <2>2 DEF HandleU
  <2> QED BY <2>1, <2>2
<1>10. CASE UNCHANGED vars BY <1>10 DEF vars
<1> QED BY <1>1, <1>2, <1>3, <1>4, <1>5, <1>6, <1>8, <1>9, <1>10 DEF Next

(* Every taint the protocol clears is cleared on the answers, of one       *)
(* round, of all siblings but one, and on the views of all but one.        *)
THEOREM Implements == Spec => KeepsPromise
<1>1. Init => Promise!Init BY DEF Init, Promise!Init
<1>2. IInv /\ IInv' /\ [Next]_vars => [Promise!Next]_(Promise!vars)
  BY PromiseStep
<1> QED BY <1>1, <1>2, Invariance, PTL DEF Spec, KeepsPromise, Promise!Spec
=============================================================================
