------------------------- MODULE NodeManagerProofs -------------------------
(***************************************************************************)
(* For every number of nodes and every list of given addresses no thread   *)
(* is in an entry point of a deleted node, siblings are registered once    *)
(* unless the two threads that register overlap, main joins only threads   *)
(* that were told to end, and nodes it introduced know each other unless S *)
(* was lost.                                                               *)
(***************************************************************************)
EXTENDS NodeManager, TLAPS

-----------------------------------------------------------------------------
(* The life of a node.  What NodeOutlivesCalls needs: once its threads are *)
(* joined they do not start again.                                         *)

Deleting(n) == step = "delete" /\ Doing("destroy") /\ Script[at].node = n

JoinedFirst ==
  /\ step = "delete" => Doing("destroy")
  /\ \A n \in Node : Deleting(n) => Joined(n)

Threads ==
  /\ recv = [n \in Node |-> recv[n]] /\ client = [n \in Node |-> client[n]]

LifeInv == Threads /\ JoinedFirst /\ NodeOutlivesCalls

LEMMA LifeInvInit == Init => LifeInv
  BY DEF Init, LifeInv, Threads, JoinedFirst, Deleting, NodeOutlivesCalls

(* The steps of a node's threads leave main where it is. *)
LEMMA ThreadsKeep ==
  ASSUME LifeInv, NEW n \in Node, Receive(n) \/ Rest(n) \/ Client(n) \/ Readiness(n)
  PROVE  LifeInv'
<1> USE DEF LifeInv, Threads, JoinedFirst, Deleting, Joined, NodeOutlivesCalls,
            Doing, Ended, place, life, others
<1>1. CASE RecvEnter(n)
  BY <1>1 DEF RecvEnter
<1>2. CASE HandleS(n)
  BY <1>2 DEF HandleS
<1>3. CASE HandleSAppend(n)
  BY <1>3 DEF HandleSAppend
<1>4. CASE RecvEnd(n)
  BY <1>4 DEF RecvEnd
<1>5. CASE Rest(n)
  BY <1>5 DEF Rest, RestEnd, Stick, Oversleep
<1>6. CASE ClientCalls(n)
  BY <1>6 DEF ClientCalls, ClientGoes
<1>7. CASE ClientReturns(n)
  BY <1>7 DEF ClientReturns, ClientGoes
<1>8. CASE Readiness(n)
  BY <1>8 DEF Readiness
<1> QED
  BY <1>1, <1>2, <1>3, <1>4, <1>5, <1>6, <1>7, <1>8 DEF Receive, Client

LEMMA MainKeeps ==
  ASSUME LifeInv, Main \/ Sleep
  PROVE  LifeInv'
<1> USE DEF LifeInv, Threads, JoinedFirst, Deleting, Joined, NodeOutlivesCalls,
            Doing, Ended, Done, Then, life, others
<1>1. CASE Create
  BY <1>1 DEF Create
<1>2. CASE AddSibling
  BY <1>2 DEF AddSibling
<1>3. CASE AddAppend \/ AddSend \/ Sleep
  BY <1>3 DEF AddAppend, AddSend, Sleep
<1>4. CASE Start \/ Spawn
  BY <1>4 DEF Start, Spawn
<1>5. CASE Destroy \/ Stop \/ StopReturns
  BY <1>5 DEF Destroy, Stop, StopReturns
<1>6. CASE Join
  BY <1>6 DEF Join
<1>7. CASE Delete
  BY <1>7 DEF Delete
<1> QED
  BY <1>1, <1>2, <1>3, <1>4, <1>5, <1>6, <1>7 DEF Main

(* No thread, clients included, is in an entry point of a deleted node.    *)
THEOREM CallsEndFirst == Spec => []NodeOutlivesCalls
<1>1. LifeInv /\ [Next]_vars => LifeInv'
  <2>1. ASSUME LifeInv, UNCHANGED vars PROVE LifeInv'
    BY <2>1 DEF vars, place, life, others, LifeInv, Threads, JoinedFirst,
                Deleting, Joined, NodeOutlivesCalls, Doing, Ended
  <2> QED
    BY <2>1, ThreadsKeep, MainKeeps DEF Next
<1>2. LifeInv => NodeOutlivesCalls
  BY DEF LifeInv
<1> QED
  BY <1>1, <1>2, LifeInvInit, PTL DEF Spec

-----------------------------------------------------------------------------
(* The registry.  What RegisteredOnce needs: whom a thread has searched is *)
(* still missing, as long as the vector has the length it had then.        *)

Role == {"main", "receive"}

Sequence(s) == \E S : s \in Seq(S)

Table(f) == f = [n \in Node |-> [t \in Role |-> f[n][t]]]
Put(f, n, t, v) == [f EXCEPT ![n][t] = v]

Shapes ==
  /\ sibs = [n \in Node |-> sibs[n]] /\ told = [n \in Node |-> told[n]]
  /\ \A n \in Node : Sequence(sibs[n])
  /\ Table(adding)
  /\ \A n \in Node, t \in Role : adding[n][t].len \in Nat

Missing(n, t) ==
  /\ adding[n][t].len <= Len(sibs[n])
  /\ adding[n][t].len = Len(sibs[n]) => ~Known(n, adding[n][t].peer)

StillMissing == \A n \in Node \ raced : \A t \in Role : Missing(n, t)

RegInv == Shapes /\ StillMissing /\ RegisteredOnce

LEMMA RegInvInit == Init => RegInv
<1> SUFFICES ASSUME Init PROVE RegInv
  OBVIOUS
<1> USE DEF Init, Nothing, Role
<1>1. \A n \in Node : sibs[n] = <<>> /\ told[n] = {} /\ Range(sibs[n]) = {}
  BY DEF Range
<1>2. \A n \in Node : Sequence(sibs[n])
  <2>1. <<>> \in Seq({})
    OBVIOUS
  <2> QED
    BY <1>1, <2>1 DEF Sequence
<1>3. Shapes
  BY <1>2 DEF Shapes, Table
<1>4. StillMissing
  BY <1>1 DEF StillMissing, Missing, Known
<1>5. RegisteredOnce
  BY <1>1 DEF RegisteredOnce
<1> QED
  BY <1>3, <1>4, <1>5 DEF RegInv

LEMMA Entry ==
  ASSUME NEW f, Table(f), NEW a, NEW b, NEW v
  PROVE  /\ \A n \in Node, t \in Role :
              Put(f, a, b, v)[n][t] = IF n = a /\ t = b THEN v ELSE f[n][t]
         /\ Table(Put(f, a, b, v))
<1> DEFINE g == Put(f, a, b, v)
           h(n) == [t \in Role |-> IF n = a /\ t = b THEN v ELSE f[n][t]]
<1>1. f = [n \in Node |-> f[n]] /\ \A n \in Node : f[n] = [t \in Role |-> f[n][t]]
  BY DEF Table
<1>2. g = [n \in Node |-> IF n = a THEN [f[n] EXCEPT ![b] = v] ELSE f[n]]
  BY <1>1 DEF Put
<1> HIDE DEF g
<1>3. ASSUME NEW n \in Node PROVE g[n] = h(n)
  <2>1. CASE n = a
    <3>1. g[n] = [f[n] EXCEPT ![b] = v]
      BY <1>2, <2>1
    <3>2. g[n] = [t \in Role |-> IF t = b THEN v ELSE f[n][t]]
      BY <1>1, <3>1
    <3> QED
      BY <2>1, <3>2
  <2>2. CASE n # a
    <3>1. g[n] = f[n] /\ h(n) = [t \in Role |-> f[n][t]]
      BY <1>2, <2>2
    <3> QED
      BY <1>1, <3>1
  <2> QED
    BY <2>1, <2>2
<1>4. \A n \in Node, t \in Role : g[n][t] = IF n = a /\ t = b THEN v ELSE f[n][t]
  BY <1>3
<1>5. \A n \in Node : g[n] = [t \in Role |-> g[n][t]]
  BY <1>3, <1>4
<1>6. g = [n \in Node |-> g[n]]
  BY <1>2
<1>7. Table(g)
  BY <1>5, <1>6 DEF Table
<1> QED
  BY <1>4, <1>7 DEF g

(* A search that finds nobody, by either thread. *)
LEMMA SearchKeeps ==
  ASSUME RegInv, NEW n, NEW t \in Role, NEW p, ~Known(n, p), Search(n, t, p),
         UNCHANGED <<sibs, told, raced>>
  PROVE  RegInv'
<1> USE DEF RegInv
<1>1. /\ \A m \in Node, u \in Role :
           adding'[m][u] = IF m = n /\ u = t THEN [peer |-> p, len |-> Len(sibs[n])]
                           ELSE adding[m][u]
      /\ Table(adding')
  <2>1. adding' = Put(adding, n, t, [peer |-> p, len |-> Len(sibs[n])])
    BY DEF Search, Put
  <2>2. Table(adding)
    BY DEF Shapes
  <2>3. /\ \A m \in Node, u \in Role :
            Put(adding, n, t, [peer |-> p, len |-> Len(sibs[n])])[m][u]
              = IF m = n /\ u = t THEN [peer |-> p, len |-> Len(sibs[n])]
                ELSE adding[m][u]
       /\ Table(Put(adding, n, t, [peer |-> p, len |-> Len(sibs[n])]))
    BY <2>2, Entry
  <2> QED
    BY <2>1, <2>2, <2>3
<1>2. \A m \in Node : Len(sibs[m]) \in Nat
  BY DEF Shapes, Sequence
<1>3. Shapes'
  <2>1. ASSUME NEW m \in Node, NEW u \in Role PROVE adding'[m][u].len \in Nat
    <3>1. CASE m = n
      BY <1>1, <1>2, <2>1, <3>1 DEF Shapes
    <3>2. CASE m # n
      BY <1>1, <2>1, <3>2 DEF Shapes
    <3> QED
      BY <3>1, <3>2
  <2> QED
    BY <1>1, <2>1 DEF Shapes, Table, Sequence
<1>4. StillMissing'
  BY <1>1, <1>2 DEF StillMissing, Missing, Known
<1> QED
  BY <1>3, <1>4 DEF RegisteredOnce

(* An extension adds one that was missing, or overlaps another.            *)
LEMMA Longer ==
  ASSUME NEW S, NEW s \in Seq(S), NEW p, NEW len \in 0 .. Len(s)
  PROVE  /\ Sequence(Append(SubSeq(s, 1, len), p))
         /\ Len(Append(SubSeq(s, 1, len), p)) = len + 1
         /\ len = Len(s) =>
              /\ Range(Append(SubSeq(s, 1, len), p)) = Range(s) \cup {p}
              /\ \A i \in 1 .. Len(s) : Append(SubSeq(s, 1, len), p)[i] = s[i]
              /\ Append(SubSeq(s, 1, len), p)[Len(s) + 1] = p
<1> DEFINE r == SubSeq(s, 1, len)
<1>1. s \in Seq(S \cup {p})
  OBVIOUS
<1>2. r \in Seq(S \cup {p}) /\ Len(r) = len /\ \A i \in 1 .. len : r[i] = s[i]
  BY <1>1
<1> HIDE DEF r
<1>3. /\ Append(r, p) \in Seq(S \cup {p}) /\ Len(Append(r, p)) = len + 1
      /\ \A i \in 1 .. len : Append(r, p)[i] = s[i]
      /\ Append(r, p)[len + 1] = p
      /\ DOMAIN Append(r, p) = 1 .. len + 1
  BY <1>2
<1>4. len = Len(s) => Range(Append(r, p)) = Range(s) \cup {p}
  BY <1>3 DEF Range
<1> QED
  BY <1>3, <1>4 DEF Sequence, r

LEMMA ExtendKeeps ==
  ASSUME RegInv, NEW n, NEW t \in Role, Extend(n, t)
  PROVE  RegInv'
<1> USE DEF RegInv
<1> DEFINE new == adding[n][t]
<1>1. CASE n \notin Node
  <2>1. UNCHANGED <<sibs, told, adding>> /\ raced \subseteq raced'
    BY <1>1 DEF Extend, Shapes, Table
  <2> QED
    BY <2>1 DEF Shapes, StillMissing, RegisteredOnce, Missing, Known
<1>2. CASE n \in Node
  <2>1. PICK len \in {new.len, Len(sibs[n])} \cap (0 .. Len(sibs[n])) :
          sibs' = [sibs EXCEPT ![n] = Append(SubSeq(@, 1, len), new.peer)]
    BY DEF Extend
  <2>2. PICK S : sibs[n] \in Seq(S)
    BY <1>2 DEF Shapes, Sequence
  <2>3. /\ sibs'[n] = Append(SubSeq(sibs[n], 1, len), new.peer)
        /\ \A m \in Node \ {n} : sibs'[m] = sibs[m]
        /\ sibs' = [m \in Node |-> sibs'[m]]
    BY <1>2, <2>1 DEF Shapes
  <2>4. /\ Sequence(sibs'[n]) /\ Len(sibs'[n]) = len + 1
        /\ len = Len(sibs[n]) =>
             /\ Range(sibs'[n]) = Range(sibs[n]) \cup {new.peer}
             /\ \A i \in 1 .. Len(sibs[n]) : sibs'[n][i] = sibs[n][i]
             /\ sibs'[n][Len(sibs[n]) + 1] = new.peer
    <3>1. len \in 0 .. Len(sibs[n])
      BY <2>1
    <3> HIDE DEF new
    <3>2. /\ Sequence(Append(SubSeq(sibs[n], 1, len), new.peer))
          /\ Len(Append(SubSeq(sibs[n], 1, len), new.peer)) = len + 1
          /\ len = Len(sibs[n]) =>
               /\ Range(Append(SubSeq(sibs[n], 1, len), new.peer))
                    = Range(sibs[n]) \cup {new.peer}
               /\ \A i \in 1 .. Len(sibs[n]) :
                    Append(SubSeq(sibs[n], 1, len), new.peer)[i] = sibs[n][i]
               /\ Append(SubSeq(sibs[n], 1, len), new.peer)[Len(sibs[n]) + 1]
                    = new.peer
      BY <2>2, <3>1, Longer, Zenon
    <3> QED
      BY <2>3, <3>2, Zenon
  <2>5. /\ \A m \in Node, u \in Role :
             adding'[m][u] = IF m = n /\ u = t THEN Nothing ELSE adding[m][u]
        /\ Table(adding')
    <3>1. adding' = Put(adding, n, t, Nothing)
      BY DEF Extend, Put
    <3>2. Table(adding)
      BY DEF Shapes
    <3>3. /\ \A m \in Node, u \in Role :
              Put(adding, n, t, Nothing)[m][u]
                = IF m = n /\ u = t THEN Nothing
                  ELSE adding[m][u]
         /\ Table(Put(adding, n, t, Nothing))
      BY <3>2, Entry
    <3> QED
      BY <3>1, <3>2, <3>3
  <2>6. /\ \A m \in Node :
             told'[m] = IF m = n THEN told[n] \cup {new.peer} ELSE told[m]
        /\ told' = [m \in Node |-> told'[m]]
    BY DEF Extend, Shapes
  <2>7. /\ raced \subseteq raced'
        /\ n \notin raced' => len = Len(sibs[n]) /\ new.len = Len(sibs[n])
    BY <2>1 DEF Extend
  <2>8. Shapes'
    <3>1. ASSUME NEW m \in Node, NEW u \in Role PROVE adding'[m][u].len \in Nat
      BY <2>5, <3>1 DEF Shapes, Nothing
    <3>2. ASSUME NEW m \in Node PROVE Sequence(sibs'[m])
      BY <2>3, <2>4, <3>2 DEF Shapes
    <3>3. \A m \in Node : Sequence(sibs[m])'
      BY <3>2 DEF Sequence
    <3> QED
      BY <2>3, <2>5, <2>6, <3>1, <3>3 DEF Shapes, Table
  <2>9. ASSUME NEW m \in Node \ raced', m # n
        PROVE  /\ sibs'[m] = sibs[m] /\ told'[m] = told[m] /\ m \notin raced
               /\ \A u \in Role : adding'[m][u] = adding[m][u]
    BY <2>3, <2>5, <2>6, <2>7, <2>9
  <2>10. StillMissing'
    <3>1. ASSUME NEW m \in Node \ raced', NEW u \in Role, m # n
          PROVE  Missing(m, u)'
      BY <2>9, <3>1 DEF StillMissing, Missing, Known
    <3>2. ASSUME n \notin raced', NEW u \in Role
          PROVE  Missing(n, u)'
      <4>1. adding'[n][u].len <= Len(sibs[n]) /\ adding'[n][u].len \in Nat
        <5>1. n \in Node \ raced /\ Len(sibs[n]) \in Nat
          BY <1>2, <2>2, <2>7, <3>2
        <5>2. adding[n][u].len <= Len(sibs[n]) /\ adding[n][u].len \in Nat
          BY <5>1 DEF StillMissing, Missing, Shapes
        <5>3. adding'[n][u] = Nothing \/ adding'[n][u] = adding[n][u]
          BY <1>2, <2>5
        <5> QED
          BY <5>1, <5>2, <5>3 DEF Nothing
      <4>2. Len(sibs'[n]) = Len(sibs[n]) + 1 /\ Len(sibs[n]) \in Nat
        BY <2>2, <2>4, <2>7, <3>2
      <4> QED
        BY <4>1, <4>2 DEF Missing
    <3> QED
      BY <3>1, <3>2 DEF StillMissing
  <2>11. RegisteredOnce'
    <3>1. ASSUME NEW m \in Node \ raced', m # n
          PROVE  /\ \A i, j \in DOMAIN sibs'[m] : sibs'[m][i] = sibs'[m][j] => i = j
                 /\ Range(sibs'[m]) = told'[m]
      BY <2>9, <3>1 DEF RegisteredOnce
    <3>2. ASSUME n \notin raced'
          PROVE  /\ \A i, j \in DOMAIN sibs'[n] : sibs'[n][i] = sibs'[n][j] => i = j
                 /\ Range(sibs'[n]) = told'[n]
      <4>1. n \notin raced /\ len = Len(sibs[n]) /\ new.len = Len(sibs[n])
        BY <2>7, <3>2
      <4>2. /\ \A i, j \in DOMAIN sibs[n] : sibs[n][i] = sibs[n][j] => i = j
            /\ Range(sibs[n]) = told[n]
        BY <1>2, <4>1 DEF RegisteredOnce
      <4>3. Range(sibs'[n]) = told'[n]
        BY <1>2, <2>4, <2>6, <4>1, <4>2
      <4>4. \A i \in DOMAIN sibs[n] : sibs[n][i] # new.peer
        BY <1>2, <4>1 DEF StillMissing, Missing, Known, Range
      <4>5. /\ DOMAIN sibs[n] = 1 .. Len(sibs[n])
            /\ DOMAIN sibs'[n] = 1 .. Len(sibs[n]) + 1 /\ Len(sibs[n]) \in Nat
        BY <2>2, <2>4, <4>1 DEF Sequence
      <4>6. ASSUME NEW i \in DOMAIN sibs'[n], NEW j \in DOMAIN sibs'[n],
                   sibs'[n][i] = sibs'[n][j]
            PROVE  i = j
        <5>1. \A k \in DOMAIN sibs[n] : sibs'[n][k] = sibs[n][k]
          BY <2>4, <4>1, <4>5
        <5>2. sibs'[n][Len(sibs[n]) + 1] = new.peer
          BY <2>4, <4>1
        <5>3. /\ i \in DOMAIN sibs[n] \/ i = Len(sibs[n]) + 1
              /\ j \in DOMAIN sibs[n] \/ j = Len(sibs[n]) + 1
          BY <4>5, <4>6
        <5> HIDE DEF new
        <5> QED
          BY <4>2, <4>4, <4>6, <5>1, <5>2, <5>3, Zenon
      <4> QED
        BY <4>3, <4>6
    <3> QED
      BY <3>1, <3>2 DEF RegisteredOnce
  <2> QED
    BY <2>8, <2>10, <2>11
<1> QED
  BY <1>1, <1>2

LEMMA RegInvKept ==
  ASSUME RegInv, [Next]_vars
  PROVE  RegInv'
<1>1. CASE UNCHANGED registry
  BY <1>1 DEF registry, RegInv, Shapes, StillMissing, Missing, Known,
              RegisteredOnce
<1>2. CASE AddSibling
  <2> DEFINE n == Script[at].node
             p == Script[at].peer
  <2>1. CASE UNCHANGED adding
    BY <1>1, <1>2, <2>1 DEF AddSibling, registry
  <2>2. CASE ~Known(n, p) /\ Search(n, "main", p)
    BY <1>2, <2>2, SearchKeeps DEF AddSibling, Role
  <2> QED
    BY <1>2, <2>1, <2>2 DEF AddSibling
<1>3. CASE AddAppend
  BY <1>3, ExtendKeeps DEF AddAppend, Role
<1>4. ASSUME NEW n \in Node, HandleS(n) PROVE RegInv'
  <2>1. PICK s \in net :
          IF Known(n, s[1]) THEN UNCHANGED adding ELSE Search(n, "receive", s[1])
    BY <1>4 DEF HandleS
  <2>2. UNCHANGED <<sibs, told, raced>>
    BY <1>4 DEF HandleS
  <2>3. CASE UNCHANGED adding
    BY <1>1, <2>2, <2>3 DEF registry
  <2>4. CASE ~Known(n, s[1]) /\ Search(n, "receive", s[1])
    BY <2>2, <2>4, SearchKeeps DEF Role
  <2> QED
    BY <2>1, <2>3, <2>4
<1>5. ASSUME NEW n \in Node, HandleSAppend(n) PROVE RegInv'
  BY <1>5, ExtendKeeps DEF HandleSAppend, Role
<1>6. ASSUME NEW n \in Node,
             RecvEnter(n) \/ RecvEnd(n) \/ Rest(n) \/ Client(n) \/ Readiness(n)
      PROVE  UNCHANGED registry
  BY <1>6 DEF RecvEnter, RecvEnd, Rest, RestEnd, Stick, Oversleep, Client,
              ClientCalls, ClientReturns, ClientGoes, Readiness
<1>7. ASSUME \/ Create \/ AddSend \/ Start \/ Spawn \/ Destroy \/ Stop
             \/ StopReturns \/ Join
             \/ Delete \/ Sleep
      PROVE  UNCHANGED registry
  BY <1>7 DEF Create, AddSend, Start, Spawn, Destroy, Stop, StopReturns, Join,
              Delete, Sleep
<1>8. CASE UNCHANGED vars
  BY <1>1, <1>8 DEF vars
<1> QED
  BY <1>1, <1>2, <1>3, <1>4, <1>5, <1>6, <1>7, <1>8 DEF Next, Main, Receive

(* Each peer is registered once and none is lost, unless threads overlap.  *)
THEOREM OnceOnly == Spec => []RegisteredOnce
<1>1. RegInv => RegisteredOnce
  BY DEF RegInv
<1> QED
  BY <1>1, RegInvInit, RegInvKept, PTL DEF Spec

-----------------------------------------------------------------------------
(* The state is well formed.  TypeOK needs that who is being added is a    *)
(* peer and not the node itself, in the vector and on the wire, and that   *)
(* main is inside the operation whose step it takes.                       *)

Operation ==
  [do : {"create", "start", "destroy"}, node : Node]
    \cup [do : {"add"}, node : Node, peer : Peer] \cup [do : {"sleep"}]

LEMMA PairsOfNodes ==
  Pairs \in Seq({p \in Node \X Node : p[1] < p[2]})
<1> DEFINE Link == {p \in Node \X Node : p[1] < p[2]}
<1>1. ASSUME NEW n \in 1 .. 4, NEW m \in 1 .. 4, n < m
      PROVE  If(N > m - 1, n, m) \in Seq(Link)
  <2>1. CASE N > m - 1
    <3>1. <<n, m>> \in Link
      BY <1>1, <2>1, NodesAssumption DEF Node
    <3>2. <<<<n, m>>>> \in Seq(Link)
      BY <3>1
    <3> QED
      BY <2>1, <3>2 DEF If
  <2>2. CASE ~(N > m - 1)
    BY <2>2 DEF If
  <2> QED
    BY <2>1, <2>2
<1>2. /\ If(N > 1, 1, 2) \in Seq(Link) /\ If(N > 2, 1, 3) \in Seq(Link)
      /\ If(N > 3, 1, 4) \in Seq(Link) /\ If(N > 2, 2, 3) \in Seq(Link)
      /\ If(N > 3, 2, 4) \in Seq(Link) /\ If(N > 3, 3, 4) \in Seq(Link)
  <2>1. If(N > 2 - 1, 1, 2) \in Seq(Link)
    BY <1>1
  <2>2. If(N > 3 - 1, 1, 3) \in Seq(Link) /\ If(N > 3 - 1, 2, 3) \in Seq(Link)
    BY <1>1
  <2>3. /\ If(N > 4 - 1, 1, 4) \in Seq(Link) /\ If(N > 4 - 1, 2, 4) \in Seq(Link)
        /\ If(N > 4 - 1, 3, 4) \in Seq(Link)
    BY <1>1
  <2>4. 2 - 1 = 1 /\ 3 - 1 = 2 /\ 4 - 1 = 3
    OBVIOUS
  <2> QED
    BY <2>1, <2>2, <2>3, <2>4
<1> HIDE DEF Link
<1>3. \A s, t \in Seq(Link) : s \o t \in Seq(Link)
  OBVIOUS
<1>4. Pairs \in Seq(Link)
  BY <1>2, <1>3 DEF Pairs
<1> QED
  BY <1>4 DEF Link

LEMMA GivenPeers ==
  /\ \A i \in DOMAIN Given : Given[i] \in Peer
  /\ DOMAIN Given = 1 .. Len(Given) /\ Len(Given) \in Nat
  BY GivenAssumption DEF Peer, Range

LEMMA PeersNumbered == Node \subseteq Peer /\ 0 \notin Peer /\ Peer \subseteq Nat
<1>1. Range(Given) \subseteq Nat \ {0}
  BY GivenAssumption DEF Range
<1> QED
  BY <1>1, NodesAssumption DEF Node, Peer

(* The parts of the script that tell nodes of each other. *)
Introductions ==
  [i \in DOMAIN Pairs |->
     [do |-> "add", node |-> Pairs[i][1], peer |-> Pairs[i][2]]]
GivenOnes ==
  [i \in DOMAIN Given |-> [do |-> "add", node |-> 1, peer |-> Given[i]]]

LEMMA ScriptParts ==
  /\ \A what \in {"create", "start", "destroy"} :
       Each(what) \in Seq(Operation) /\ Len(Each(what)) = N
  /\ Introductions \in Seq(Operation) /\ Len(Introductions) = Len(Pairs)
  /\ GivenOnes \in Seq(Operation) /\ Len(GivenOnes) = Len(Given)
  /\ <<[do |-> "sleep"]>> \in Seq(Operation)
  /\ Script = Each("create") \o Introductions \o GivenOnes \o Each("start")
                \o <<[do |-> "sleep"]>> \o Each("destroy")
<1>1. ASSUME NEW what \in {"create", "start", "destroy"}
      PROVE  Each(what) \in Seq(Operation) /\ Len(Each(what)) = N
  <2>1. \A n \in 1 .. N : Each(what)[n] \in Operation
    BY DEF Each, Node, Operation
  <2>2. Each(what) = [n \in 1 .. N |-> Each(what)[n]]
    BY DEF Each, Node
  <2> HIDE DEF Operation
  <2> QED
    BY <2>1, <2>2, NodesAssumption
<1>2. Introductions \in Seq(Operation) /\ Len(Introductions) = Len(Pairs)
  <2>1. /\ DOMAIN Pairs = 1 .. Len(Pairs) /\ Len(Pairs) \in Nat
        /\ \A i \in DOMAIN Pairs : Pairs[i] \in Node \X Node
    BY PairsOfNodes
  <2>2. \A i \in DOMAIN Pairs : Introductions[i] \in Operation
    BY <2>1, PeersNumbered DEF Operation, Introductions
  <2>3. Introductions = [i \in 1 .. Len(Pairs) |-> Introductions[i]]
    BY <2>1 DEF Introductions
  <2> HIDE DEF Operation
  <2> QED
    BY <2>1, <2>2, <2>3
<1>3. GivenOnes \in Seq(Operation) /\ Len(GivenOnes) = Len(Given)
  <2>1. 1 \in Node
    BY NodesAssumption DEF Node
  <2>2. \A i \in DOMAIN Given : GivenOnes[i] \in Operation
    BY <2>1, GivenPeers DEF Operation, GivenOnes
  <2>3. GivenOnes = [i \in 1 .. Len(Given) |-> GivenOnes[i]]
    BY GivenPeers DEF GivenOnes
  <2> HIDE DEF Operation
  <2> QED
    BY <2>2, <2>3, GivenPeers
<1>4. <<[do |-> "sleep"]>> \in Seq(Operation)
  <2>1. [do |-> "sleep"] \in Operation
    BY DEF Operation
  <2> HIDE DEF Operation
  <2> QED
    BY <2>1
<1> QED
  BY <1>1, <1>2, <1>3, <1>4 DEF Script, Introductions, GivenOnes

LEMMA ScriptOfOperations == Script \in Seq(Operation)
<1>1. \A s, t \in Seq(Operation) : s \o t \in Seq(Operation)
  OBVIOUS
<1> QED
  BY <1>1, ScriptParts

(* The operation that main is in. *)
LEMMA InOperation ==
  ASSUME at \in 1 .. Len(Script) + 1, NEW what, Doing(what)
  PROVE  /\ at \in 1 .. Len(Script)
         /\ what \in {"create", "add", "start", "destroy"} => Script[at].node \in Node
         /\ what = "add" => Script[at].peer \in Peer
<1>1. Len(Script) \in Nat /\ \A i \in 1 .. Len(Script) : Script[i] \in Operation
  BY ScriptOfOperations
<1>2. at \in 1 .. Len(Script) /\ Script[at].do = what
  BY <1>1 DEF Doing, Ended
<1>3. Script[at] \in Operation
  BY <1>1, <1>2
<1> QED
  BY <1>2, <1>3 DEF Operation

LEMMA Onwards ==
  ASSUME at \in 1 .. Len(Script) + 1, NEW what, Doing(what), Done
  PROVE  at' \in 1 .. Len(Script) + 1 /\ step' = "call"
  BY InOperation, ScriptOfOperations DEF Done

(* Where main and the receive threads are while somebody is being added.   *)
Adding ==
  /\ step \in {"append", "send"} =>
       Doing("add") /\ Script[at].peer # Script[at].node
  /\ step = "append" => adding[Script[at].node]["main"].peer # 0
  /\ \A n \in Node : recv[n] = "append" => adding[n]["receive"].peer # 0
  /\ \A s \in net : s[1] # s[2]

Destroying ==
  step \in {"stop", "return", "join", "delete"} =>
    Doing("destroy") /\ Script[at].node \in stopNode

TypeInv == Shapes /\ TypeOK /\ Adding /\ Destroying

(* The registry's part of TypeOK. *)
Sibs == /\ \A n \in Node : sibs[n] \in Seq(Peer \ {n})
        /\ \A n \in Node, t \in Role :
             adding[n][t].peer \in (Peer \cup {0}) \ {n}

LEMMA OldSibs ==
  ASSUME TypeInv
  PROVE  Sibs
  BY DEF TypeInv, TypeOK, Sibs, Role

LEMMA SearchTyped ==
  ASSUME TypeInv, NEW n \in Node, NEW t \in Role, NEW p \in Peer \ {n},
         Search(n, t, p), UNCHANGED sibs
  PROVE  /\ Sibs' /\ adding'[n][t].peer # 0 /\ adding'[n][t].peer = p
         /\ \A m \in Node, u \in Role :
              m # n \/ u # t => adding'[m][u] = adding[m][u]
<1> DEFINE new == [peer |-> p, len |-> Len(sibs[n])]
<1>1. adding' = Put(adding, n, t, new)
  BY DEF Search, Put
<1>2. Table(adding)
  BY DEF TypeInv, Shapes
<1>3. \A m \in Node, u \in Role :
        Put(adding, n, t, new)[m][u] = IF m = n /\ u = t THEN new ELSE adding[m][u]
  BY <1>2, Entry
<1>4. \A m \in Node, u \in Role :
        adding'[m][u] = IF m = n /\ u = t THEN new ELSE adding[m][u]
  BY <1>1, <1>3
<1>5. new.peer = p /\ p # 0
  BY PeersNumbered
<1> HIDE DEF new
<1>6. \A m \in Node, u \in Role : adding'[m][u].peer \in (Peer \cup {0}) \ {m}
  BY <1>4, <1>5, OldSibs DEF Sibs
<1>7. \A m \in Node : sibs'[m] \in Seq(Peer \ {m})
  BY OldSibs DEF Sibs
<1>8. Sibs'
  BY <1>6, <1>7 DEF Sibs
<1>9. adding'[n][t].peer # 0 /\ adding'[n][t].peer = p
  BY <1>4, <1>5
<1> QED
  BY <1>4, <1>8, <1>9

LEMMA ExtendTyped ==
  ASSUME TypeInv, NEW n \in Node, NEW t \in Role, Extend(n, t),
         adding[n][t].peer # 0
  PROVE  /\ Sibs'
         /\ \A m \in Node, u \in Role :
              m # n \/ u # t => adding'[m][u] = adding[m][u]
<1> DEFINE new == adding[n][t]
<1>1. PICK len \in {new.len, Len(sibs[n])} \cap (0 .. Len(sibs[n])) :
        sibs' = [sibs EXCEPT ![n] = Append(SubSeq(@, 1, len), new.peer)]
  BY DEF Extend
<1>2. new.peer \in Peer \ {n} /\ sibs[n] \in Seq(Peer \ {n})
  BY DEF TypeInv, TypeOK, Role
<1>3. SubSeq(sibs[n], 1, len) \in Seq(Peer \ {n})
  <2>1. len \in 0 .. Len(sibs[n]) /\ Len(sibs[n]) \in Nat
    BY <1>1, <1>2
  <2> QED
    BY <1>2, <2>1
<1>4. Append(SubSeq(sibs[n], 1, len), new.peer) \in Seq(Peer \ {n})
  BY <1>2, <1>3
<1>5. /\ sibs'[n] = Append(SubSeq(sibs[n], 1, len), new.peer)
      /\ \A m \in Node \ {n} : sibs'[m] = sibs[m]
  BY <1>1 DEF TypeInv, Shapes
<1>6. \A m \in Node : sibs'[m] \in Seq(Peer \ {m})
  BY <1>4, <1>5 DEF TypeInv, TypeOK
<1>7. adding' = Put(adding, n, t, Nothing)
  BY DEF Extend, Put
<1>8. Table(adding)
  BY DEF TypeInv, Shapes
<1>9. \A m \in Node, u \in Role :
        Put(adding, n, t, Nothing)[m][u]
          = IF m = n /\ u = t THEN Nothing ELSE adding[m][u]
  BY <1>8, Entry
<1>10. \A m \in Node, u \in Role :
         adding'[m][u] = IF m = n /\ u = t THEN Nothing ELSE adding[m][u]
  BY <1>7, <1>9
<1>11. Nothing.peer = 0 /\ 0 \notin Node
  BY PeersNumbered DEF Nothing
<1>12. \A m \in Node, u \in Role : adding'[m][u].peer \in (Peer \cup {0}) \ {m}
  BY <1>10, <1>11, OldSibs DEF Sibs
<1> QED
  BY <1>6, <1>10, <1>12 DEF Sibs

(* The rest of TypeOK. *)
Kinds ==
  /\ bench \in BOOLEAN /\ at \in 1 .. Len(Script) + 1
  /\ step \in {"call", "append", "send", "spawn", "stop", "return", "join",
              "delete"}
  /\ nodes \subseteq Node /\ up \subseteq Node /\ enodes \subseteq nodes \cap up
  /\ stopNode \subseteq Node /\ stop \subseteq stopNode /\ ready \subseteq Node
  /\ recv \in [Node -> {"none", "out", "in", "append", "done"}]
  /\ rest \subseteq Node /\ stuck \subseteq Node /\ asleep \subseteq rest
  /\ client \in [Node -> {"none", "out", "in", "done"}]
  /\ net \cup lost \subseteq (Peer \X Node)

Steps == Adding /\ Destroying

LEMMA TypeParts == /\ TypeInv => Shapes /\ Kinds /\ Sibs /\ Steps
                   /\ Kinds /\ Sibs => TypeOK
  BY DEF TypeInv, TypeOK, Kinds, Sibs, Steps, Role

LEMMA TypeInvInit == Init => TypeInv
<1> SUFFICES ASSUME Init PROVE TypeInv
  OBVIOUS
<1>1. Shapes
  BY RegInvInit DEF RegInv
<1>2. 1 \in 1 .. Len(Script) + 1
  BY ScriptOfOperations
<1>3. /\ net \subseteq (Peer \X Node) /\ \A s \in net : s[1] # s[2]
  <2>1. 1 \in Node /\ Range(Given) \ Node \subseteq Peer \ {1}
    BY NodesAssumption DEF Node, Peer
  <2> QED
    BY <2>1 DEF Init
<1>4. Kinds
  BY <1>2, <1>3 DEF Init, Kinds
<1>5. Sibs
  <2>1. 0 \notin Node
    BY PeersNumbered
  <2> QED
    BY <2>1 DEF Init, Sibs, Role, Nothing
<1>6. Adding /\ Destroying
  BY <1>3 DEF Init, Adding, Destroying
<1> QED
  BY <1>1, <1>4, <1>5, <1>6, TypeParts DEF TypeInv

(* The steps of main outside the registry. *)
LEMMA MainTyped ==
  ASSUME TypeInv,
         \/ Create \/ AddSend \/ Start \/ Spawn \/ Sleep
         \/ Destroy \/ Stop \/ StopReturns \/ Join \/ Delete
  PROVE  Kinds' /\ Sibs' /\ Steps'
<1>0. Kinds /\ Sibs /\ Steps
  BY TypeParts
<1>1. at \in 1 .. Len(Script) + 1
  BY <1>0 DEF Kinds
<1>2. UNCHANGED registry
  BY DEF Create, AddSend, Start, Spawn, Sleep, Destroy, Stop, StopReturns,
         Join, Delete
<1>3. Sibs'
  BY <1>0, <1>2 DEF Sibs, registry
<1>4. CASE Create
  <2>1. Script[at].node \in Node /\ at' \in 1 .. Len(Script) + 1 /\ step' = "call"
    BY <1>1, <1>4, InOperation, Onwards DEF Create
  <2>2. Kinds'
    BY <1>0, <1>4, <2>1 DEF Kinds, Create
  <2>3. Steps'
    BY <1>0, <1>2, <1>4, <2>1 DEF Steps, Adding, Destroying, Create, registry
  <2> QED
    BY <1>3, <2>2, <2>3
<1>5. CASE AddSend
  <2>1. /\ Script[at].node \in Node /\ Script[at].peer \in Peer
        /\ Script[at].peer # Script[at].node
        /\ at' \in 1 .. Len(Script) + 1 /\ step' = "call"
    BY <1>0, <1>1, <1>5, InOperation, Onwards DEF AddSend, Steps, Adding
  <2> DEFINE s == <<Script[at].node, Script[at].peer>>
  <2>2. /\ net' \subseteq net \cup {s} /\ lost' \subseteq lost \cup {s}
        /\ s[2] \in Node \/ UNCHANGED <<net, lost>>
    BY <1>5 DEF AddSend
  <2>3. net' \cup lost' \subseteq (Peer \X Node) /\ \A x \in net' : x[1] # x[2]
    <3>1. s[2] \in Node => s \in Peer \X Node
      BY <2>1, PeersNumbered
    <3>2. s[1] # s[2]
      BY <2>1
    <3> HIDE DEF s
    <3> QED
      BY <1>0, <2>2, <3>1, <3>2 DEF Kinds, Steps, Adding
  <2>4. Kinds'
    BY <1>0, <1>5, <2>1, <2>3 DEF Kinds, AddSend, life, others
  <2>5. Steps'
    BY <1>0, <1>2, <1>5, <2>1, <2>3
       DEF Steps, Adding, Destroying, AddSend, registry
  <2> QED
    BY <1>3, <2>4, <2>5
<1>6. CASE Start
  <2>1. at' = at /\ step' = "spawn"
    BY <1>6 DEF Start, Then
  <2>2. Kinds'
    BY <1>0, <1>6, <2>1 DEF Kinds, Start, life, others
  <2>3. Steps'
    BY <1>0, <1>2, <1>6, <2>1 DEF Steps, Adding, Destroying, Start, registry
  <2> QED
    BY <1>3, <2>2, <2>3
<1>7. CASE Spawn \/ Sleep
  <2>1. at' \in 1 .. Len(Script) + 1 /\ step' = "call"
    BY <1>1, <1>7, Onwards DEF Spawn, Sleep
  <2>2. Kinds'
    BY <1>0, <1>7, <2>1 DEF Kinds, Spawn, Sleep, life, others
  <2>3. Steps'
    BY <1>0, <1>2, <1>7, <2>1 DEF Steps, Adding, Destroying, Spawn, Sleep,
                                  registry
  <2> QED
    BY <1>3, <2>2, <2>3
<1>8. CASE Destroy
  <2>1. Script[at].node \in Node /\ at' = at /\ step' = "stop"
    BY <1>1, <1>8, InOperation DEF Destroy, Then
  <2>2. Kinds'
    BY <1>0, <1>8, <2>1 DEF Kinds, Destroy, others
  <2>3. Steps'
    BY <1>0, <1>2, <1>8, <2>1 DEF Steps, Adding, Destroying, Destroy, Doing,
                                  Ended, registry
  <2> QED
    BY <1>3, <2>2, <2>3
<1>9. CASE Stop
  <2>1. /\ Script[at].node \in stopNode /\ at' = at /\ step' = "return"
        /\ stopNode' = stopNode /\ Doing("destroy")
    BY <1>0, <1>9 DEF Stop, Then, Steps, Destroying
  <2>2. Kinds'
    BY <1>0, <1>9, <2>1 DEF Kinds, Stop, others
  <2>3. Steps'
    BY <1>0, <1>2, <1>9, <2>1 DEF Steps, Adding, Destroying, Stop, Doing,
                                  Ended, registry
  <2> QED
    BY <1>3, <2>2, <2>3
<1>10. CASE Join
  <2>1. /\ Script[at].node \in stopNode /\ at' = at /\ step' = "delete"
        /\ stopNode' = stopNode /\ Doing("destroy")
    BY <1>0, <1>10 DEF Join, Then, Steps, Destroying, life
  <2>2. Kinds'
    BY <1>0, <1>10, <2>1 DEF Kinds, Join, life, others
  <2>3. Steps'
    BY <1>0, <1>2, <1>10, <2>1
       DEF Steps, Adding, Destroying, Join, Doing, Ended, registry
  <2> QED
    BY <1>3, <2>2, <2>3
<1>11. CASE Delete
  <2>1. at' \in 1 .. Len(Script) + 1 /\ step' = "call"
    BY <1>1, <1>11, Onwards DEF Delete
  <2>2. Kinds'
    BY <1>0, <1>11, <2>1 DEF Kinds, Delete, others
  <2>3. Steps'
    BY <1>0, <1>2, <1>11, <2>1 DEF Steps, Adding, Destroying, Delete, registry
  <2> QED
    BY <1>3, <2>2, <2>3
<1>12. CASE StopReturns
  <2>1. /\ Script[at].node \in stopNode /\ at' = at /\ step' = "join"
        /\ stopNode' = stopNode /\ Doing("destroy")
    BY <1>0, <1>12 DEF StopReturns, Then, Steps, Destroying, life
  <2>2. Kinds'
    BY <1>0, <1>12, <2>1 DEF Kinds, StopReturns, life, others
  <2>3. Steps'
    BY <1>0, <1>2, <1>12, <2>1
       DEF Steps, Adding, Destroying, StopReturns, Doing, Ended, registry
  <2> QED
    BY <1>3, <2>2, <2>3
<1> QED
  BY <1>4, <1>5, <1>6, <1>7, <1>8, <1>9, <1>10, <1>11, <1>12

(* Registration, by main. *)
LEMMA AddTyped ==
  ASSUME TypeInv, AddSibling \/ AddAppend
  PROVE  Kinds' /\ Sibs' /\ Steps'
<1>0. Kinds /\ Sibs /\ Steps
  BY TypeParts
<1>1. at \in 1 .. Len(Script) + 1
  BY <1>0 DEF Kinds
<1>2. Doing("add") /\ Script[at].node \in Node /\ Script[at].peer \in Peer
  BY <1>0, <1>1, InOperation DEF AddSibling, AddAppend
<1> DEFINE n == Script[at].node
           p == Script[at].peer
<1>3. CASE AddSibling
  <2>1. CASE Done /\ UNCHANGED adding
    <3>1. at' \in 1 .. Len(Script) + 1 /\ step' = "call"
      BY <1>1, <1>2, <2>1, Onwards
    <3>2. Kinds'
      BY <1>0, <1>3, <3>1 DEF Kinds, AddSibling, life, others
    <3>3. Sibs' /\ Steps'
      BY <1>0, <1>3, <2>1, <3>1 DEF Sibs, Steps, Adding, Destroying, AddSibling
    <3> QED
      BY <3>2, <3>3
  <2>2. CASE p # n /\ Then("append") /\ Search(n, "main", p)
    <3>1. UNCHANGED <<sibs, recv, net>>
      BY <1>3 DEF AddSibling
    <3>2. /\ Sibs' /\ adding'[n]["main"].peer # 0
          /\ \A m \in Node : adding'[m]["receive"] = adding[m]["receive"]
      BY <1>2, <2>2, <3>1, SearchTyped DEF Role
    <3>3. at' = at /\ step' = "append"
      BY <2>2 DEF Then
    <3>4. Kinds'
      BY <1>0, <1>3, <3>3 DEF Kinds, AddSibling, life, others
    <3>5. Steps'
      BY <1>0, <1>2, <2>2, <3>1, <3>2, <3>3
         DEF Steps, Adding, Destroying, Doing, Ended
    <3> QED
      BY <3>2, <3>4, <3>5
  <2> QED
    BY <1>3, <2>1, <2>2 DEF AddSibling
<1>4. CASE AddAppend
  <2>1. Extend(n, "main") /\ adding[n]["main"].peer # 0
    BY <1>0, <1>4 DEF AddAppend, Steps, Adding
  <2>2. /\ Sibs' /\ \A m \in Node : adding'[m]["receive"] = adding[m]["receive"]
    BY <1>2, <2>1, ExtendTyped DEF Role
  <2>3. at' = at /\ step' = "send" /\ UNCHANGED <<recv, net>>
    BY <1>4 DEF AddAppend, Then
  <2>4. Kinds'
    BY <1>0, <1>4, <2>3 DEF Kinds, AddAppend, life, others
  <2>5. Steps'
    BY <1>0, <1>4, <2>2, <2>3
       DEF Steps, Adding, Destroying, Doing, Ended, AddAppend
  <2> QED
    BY <2>2, <2>4, <2>5
<1> QED
  BY <1>3, <1>4

(* The threads of a node. *)
LEMMA ThreadsTyped ==
  ASSUME TypeInv, NEW n \in Node, Receive(n) \/ Rest(n) \/ Client(n) \/ Readiness(n)
  PROVE  Kinds' /\ Sibs' /\ Steps'
<1>0. Kinds /\ Sibs /\ Steps
  BY TypeParts
<1>1. UNCHANGED <<place, bench, nodes, up, enodes, stopNode, stop>>
  BY DEF Receive, RecvEnter, HandleS, HandleSAppend, RecvEnd, Rest, RestEnd,
         Stick, Oversleep, Client, ClientCalls, ClientReturns, ClientGoes,
         Readiness, life
<1>2. ASSUME UNCHANGED <<sibs, adding, net>>,
             \A m \in Node : recv'[m] = "append" => recv[m] = "append"
      PROVE  Sibs' /\ Steps'
  BY <1>0, <1>1, <1>2 DEF Sibs, Steps, Adding, Destroying, Doing, Ended, place
<1>3. CASE RecvEnter(n) \/ RecvEnd(n)
  <2>1. UNCHANGED <<sibs, adding, net, client, others, ready, lost>>
    BY <1>3 DEF RecvEnter, RecvEnd, registry
  <2>2. /\ recv' \in [Node -> {"none", "out", "in", "append", "done"}]
        /\ \A m \in Node : recv'[m] = "append" => recv[m] = "append"
    BY <1>0, <1>3 DEF RecvEnter, RecvEnd, Kinds
  <2>3. Kinds'
    BY <1>0, <1>1, <2>1, <2>2 DEF Kinds, place, others
  <2> QED
    BY <1>2, <2>1, <2>2, <2>3
<1>4. CASE HandleS(n)
  <2>1. PICK s \in net :
          /\ s[2] = n /\ net' = net \ {s}
          /\ IF Known(n, s[1])
               THEN UNCHANGED <<recv, adding>>
               ELSE /\ recv' = [recv EXCEPT ![n] = "append"]
                    /\ Search(n, "receive", s[1])
    BY <1>4 DEF HandleS
  <2>2. UNCHANGED <<client, sibs, others, ready, lost>>
    BY <1>4 DEF HandleS
  <2>3. s[1] \in Peer \ {n}
    BY <1>0, <2>1 DEF Kinds, Steps, Adding
  <2>4. recv' \in [Node -> {"none", "out", "in", "append", "done"}]
    BY <1>0, <2>1 DEF Kinds
  <2>5. Kinds'
    BY <1>0, <1>1, <2>1, <2>2, <2>4 DEF Kinds, place, others
  <2>6. CASE UNCHANGED <<recv, adding>>
    <3>1. Sibs'
      BY <1>0, <2>2, <2>6 DEF Sibs
    <3>2. Steps'
      BY <1>0, <1>1, <2>1, <2>6
         DEF Steps, Adding, Destroying, Doing, Ended, place
    <3> QED
      BY <2>5, <3>1, <3>2
  <2>7. CASE /\ recv' = [recv EXCEPT ![n] = "append"]
             /\ Search(n, "receive", s[1])
    <3>1. /\ Sibs' /\ adding'[n]["receive"].peer # 0
          /\ \A m \in Node \ {n} : adding'[m]["receive"] = adding[m]["receive"]
          /\ \A m \in Node : adding'[m]["main"] = adding[m]["main"]
      BY <2>2, <2>3, <2>7, SearchTyped DEF Role
    <3>2. \A m \in Node \ {n} : recv'[m] = recv[m]
      BY <1>0, <2>7 DEF Kinds
    <3>3. at \in 1 .. Len(Script) + 1
      BY <1>0 DEF Kinds
    <3>4. step = "append" => Script[at].node \in Node
      BY <1>0, <3>3, InOperation DEF Steps, Adding
    <3>5. Adding'
      BY <1>0, <1>1, <2>1, <3>1, <3>2, <3>4
         DEF Steps, Adding, Doing, Ended, place
    <3>6. Destroying'
      BY <1>0, <1>1 DEF Steps, Destroying, Doing, Ended, place
    <3> QED
      BY <2>5, <3>1, <3>5, <3>6 DEF Steps
  <2> QED
    BY <2>1, <2>6, <2>7
<1>5. CASE HandleSAppend(n)
  <2>1. /\ Extend(n, "receive") /\ adding[n]["receive"].peer # 0
        /\ recv' = [recv EXCEPT ![n] = "in"]
        /\ UNCHANGED <<client, net, others, ready, lost>>
    BY <1>0, <1>5 DEF HandleSAppend, Steps, Adding
  <2>2. /\ Sibs'
        /\ \A m \in Node \ {n} : adding'[m]["receive"] = adding[m]["receive"]
        /\ \A m \in Node : adding'[m]["main"] = adding[m]["main"]
    BY <2>1, ExtendTyped DEF Role
  <2>3. /\ recv' \in [Node -> {"none", "out", "in", "append", "done"}]
        /\ recv'[n] = "in" /\ \A m \in Node \ {n} : recv'[m] = recv[m]
    BY <1>0, <2>1 DEF Kinds
  <2>4. Kinds'
    BY <1>0, <1>1, <2>1, <2>3 DEF Kinds, place, others
  <2>5. at \in 1 .. Len(Script) + 1
    BY <1>0 DEF Kinds
  <2>6. step = "append" => Script[at].node \in Node
    BY <1>0, <2>5, InOperation DEF Steps, Adding
  <2>7. Adding'
    BY <1>0, <1>1, <2>1, <2>2, <2>3, <2>6 DEF Steps, Adding, Doing, Ended, place
  <2>8. Destroying'
    BY <1>0, <1>1 DEF Steps, Destroying, Doing, Ended, place
  <2> QED
    BY <2>2, <2>4, <2>7, <2>8 DEF Steps
<1>6. CASE Client(n)
  <2>1. /\ UNCHANGED <<sibs, adding, net, recv, others, ready, lost>>
        /\ client' \in [Node -> {"none", "out", "in", "done"}]
    BY <1>0, <1>6 DEF Client, ClientCalls, ClientReturns, ClientGoes, registry,
                      Kinds
  <2>2. Kinds'
    BY <1>0, <1>1, <2>1 DEF Kinds, place, others
  <2> QED
    BY <1>2, <2>1, <2>2
<1>7. CASE Readiness(n)
  <2>1. /\ UNCHANGED <<sibs, adding, net, recv, client, others, lost>>
        /\ ready' \subseteq Node
    BY <1>0, <1>7 DEF Readiness, registry, Kinds
  <2>2. Kinds'
    BY <1>0, <1>1, <2>1 DEF Kinds, place, others
  <2> QED
    BY <1>2, <2>1, <2>2
<1>8. CASE Rest(n)
  <2>1. /\ UNCHANGED <<sibs, adding, net, recv, client, ready, lost>>
        /\ rest' \subseteq Node /\ stuck' \subseteq Node /\ asleep' \subseteq rest'
    BY <1>0, <1>8 DEF Rest, RestEnd, Stick, Oversleep, MayHang, registry, Kinds
  <2>2. Kinds'
    BY <1>0, <1>1, <2>1 DEF Kinds, place
  <2> QED
    BY <1>2, <2>1, <2>2
<1> QED
  BY <1>3, <1>4, <1>5, <1>6, <1>7, <1>8 DEF Receive

(* The invariants of the registry and of the places, together. *)
LEMMA Typed == Spec => [](RegInv /\ TypeInv)
<1>1. RegInv /\ TypeInv /\ [Next]_vars => (RegInv /\ TypeInv)'
  <2> SUFFICES ASSUME RegInv, TypeInv, [Next]_vars PROVE (RegInv /\ TypeInv)'
    OBVIOUS
  <2>1. RegInv' /\ Shapes'
    BY RegInvKept DEF RegInv
  <2>2. Kinds' /\ Sibs' /\ Steps'
    <3>1. CASE UNCHANGED vars
      BY <3>1, TypeParts DEF vars, place, life, others, registry, Kinds, Sibs,
                             Steps, Adding, Destroying, Doing, Ended
    <3> QED
      BY <3>1, MainTyped, AddTyped, ThreadsTyped DEF Next, Main
  <2>3. TypeOK'
    BY <2>2 DEF Kinds, Sibs, TypeOK, Role
  <2> QED
    BY <2>1, <2>2, <2>3 DEF TypeInv, Steps
<1> QED
  BY <1>1, RegInvInit, TypeInvInit, PTL DEF Spec

(* Every state is well formed: in particular no node is among its own      *)
(* siblings, though its own address may be given and S comes from anybody. *)
THEOREM WellTyped == Spec => []TypeOK
<1>1. TypeInv => TypeOK
  BY DEF TypeInv
<1> QED
  BY <1>1, Typed, PTL

-----------------------------------------------------------------------------
(* The order of the script: nodes are created, then told of each other,    *)
(* then have a client started, and are destroyed after all that.           *)

LEMMA Concatenation ==
  ASSUME NEW S, NEW s \in Seq(S), NEW t \in Seq(S)
  PROVE  /\ s \o t \in Seq(S) /\ Len(s \o t) = Len(s) + Len(t)
         /\ Len(s) \in Nat /\ Len(t) \in Nat
         /\ \A i \in 1 .. Len(s) : (s \o t)[i] = s[i]
         /\ \A i \in 1 .. Len(t) : (s \o t)[Len(s) + i] = t[i]
  OBVIOUS

(* How many operations precede the start of the first client. *)
Links == N + Len(Pairs) + Len(Given)

LEMMA Order ==
  /\ N \in Nat /\ Len(Pairs) \in Nat /\ Len(Given) \in Nat
  /\ Len(Script) = Links + N + 1 + N
  /\ \A i \in 1 .. N : Script[i] = Each("create")[i]
  /\ \A i \in 1 .. Len(Pairs) : Script[N + i] = Introductions[i]
  /\ \A i \in 1 .. Len(Given) : Script[N + Len(Pairs) + i] = GivenOnes[i]
  /\ \A i \in 1 .. N : Script[Links + i] = Each("start")[i]
  /\ Script[Links + N + 1] = [do |-> "sleep"]
  /\ \A i \in 1 .. N : Script[Links + N + 1 + i] = Each("destroy")[i]
<1> DEFINE C == Each("create")  P == Introductions  G == GivenOnes
           S == Each("start")   Z == <<[do |-> "sleep"]>>
           D == Each("destroy")
<1>1. /\ C \in Seq(Operation) /\ P \in Seq(Operation) /\ G \in Seq(Operation)
      /\ S \in Seq(Operation) /\ Z \in Seq(Operation) /\ D \in Seq(Operation)
      /\ Len(C) = N /\ Len(P) = Len(Pairs) /\ Len(G) = Len(Given)
      /\ Len(S) = N /\ Len(D) = N
      /\ Script = C \o P \o G \o S \o Z \o D
  BY ScriptParts
<1>2. Len(Z) = 1 /\ Z[1] = [do |-> "sleep"]
  OBVIOUS
<1> DEFINE A2 == C \o P  A3 == A2 \o G  A4 == A3 \o S  A5 == A4 \o Z
<1> HIDE DEF C, P, G, S, Z, D
<1>3. /\ A2 \in Seq(Operation) /\ Len(A2) = N + Len(Pairs)
      /\ N \in Nat /\ Len(Pairs) \in Nat
      /\ \A i \in 1 .. N : A2[i] = C[i]
      /\ \A i \in 1 .. Len(Pairs) : A2[N + i] = P[i]
  BY <1>1, Concatenation
<1> HIDE DEF A2
<1>4. /\ A3 \in Seq(Operation) /\ Len(A3) = Links /\ Len(Given) \in Nat
      /\ \A i \in 1 .. Len(A2) : A3[i] = A2[i]
      /\ \A i \in 1 .. Len(Given) : A3[N + Len(Pairs) + i] = G[i]
  <2>0. A2 \in Seq(Operation) /\ G \in Seq(Operation)
    BY <1>1, <1>3
  <2>1. /\ A2 \o G \in Seq(Operation) /\ Len(A2 \o G) = Len(A2) + Len(G)
        /\ Len(A2) \in Nat /\ Len(G) \in Nat
        /\ \A i \in 1 .. Len(A2) : (A2 \o G)[i] = A2[i]
        /\ \A i \in 1 .. Len(G) : (A2 \o G)[Len(A2) + i] = G[i]
    BY <2>0, Concatenation
  <2> QED
    BY <1>1, <1>3, <2>1 DEF Links
<1> HIDE DEF A3
<1>5. /\ A4 \in Seq(Operation) /\ Len(A4) = Links + N
      /\ \A i \in 1 .. Len(A3) : A4[i] = A3[i]
      /\ \A i \in 1 .. N : A4[Links + i] = S[i]
  <2>0. A3 \in Seq(Operation) /\ S \in Seq(Operation)
    BY <1>1, <1>4
  <2>1. /\ A3 \o S \in Seq(Operation) /\ Len(A3 \o S) = Len(A3) + Len(S)
        /\ Len(A3) \in Nat /\ Len(S) \in Nat
        /\ \A i \in 1 .. Len(A3) : (A3 \o S)[i] = A3[i]
        /\ \A i \in 1 .. Len(S) : (A3 \o S)[Len(A3) + i] = S[i]
    BY <2>0, Concatenation
  <2> QED
    BY <1>1, <1>4, <2>1
<1> HIDE DEF A4
<1>6. /\ A5 \in Seq(Operation) /\ Len(A5) = Links + N + 1
      /\ \A i \in 1 .. Len(A4) : A5[i] = A4[i]
      /\ A5[Links + N + 1] = [do |-> "sleep"]
  <2>0. A4 \in Seq(Operation) /\ Z \in Seq(Operation)
    BY <1>1, <1>5
  <2>1. /\ A4 \o Z \in Seq(Operation) /\ Len(A4 \o Z) = Len(A4) + Len(Z)
        /\ Len(A4) \in Nat /\ Len(Z) \in Nat
        /\ \A i \in 1 .. Len(A4) : (A4 \o Z)[i] = A4[i]
        /\ \A i \in 1 .. Len(Z) : (A4 \o Z)[Len(A4) + i] = Z[i]
    BY <2>0, Concatenation
  <2> QED
    BY <1>2, <1>5, <2>1
<1> HIDE DEF A5
<1>7. /\ Len(Script) = Links + N + 1 + N
      /\ \A i \in 1 .. Len(A5) : Script[i] = A5[i]
      /\ \A i \in 1 .. N : Script[Links + N + 1 + i] = D[i]
  <2>0. A5 \in Seq(Operation) /\ D \in Seq(Operation)
    BY <1>1, <1>6
  <2>1. /\ A5 \o D \in Seq(Operation) /\ Len(A5 \o D) = Len(A5) + Len(D)
        /\ Len(A5) \in Nat /\ Len(D) \in Nat
        /\ \A i \in 1 .. Len(A5) : (A5 \o D)[i] = A5[i]
        /\ \A i \in 1 .. Len(D) : (A5 \o D)[Len(A5) + i] = D[i]
    BY <2>0, Concatenation
  <2>2. Script = A5 \o D
    BY <1>1 DEF A5, A4, A3, A2
  <2> QED
    BY <1>1, <1>6, <2>1, <2>2
<1>8. Links \in Nat /\ Links = N + Len(Pairs) + Len(Given)
  BY <1>3, <1>4 DEF Links
<1>9. /\ \A i \in 1 .. Links + N : Script[i] = A4[i]
      /\ \A i \in 1 .. Links : Script[i] = A3[i]
      /\ \A i \in 1 .. N + Len(Pairs) : Script[i] = A2[i]
  <2> DEFINE l == Links  k == N + Len(Pairs)
  <2>1. N \in Nat /\ l \in Nat /\ k \in Nat /\ k <= l
    BY <1>3, <1>4, <1>8
  <2>2. /\ Len(A2) = k /\ Len(A3) = l /\ Len(A4) = l + N
        /\ Len(A5) = l + N + 1
    BY <1>3, <1>4, <1>5, <1>6
  <2> HIDE DEF l, k
  <2>3. /\ 1 .. k \subseteq 1 .. l /\ 1 .. l \subseteq 1 .. l + N
        /\ 1 .. l + N \subseteq 1 .. l + N + 1
    BY <2>1
  <2>4. \A i \in 1 .. l + N : Script[i] = A4[i]
    BY <1>6, <1>7, <2>2, <2>3
  <2>5. \A i \in 1 .. l : Script[i] = A3[i]
    BY <1>5, <2>2, <2>3, <2>4
  <2>6. \A i \in 1 .. k : Script[i] = A2[i]
    BY <1>4, <2>2, <2>3, <2>5
  <2> QED
    BY <2>4, <2>5, <2>6 DEF l, k
<1>10. \A i \in 1 .. N : Script[i] = C[i]
  <2>1. \A i \in 1 .. N : i \in 1 .. N + Len(Pairs)
    BY <1>3
  <2> QED
    BY <1>3, <1>9, <2>1
<1>11. \A i \in 1 .. Len(Pairs) : Script[N + i] = P[i]
  <2>1. \A i \in 1 .. Len(Pairs) : N + i \in 1 .. N + Len(Pairs)
    BY <1>3
  <2> QED
    BY <1>3, <1>9, <2>1
<1>12. \A i \in 1 .. Len(Given) : Script[N + Len(Pairs) + i] = G[i]
  <2>1. \A i \in 1 .. Len(Given) : N + Len(Pairs) + i \in 1 .. Links
    BY <1>3, <1>4, <1>8
  <2> QED
    BY <1>4, <1>9, <2>1
<1>13. \A i \in 1 .. N : Script[Links + i] = S[i]
  <2>1. \A i \in 1 .. N : Links + i \in 1 .. Links + N
    BY <1>3, <1>8
  <2> QED
    BY <1>5, <1>9, <2>1
<1>14. Script[Links + N + 1] = [do |-> "sleep"]
  <2>1. Links + N + 1 \in 1 .. Len(A5)
    BY <1>3, <1>6, <1>8
  <2> QED
    BY <1>6, <1>7, <2>1
<1> QED
  BY <1>3, <1>4, <1>7, <1>10, <1>11, <1>12, <1>13, <1>14 DEF C, P, G, S, D

(* What the operations are, by their places. *)
LEMMA Layout ==
  ASSUME NEW i \in 1 .. Len(Script)
  PROVE  \/ i <= N /\ Script[i].do = "create" /\ Script[i].node = i
         \/ /\ N < i /\ i <= Links /\ Script[i].do = "add"
            /\ Script[i].peer \in Node =>
                 Script[i].node < Script[i].peer \/ Script[i].peer = Script[i].node
         \/ /\ Links < i /\ i <= Links + N
            /\ Script[i].do = "start" /\ Script[i].node = i - Links
         \/ i = Links + N + 1 /\ Script[i].do = "sleep"
         \/ /\ Links + N + 1 < i
            /\ Script[i].do = "destroy" /\ Script[i].node = i - (Links + N + 1)
<1>1. /\ Links \in Nat /\ N \in Nat /\ Len(Pairs) \in Nat /\ Len(Given) \in Nat
      /\ i \in 1 .. Links + N + 1 + N /\ Links = N + Len(Pairs) + Len(Given)
  BY Order DEF Links
<1>2. CASE i <= N
  <2>1. Script[i] = Each("create")[i] /\ i \in Node
    BY <1>1, <1>2, Order DEF Node
  <2> QED
    BY <1>2, <2>1 DEF Each
<1>3. CASE N < i /\ i <= N + Len(Pairs)
  <2> DEFINE j == i - N
  <2>1. j \in 1 .. Len(Pairs) /\ i = N + j
    BY <1>1, <1>3
  <2>2. Script[i] = Introductions[j]
    BY <2>1, Order
  <2>3. j \in DOMAIN Pairs /\ Pairs[j] \in Node \X Node /\ Pairs[j][1] < Pairs[j][2]
    BY <2>1, PairsOfNodes
  <2>4. Script[i] = [do |-> "add", node |-> Pairs[j][1], peer |-> Pairs[j][2]]
    BY <2>2, <2>3 DEF Introductions
  <2> QED
    BY <1>1, <1>3, <2>3, <2>4
<1>4. CASE N + Len(Pairs) < i /\ i <= Links
  <2> DEFINE j == i - (N + Len(Pairs))
  <2>1. j \in 1 .. Len(Given) /\ i = N + Len(Pairs) + j
    BY <1>1, <1>4
  <2>2. Script[i] = GivenOnes[j]
    BY <2>1, Order
  <2>3. j \in DOMAIN Given
    BY <2>1, GivenPeers
  <2>4. Script[i] = [do |-> "add", node |-> 1, peer |-> Given[j]]
    BY <2>2, <2>3 DEF GivenOnes
  <2>5. Given[j] \in Node => 1 < Given[j] \/ Given[j] = 1
    BY <1>1 DEF Node
  <2> QED
    BY <1>1, <1>4, <2>4, <2>5
<1>5. CASE Links < i /\ i <= Links + N
  <2> DEFINE j == i - Links
  <2>1. j \in 1 .. N /\ i = Links + j
    BY <1>1, <1>5
  <2>2. Script[i] = Each("start")[j] /\ j \in Node
    BY <2>1, Order DEF Node
  <2> QED
    BY <1>5, <2>2 DEF Each
<1>6. CASE i = Links + N + 1
  BY <1>6, Order
<1>7. CASE Links + N + 1 < i
  <2> DEFINE j == i - (Links + N + 1)
  <2>1. j \in 1 .. N /\ i = Links + N + 1 + j
    BY <1>1, <1>7
  <2>2. Script[i] = Each("destroy")[j] /\ j \in Node
    BY <2>1, Order DEF Node
  <2> QED
    BY <1>7, <2>2 DEF Each
<1> QED
  BY <1>1, <1>2, <1>3, <1>4, <1>5, <1>6, <1>7

-----------------------------------------------------------------------------
(* What main waits for when it joins the threads of a node: what makes the *)
(* second half of ProgramEnds possible.                                    *)

(* Whose threads are joined has been created and had its client started,   *)
(* and each of its threads that is in the enclave has been told to stop.   *)
AwaitedAreTold ==
  step = "join" =>
    LET n == Script[at].node IN
      /\ n \in stopNode /\ recv[n] # "none" /\ client[n] # "none"
      /\ recv[n] \in {"in", "append"} \/ n \in rest \/ client[n] = "in" =>
           n \in stop

Started ==
  \A k \in 1 .. at - 1 :
    /\ Script[k].do = "create" => recv[Script[k].node] # "none"
    /\ Script[k].do = "start" => client[Script[k].node] # "none"

Signalled ==
  step \in {"return", "join", "delete"} /\ Script[at].node \in enodes =>
    Script[at].node \in stop

LEMMA NoneNoMore ==
  ASSUME TypeOK, [Next]_vars, NEW m \in Node
  PROVE  /\ recv[m] # "none" => recv'[m] # "none"
         /\ client[m] # "none" => client'[m] # "none"
<1>0. recv = [n \in Node |-> recv[n]] /\ client = [n \in Node |-> client[n]]
  BY DEF TypeOK
<1>1. CASE Main \/ Sleep
  BY <1>0, <1>1 DEF Main, Create, AddSibling, AddAppend, AddSend, Start, Spawn,
                    Destroy, Stop, StopReturns, Join, Delete, Sleep, life
<1>2. ASSUME NEW n \in Node, Receive(n) \/ Rest(n) \/ Readiness(n)
      PROVE  /\ client' = client
             /\ recv[m] # "none" => recv'[m] # "none"
  BY <1>0, <1>2 DEF Receive, RecvEnter, HandleS, HandleSAppend, RecvEnd, Rest,
                    RestEnd, Stick, Oversleep, Readiness
<1>3. ASSUME NEW n \in Node, Client(n)
      PROVE  /\ recv' = recv
             /\ client[m] # "none" => client'[m] # "none"
  BY <1>0, <1>3 DEF Client, ClientCalls, ClientReturns, ClientGoes
<1>4. CASE UNCHANGED vars
  BY <1>4 DEF vars
<1> QED
  BY <1>1, <1>2, <1>3, <1>4 DEF Next

(* How far main is, and what the operation it leaves has done. *)
LEMMA MainGoes ==
  ASSUME TypeInv, [Next]_vars
  PROVE  \/ at' = at
         \/ /\ at \in 1 .. Len(Script) /\ at' = at + 1 /\ step' = "call"
            /\ Script[at].do = "create" => recv'[Script[at].node] # "none"
            /\ Script[at].do = "start" => client'[Script[at].node] # "none"
<1>0. /\ at \in 1 .. Len(Script) + 1
      /\ recv = [n \in Node |-> recv[n]] /\ client = [n \in Node |-> client[n]]
  BY DEF TypeInv, TypeOK
<1>1. CASE Create
  <2>1. at \in 1 .. Len(Script) /\ Script[at].node \in Node /\ Script[at].do = "create"
    BY <1>0, <1>1, InOperation DEF Create, Doing
  <2> QED
    BY <1>0, <1>1, <2>1 DEF Create, Done
<1>2. CASE Spawn
  <2>1. at \in 1 .. Len(Script) /\ Script[at].node \in Node /\ Script[at].do = "start"
    BY <1>0, <1>2, InOperation DEF Spawn, Doing
  <2> QED
    BY <1>0, <1>2, <2>1 DEF Spawn, Done
<1>3. CASE AddSibling \/ AddSend \/ Sleep \/ Delete
  <2>1. at \in 1 .. Len(Script) /\ Script[at].do \in {"add", "sleep", "destroy"}
    BY <1>0, <1>3, InOperation DEF AddSibling, AddSend, Sleep, Delete, Doing
  <2>2. Done \/ Then("append")
    BY <1>3 DEF AddSibling, AddSend, Sleep, Delete
  <2> QED
    BY <2>1, <2>2 DEF Done, Then
<1>4. CASE AddAppend \/ Start \/ Destroy \/ Stop \/ StopReturns \/ Join
  BY <1>4 DEF AddAppend, Start, Destroy, Stop, StopReturns, Join, Then
<1>5. ASSUME NEW n \in Node, Receive(n) \/ Rest(n) \/ Client(n) \/ Readiness(n)
      PROVE  at' = at
  BY <1>5 DEF Receive, RecvEnter, HandleS, HandleSAppend, RecvEnd, Rest,
              RestEnd, Stick, Oversleep, Client, ClientCalls, ClientReturns,
              ClientGoes, Readiness, place
<1>6. CASE UNCHANGED vars
  BY <1>6 DEF vars, place
<1> QED
  BY <1>1, <1>2, <1>3, <1>4, <1>5, <1>6 DEF Next, Main

LEMMA StartedKept ==
  ASSUME TypeInv, Started, [Next]_vars
  PROVE  Started'
<1> SUFFICES ASSUME NEW k \in 1 .. at' - 1
             PROVE  /\ Script[k].do = "create" => recv'[Script[k].node] # "none"
                    /\ Script[k].do = "start" => client'[Script[k].node] # "none"
  BY DEF Started
<1>1. at \in 1 .. Len(Script) + 1 /\ Len(Script) \in Nat
  BY ScriptOfOperations DEF TypeInv, TypeOK
<1>2. CASE k \in 1 .. at - 1
  <2>1. k \in 1 .. Len(Script)
    BY <1>1, <1>2
  <2>2. Script[k].do \in {"create", "start"} => Script[k].node \in Node
    <3>1. Script[k] \in Operation
      BY <2>1, ScriptOfOperations
    <3> QED
      BY <3>1 DEF Operation
  <2> QED
    BY <1>2, <2>2, NoneNoMore DEF TypeInv, Started
<1>3. CASE k \notin 1 .. at - 1
  <2>1. k = at /\ at' # at
    BY <1>1, <1>3, MainGoes
  <2> QED
    BY <2>1, MainGoes
<1> QED
  BY <1>2, <1>3

LEMMA SignalledKept ==
  ASSUME TypeInv, Signalled, [Next]_vars
  PROVE  Signalled'
<1>1. CASE Stop
  BY <1>1 DEF Stop, Then, Signalled
<1>2. CASE StopReturns \/ Join
  BY <1>2 DEF StopReturns, Join, Then, Signalled, life
<1>3. CASE \/ Create \/ AddSibling \/ AddAppend \/ AddSend \/ Start \/ Spawn
           \/ Destroy \/ Delete \/ Sleep
  <2>1. step' \in {"call", "append", "send", "spawn", "stop"}
    BY <1>3 DEF Create, AddSibling, AddAppend, AddSend, Start, Spawn, Destroy,
                Delete, Sleep, Done, Then
  <2> QED
    BY <2>1 DEF Signalled
<1>4. ASSUME NEW n \in Node, Receive(n) \/ Rest(n) \/ Client(n) \/ Readiness(n)
      PROVE  UNCHANGED <<place, enodes, stop>>
  BY <1>4 DEF Receive, RecvEnter, HandleS, HandleSAppend, RecvEnd, Rest,
              RestEnd, Stick, Oversleep, Client, ClientCalls, ClientReturns,
              ClientGoes, Readiness, life
<1>5. CASE UNCHANGED vars
  BY <1>5 DEF vars, place, life, Signalled
<1> QED
  BY <1>1, <1>2, <1>3, <1>4, <1>5 DEF Next, Main, place, Signalled

(* A node is destroyed after its creation and the start of its client. *)
LEMMA DestroyedAfterStart ==
  ASSUME TypeInv, Doing("destroy")
  PROVE  \E j, k \in 1 .. at - 1 :
           /\ Script[j].do = "create" /\ Script[j].node = Script[at].node
           /\ Script[k].do = "start" /\ Script[k].node = Script[at].node
<1>1. at \in 1 .. Len(Script) /\ Script[at].do = "destroy" /\ Script[at].node \in Node
  BY InOperation DEF TypeInv, TypeOK, Doing
<1> DEFINE n == Script[at].node
<1>2. /\ n \in 1 .. N /\ N \in Nat /\ Links \in Nat /\ N <= Links
      /\ Len(Script) = Links + N + 1 + N /\ at \in Nat
  BY <1>1, Order DEF Links, Node
<1>3. Links + N + 1 < at
  BY <1>1, Layout
<1> HIDE DEF n
<1>4. n \in 1 .. at - 1 /\ Links + n \in 1 .. at - 1
  BY <1>2, <1>3
<1>5. Script[n].do = "create" /\ Script[n].node = n
  <2>1. n \in 1 .. Len(Script) /\ n <= N
    BY <1>2
  <2> QED
    BY <1>2, <2>1, Layout
<1>6. Script[Links + n].do = "start" /\ Script[Links + n].node = n
  <2>1. Links + n \in 1 .. Len(Script) /\ Links < Links + n /\ Links + n <= Links + N
    BY <1>2
  <2> QED
    BY <1>2, <2>1, Layout
<1> QED
  BY <1>4, <1>5, <1>6 DEF n

(* Main joins only threads that have been started and told to stop, for    *)
(* any number of nodes: no join waits for a thread that has no reason to   *)
(* end (Node.cpp 275 to 288).                                              *)
THEOREM JoinsEnd == Spec => []AwaitedAreTold
<1>1. Init => Started /\ Signalled
  BY DEF Init, Started, Signalled
<1>2. TypeInv /\ Started /\ Signalled /\ [Next]_vars => (Started /\ Signalled)'
  BY StartedKept, SignalledKept
<1>3. TypeInv /\ NodeOutlivesCalls /\ Started /\ Signalled => AwaitedAreTold
  <2> SUFFICES ASSUME TypeInv, NodeOutlivesCalls, Started, Signalled, step = "join"
               PROVE  LET n == Script[at].node IN
                        /\ n \in stopNode /\ recv[n] # "none" /\ client[n] # "none"
                        /\ \/ recv[n] \in {"in", "append"} \/ n \in rest
                           \/ client[n] = "in"
                           => n \in stop
    BY DEF AwaitedAreTold
  <2>1. Doing("destroy") /\ Script[at].node \in stopNode
    BY DEF TypeInv, Destroying
  <2>2. Script[at].node \in Node
    BY <2>1 DEF TypeInv, TypeOK
  <2>3. recv[Script[at].node] # "none" /\ client[Script[at].node] # "none"
    BY <2>1, DestroyedAfterStart DEF Started
  <2> QED
    BY <2>1, <2>2, <2>3 DEF Signalled, NodeOutlivesCalls
<1> QED
  BY <1>1, <1>2, <1>3, Typed, CallsEndFirst, PTL DEF Spec

-----------------------------------------------------------------------------
(* What becomes of an introduction: what Linked rests on. *)

BeingAdded(n, m) == recv[n] = "append" /\ adding[n]["receive"].peer = m

(* Once main has introduced node n to m, n knows m; and if m is a node of  *)
(* the program, m knows n, is about to, or S is under way or lost: unless  *)
(* the threads of one of the two have overlapped.                          *)
Introduced ==
  \A k \in 1 .. at - 1 :
    LET n == Script[k].node
        m == Script[k].peer
    IN  Script[k].do = "add" /\ n \in up \ raced /\ m # n =>
          /\ Known(n, m)
          /\ m \in Node \ raced =>
               Known(m, n) \/ BeingAdded(m, n) \/ <<n, m>> \in net \cup lost

(* Nodes of the program introduce themselves to later ones only. *)
Upwards ==
  /\ \A s \in net : s[1] \in Node => s[1] < s[2]
  /\ \A n, m \in Node : BeingAdded(n, m) => m < n

Notified(n, m) ==
  <<n, m>> \in net \cup lost \/ BeingAdded(m, n) \/ n \in told[m] \/ m \in raced

Sending(n, m) ==
  step = "send" /\ Doing("add") /\ Script[at].node = n /\ Script[at].peer = m

Answered ==
  \A n, m \in Node :
    n < m /\ m \in told[n] => Notified(n, m) \/ Sending(n, m)

(* Main adds whom it has searched; who has not been created adds nobody. *)
Searched ==
  /\ step = "append" => adding[Script[at].node]["main"].peer = Script[at].peer
  /\ step = "send" => Script[at].peer \in told[Script[at].node]
  /\ \A n \in Node : recv[n] # "none" => n < at

Added ==
  \A k \in 1 .. at - 1 :
    Script[k].do = "add" /\ Script[k].node \in up
      /\ Script[k].peer # Script[k].node =>
        \/ Script[k].node \in raced
        \/ /\ Script[k].peer \in told[Script[k].node]
           /\ Script[k].peer \in Node => Notified(Script[k].node, Script[k].peer)

IntroInv == Upwards /\ Answered /\ Searched /\ Added

LEMMA IntroInvInit == Init => IntroInv
<1> SUFFICES ASSUME Init PROVE IntroInv
  OBVIOUS
<1>1. Upwards
  BY DEF Init, Upwards, BeingAdded
<1>2. Answered
  BY DEF Init, Answered
<1>3. Searched /\ Added
  BY DEF Init, Searched, Added
<1> QED
  BY <1>1, <1>2, <1>3 DEF IntroInv

(* With RegisteredOnce the invariant says what Introduced does. *)
LEMMA IntroInvSuffices ==
  ASSUME TypeInv, RegisteredOnce, IntroInv
  PROVE  Introduced
<1> SUFFICES ASSUME NEW k \in 1 .. at - 1, Script[k].do = "add",
                    Script[k].node \in up \ raced, Script[k].peer # Script[k].node
             PROVE  /\ Known(Script[k].node, Script[k].peer)
                    /\ Script[k].peer \in Node \ raced =>
                         \/ Known(Script[k].peer, Script[k].node)
                         \/ BeingAdded(Script[k].peer, Script[k].node)
                         \/ <<Script[k].node, Script[k].peer>> \in net \cup lost
  BY DEF Introduced
<1> DEFINE n == Script[k].node
           m == Script[k].peer
<1>1. k \in 1 .. Len(Script) /\ n \in Node
  BY ScriptOfOperations DEF TypeInv, TypeOK
<1>2. m \in told[n]
  BY DEF IntroInv, Added
<1>3. Known(n, m)
  BY <1>1, <1>2 DEF RegisteredOnce, Known
<1>4. ASSUME m \in Node \ raced
      PROVE  Known(m, n) \/ BeingAdded(m, n) \/ <<n, m>> \in net \cup lost
  <2>1. Notified(n, m)
    BY <1>4 DEF IntroInv, Added
  <2> QED
    BY <1>4, <2>1 DEF Notified, RegisteredOnce, Known
<1> QED
  BY <1>3, <1>4

(* What a step does to the registry: what was extended, and by whom. *)
LEMMA Extensions ==
  ASSUME TypeInv, [Next]_vars, NEW n \in Node
  PROVE  /\ \/ told'[n] = told[n]
            \/ /\ AddAppend /\ n = Script[at].node
               /\ told'[n] = told[n] \cup {adding[n]["main"].peer}
            \/ /\ HandleSAppend(n)
               /\ told'[n] = told[n] \cup {adding[n]["receive"].peer}
         /\ raced \subseteq raced' /\ lost \subseteq lost'
<1>0. told = [m \in Node |-> told[m]]
  BY DEF TypeInv, Shapes
<1>1. ASSUME NEW m \in Node, NEW t \in Role, Extend(m, t)
      PROVE  /\ told'[n] = IF m = n THEN told[n] \cup {adding[n][t].peer}
                                    ELSE told[n]
             /\ raced \subseteq raced'
  BY <1>0, <1>1 DEF Extend
<1>2. CASE AddAppend
  <2>1. Script[at].node \in Node
    BY <1>2, InOperation DEF AddAppend, TypeInv, TypeOK
  <2> QED
    BY <1>1, <1>2, <2>1 DEF AddAppend, Role
<1>3. ASSUME NEW m \in Node, HandleSAppend(m)
      PROVE  /\ \/ told'[n] = told[n]
                \/ m = n /\ told'[n] = told[n] \cup {adding[n]["receive"].peer}
             /\ raced \subseteq raced' /\ lost' = lost
  BY <1>1, <1>3 DEF HandleSAppend, Role
<1>4. ASSUME \/ Create \/ AddSibling \/ AddSend \/ Start \/ Spawn \/ Destroy
             \/ Stop \/ StopReturns \/ Join \/ Delete \/ Sleep
      PROVE  told' = told /\ raced' = raced /\ lost \subseteq lost'
  BY <1>4 DEF Create, AddSibling, AddSend, Start, Spawn, Destroy, Stop,
              StopReturns, Join, Delete, Sleep, registry
<1>5. ASSUME NEW m \in Node,
             \/ RecvEnter(m) \/ HandleS(m) \/ RecvEnd(m) \/ Rest(m)
             \/ Client(m) \/ Readiness(m)
      PROVE  told' = told /\ raced' = raced /\ lost' = lost
  BY <1>5 DEF RecvEnter, HandleS, RecvEnd, Rest, RestEnd, Stick, Oversleep,
              Client, ClientCalls, ClientReturns, ClientGoes, Readiness,
              registry
<1>6. CASE UNCHANGED vars
  BY <1>6 DEF vars, registry
<1> QED
  BY <1>2, <1>3, <1>4, <1>5, <1>6 DEF Next, Main, Receive

(* What a step does on the receiving side. *)
Undisturbed(m) ==
  /\ recv'[m] = "append" <=> recv[m] = "append"
  /\ recv[m] = "append" => adding'[m]["receive"] = adding[m]["receive"]
  /\ \A s \in net : s[2] = m => s \in net'

LEMMA Receiving ==
  ASSUME TypeInv, Searched, [Next]_vars, NEW m \in Node
  PROVE  Undisturbed(m) \/ HandleS(m) \/ HandleSAppend(m)
<1>0. /\ at \in 1 .. Len(Script) + 1
      /\ recv = [n \in Node |-> recv[n]] /\ Kinds /\ Sibs /\ Steps
  BY TypeParts DEF TypeInv, TypeOK
<1>1. CASE Create
  <2>1. at \in 1 .. Len(Script) /\ Script[at].do = "create"
    BY <1>0, <1>1, InOperation DEF Create, Doing
  <2>2. Script[at].node = at
    BY <2>1, Layout
  <2>3. recv[m] = "append" => m # at
    BY <2>1 DEF Searched
  <2> QED
    BY <1>0, <1>1, <2>2, <2>3 DEF Create, Undisturbed, registry
<1>2. CASE AddSibling
  <2>1. recv' = recv /\ net' = net /\ sibs' = sibs
    BY <1>2 DEF AddSibling
  <2>2. Script[at].node \in Node /\ Script[at].peer \in Peer
    BY <1>0, <1>2, InOperation DEF AddSibling
  <2>3. adding'[m]["receive"] = adding[m]["receive"]
    <3>1. CASE UNCHANGED adding
      BY <3>1
    <3>2. CASE /\ Script[at].peer # Script[at].node
               /\ Search(Script[at].node, "main", Script[at].peer)
      BY <2>1, <2>2, <3>2, SearchTyped DEF Role
    <3> QED
      BY <1>2, <3>1, <3>2 DEF AddSibling
  <2> QED
    BY <2>1, <2>3 DEF Undisturbed
<1>3. CASE AddAppend
  <2>1. recv' = recv /\ net' = net
    BY <1>3 DEF AddAppend
  <2>2. Script[at].node \in Node
    BY <1>0, <1>3, InOperation DEF AddAppend
  <2>3. adding[Script[at].node]["main"].peer # 0
    BY <1>0, <1>3 DEF AddAppend, Steps, Adding
  <2>4. adding'[m]["receive"] = adding[m]["receive"]
    BY <1>3, <2>2, <2>3, ExtendTyped DEF AddAppend, Role
  <2> QED
    BY <2>1, <2>4 DEF Undisturbed
<1>4. CASE \/ AddSend \/ Start \/ Spawn \/ Destroy \/ Stop \/ StopReturns
           \/ Join \/ Delete
           \/ Sleep
  <2>1. recv' = recv /\ adding' = adding /\ net \subseteq net'
    BY <1>4 DEF AddSend, Start, Spawn, Destroy, Stop, StopReturns, Join,
                Delete, Sleep, registry
  <2> QED
    BY <2>1 DEF Undisturbed
<1>5. ASSUME NEW n \in Node,
             RecvEnter(n) \/ RecvEnd(n) \/ Rest(n) \/ Client(n) \/ Readiness(n)
      PROVE  Undisturbed(m)
  BY <1>0, <1>5 DEF RecvEnter, RecvEnd, Rest, RestEnd, Stick, Oversleep,
                    Client, ClientCalls, ClientReturns, ClientGoes, Readiness,
                    registry, Undisturbed
<1>6. ASSUME NEW n \in Node, n # m, HandleS(n)
      PROVE  Undisturbed(m)
  <2>1. PICK s \in net :
          /\ s[2] = n /\ net' = net \ {s}
          /\ IF Known(n, s[1])
               THEN UNCHANGED <<recv, adding>>
               ELSE /\ recv' = [recv EXCEPT ![n] = "append"]
                    /\ Search(n, "receive", s[1])
    BY <1>6 DEF HandleS
  <2>2. sibs' = sibs /\ recv'[m] = recv[m]
    BY <1>0, <1>6, <2>1 DEF HandleS
  <2>3. s[1] \in Peer \ {n}
    BY <1>0, <2>1 DEF Kinds, Steps, Adding
  <2>4. adding'[m]["receive"] = adding[m]["receive"]
    BY <1>6, <2>1, <2>2, <2>3, SearchTyped DEF Role
  <2> QED
    BY <1>6, <2>1, <2>2, <2>4 DEF Undisturbed
<1>7. ASSUME NEW n \in Node, n # m, HandleSAppend(n)
      PROVE  Undisturbed(m)
  <2>1. net' = net /\ recv'[m] = recv[m]
    BY <1>0, <1>7 DEF HandleSAppend
  <2>2. adding[n]["receive"].peer # 0
    BY <1>0, <1>7 DEF HandleSAppend, Steps, Adding
  <2>3. adding'[m]["receive"] = adding[m]["receive"]
    BY <1>7, <2>2, ExtendTyped DEF HandleSAppend, Role
  <2> QED
    BY <2>1, <2>3 DEF Undisturbed
<1>8. CASE UNCHANGED vars
  BY <1>8 DEF vars, registry, Undisturbed
<1> QED
  BY <1>1, <1>2, <1>3, <1>4, <1>5, <1>6, <1>7, <1>8 DEF Next, Main, Receive

(* What a receive thread does with S. *)
LEMMA Handling ==
  ASSUME TypeInv, NEW m \in Node, HandleS(m)
  PROVE  \E s \in net :
           /\ s = <<s[1], m>> /\ s[1] \in Peer \ {m} /\ net' = net \ {s}
           /\ recv[m] # "append"
           /\ \/ Known(m, s[1]) /\ recv'[m] # "append"
              \/ BeingAdded(m, s[1])'
<1>0. recv = [n \in Node |-> recv[n]] /\ Kinds /\ Sibs /\ Steps
  BY TypeParts DEF TypeInv, TypeOK
<1>1. PICK s \in net :
        /\ s[2] = m /\ net' = net \ {s}
        /\ IF Known(m, s[1])
             THEN UNCHANGED <<recv, adding>>
             ELSE /\ recv' = [recv EXCEPT ![m] = "append"]
                  /\ Search(m, "receive", s[1])
  BY DEF HandleS
<1>2. recv[m] = "in" /\ sibs' = sibs
  BY DEF HandleS
<1>3. s = <<s[1], m>> /\ s[1] \in Peer \ {m}
  BY <1>0, <1>1 DEF Kinds, Steps, Adding
<1>4. CASE Known(m, s[1])
  BY <1>1, <1>2, <1>3, <1>4
<1>5. CASE ~Known(m, s[1])
  <2>1. recv'[m] = "append" /\ Search(m, "receive", s[1])
    BY <1>0, <1>1, <1>5
  <2>2. adding'[m]["receive"].peer = s[1]
    BY <1>2, <1>3, <2>1, SearchTyped DEF Role
  <2> QED
    BY <1>1, <1>2, <1>3, <2>1, <2>2 DEF BeingAdded
<1> QED
  BY <1>4, <1>5

(* An introduction under way is not forgotten: S that is taken from the    *)
(* network is answered by an extension, or was not needed.                 *)
LEMMA NotifiedStays ==
  ASSUME TypeInv, RegisteredOnce, Searched, [Next]_vars,
         NEW n \in Node, NEW m \in Node, Notified(n, m)
  PROVE  Notified(n, m)'
<1>1. told[m] \subseteq told'[m] /\ raced \subseteq raced' /\ lost \subseteq lost'
  BY Extensions
<1>2. CASE Undisturbed(m)
  BY <1>1, <1>2 DEF Undisturbed, Notified, BeingAdded
<1>3. CASE HandleS(m)
  <2>1. PICK s \in net :
          /\ s = <<s[1], m>> /\ s[1] \in Peer \ {m} /\ net' = net \ {s}
          /\ recv[m] # "append"
          /\ Known(m, s[1]) \/ BeingAdded(m, s[1])'
    BY <1>3, Handling
  <2>2. CASE s = <<n, m>>
    <3>1. s[1] = n
      BY <2>2
    <3>2. Known(m, n) => n \in told[m] \/ m \in raced
      BY DEF RegisteredOnce, Known
    <3> QED
      BY <1>1, <2>1, <3>1, <3>2 DEF Notified
  <2>3. CASE s # <<n, m>>
    BY <1>1, <2>1, <2>3 DEF Notified, BeingAdded
  <2> QED
    BY <2>2, <2>3
<1>4. CASE HandleSAppend(m)
  <2>1. net' = net
    BY <1>4 DEF HandleSAppend
  <2>2. BeingAdded(m, n) => n \in told'[m]
    <3>1. told = [i \in Node |-> told[i]]
      BY DEF TypeInv, Shapes
    <3> QED
      BY <1>4, <3>1 DEF HandleSAppend, Extend, BeingAdded
  <2> QED
    BY <1>1, <2>1, <2>2 DEF Notified
<1> QED
  BY <1>2, <1>3, <1>4, Receiving

(* What main's part of an introduction sends. *)
LEMMA SendOf ==
  ASSUME TypeInv, [Next]_vars
  PROVE  /\ AddSend => LET s == <<Script[at].node, Script[at].peer>> IN
               /\ s[1] \in Node /\ s[1] # s[2] /\ (s[2] \in Node => s[1] < s[2])
               /\ net' \subseteq net \cup {s}
               /\ s[2] \in Node => s \in net' \cup lost'
         /\ ~AddSend => net' \subseteq net
<1>1. CASE AddSend
  <2>1. /\ at \in 1 .. Len(Script) /\ Script[at].do = "add" /\ Script[at].node \in Node
        /\ Script[at].peer # Script[at].node
    BY <1>1, InOperation DEF AddSend, TypeInv, TypeOK, Adding, Doing
  <2>2. Script[at].peer \in Node => Script[at].node < Script[at].peer
    BY <2>1, Layout
  <2>3. /\ net' \subseteq net \cup {<<Script[at].node, Script[at].peer>>}
        /\ Script[at].peer \in Node =>
             <<Script[at].node, Script[at].peer>> \in net' \cup lost'
    BY <1>1 DEF AddSend
  <2> QED
    BY <1>1, <2>1, <2>2, <2>3
<1>2. ASSUME \/ Create \/ AddSibling \/ AddAppend \/ Start \/ Spawn \/ Destroy
             \/ Stop \/ StopReturns \/ Join \/ Delete \/ Sleep
      PROVE  net' = net
  BY <1>2 DEF Create, AddSibling, AddAppend, Start, Spawn, Destroy, Stop,
              StopReturns, Join, Delete, Sleep
<1>3. ASSUME NEW m \in Node, Receive(m) \/ Rest(m) \/ Client(m) \/ Readiness(m)
      PROVE  net' \subseteq net
  BY <1>3 DEF Receive, RecvEnter, HandleS, HandleSAppend, RecvEnd, Rest,
              RestEnd, Stick, Oversleep, Client, ClientCalls, ClientReturns,
              ClientGoes, Readiness
<1>4. ASSUME UNCHANGED vars
      PROVE  net' = net
  BY <1>4 DEF vars
<1> QED
  BY <1>1, <1>2, <1>3, <1>4 DEF Next, Main

LEMMA UpwardsKept ==
  ASSUME TypeInv, Searched, Upwards, [Next]_vars
  PROVE  Upwards'
<1>1. ASSUME NEW s \in net', s[1] \in Node
      PROVE  s[1] < s[2]
  <2>1. CASE s \in net
    BY <1>1, <2>1 DEF Upwards
  <2>2. CASE s \notin net
    <3>1. /\ AddSend /\ s = <<Script[at].node, Script[at].peer>>
          /\ s[2] \in Node => s[1] < s[2]
      BY <2>2, SendOf
    <3>2. s[2] \in Node
      BY <2>2, <3>1 DEF AddSend
    <3> QED
      BY <3>1, <3>2
  <2> QED
    BY <2>1, <2>2
<1>2. ASSUME NEW n \in Node, NEW m \in Node, BeingAdded(n, m)'
      PROVE  m < n
  <2>1. CASE Undisturbed(n)
    BY <1>2, <2>1 DEF Undisturbed, BeingAdded, Upwards
  <2>2. CASE HandleS(n)
    <3>1. PICK s \in net :
            /\ s = <<s[1], n>>
            /\ recv'[n] # "append" \/ BeingAdded(n, s[1])'
      BY <2>2, Handling
    <3>2. s[1] = m /\ s[2] = n
      BY <1>2, <3>1 DEF BeingAdded
    <3> QED
      BY <3>2 DEF Upwards
  <2>3. CASE HandleSAppend(n)
    BY <1>2, <2>3 DEF HandleSAppend, BeingAdded, TypeInv, TypeOK
  <2> QED
    BY <2>1, <2>2, <2>3, Receiving
<1> QED
  BY <1>1, <1>2 DEF Upwards

LEMMA AnsweredKept ==
  ASSUME TypeInv, RegisteredOnce, IntroInv, [Next]_vars
  PROVE  Answered'
<1> SUFFICES ASSUME NEW n \in Node, NEW m \in Node, n < m, m \in told'[n]
             PROVE  Notified(n, m)' \/ Sending(n, m)'
  BY DEF Answered
<1>0. at \in 1 .. Len(Script) + 1
  BY DEF TypeInv, TypeOK
<1>1. CASE m \in told[n]
  <2>1. CASE Notified(n, m)
    BY <2>1, NotifiedStays DEF IntroInv
  <2>2. CASE Sending(n, m)
    <3>1. CASE AddSend
      <4>1. <<n, m>> \in net' \cup lost'
        BY <2>2, <3>1, SendOf DEF Sending
      <4> QED
        BY <4>1 DEF Notified
    <3>2. ASSUME NEW i \in Node, Receive(i) \/ Rest(i) \/ Client(i) \/ Readiness(i)
          PROVE  UNCHANGED place
      BY <3>2 DEF Receive, RecvEnter, HandleS, HandleSAppend, RecvEnd, Rest,
                  RestEnd, Stick, Oversleep, Client, ClientCalls,
                  ClientReturns, ClientGoes, Readiness
    <3>3. ~(\/ Create \/ AddSibling \/ AddAppend \/ Start \/ Spawn \/ Destroy
            \/ Stop \/ StopReturns \/ Join \/ Delete \/ Sleep)
      BY <2>2 DEF Sending, Create, AddSibling, AddAppend, Start, Spawn, Destroy,
                  Stop, StopReturns, Join, Delete, Sleep, Doing
    <3>4. CASE UNCHANGED place
      BY <2>2, <3>4 DEF Sending, Doing, Ended, place
    <3>5. UNCHANGED vars => UNCHANGED place
      BY DEF vars
    <3> QED
      BY <3>1, <3>2, <3>3, <3>4, <3>5 DEF Next, Main
  <2> QED
    BY <1>1, <2>1, <2>2 DEF IntroInv, Answered
<1>2. CASE m \notin told[n] /\ AddAppend /\ n = Script[at].node
  <2>1. m = adding[n]["main"].peer
    BY <1>2, Extensions DEF AddAppend, Then, HandleSAppend, place
  <2>2. m = Script[at].peer
    BY <1>2, <2>1 DEF AddAppend, IntroInv, Searched
  <2>3. Doing("add") /\ at' = at /\ step' = "send"
    BY <1>2 DEF AddAppend, Then
  <2> QED
    BY <1>2, <2>2, <2>3 DEF Sending, Doing, Ended
<1>3. CASE m \notin told[n] /\ HandleSAppend(n)
  <2>1. recv[n] = "append"
    BY <1>3 DEF HandleSAppend
  <2>2. CASE told'[n] = told[n] \cup {adding[n]["receive"].peer}
    <3>1. BeingAdded(n, m)
      BY <1>3, <2>1, <2>2 DEF BeingAdded
    <3>2. m < n
      BY <3>1 DEF IntroInv, Upwards
    <3> QED
      BY <3>2 DEF Node
  <2>3. CASE AddAppend
    <3>1. step' = "send" /\ step' = step /\ step = "append"
      BY <1>3, <2>3 DEF AddAppend, Then, HandleSAppend, place
    <3> QED
      BY <3>1
  <2> QED
    BY <1>3, <2>2, <2>3, Extensions
<1> QED
  BY <1>1, <1>2, <1>3, Extensions

LEMMA SearchedKept ==
  ASSUME TypeInv, IntroInv, [Next]_vars
  PROVE  Searched'
<1>0. /\ at \in 1 .. Len(Script) + 1 /\ Kinds /\ Sibs /\ Steps
      /\ recv = [n \in Node |-> recv[n]]
  BY TypeParts DEF TypeInv, TypeOK
<1>1. ASSUME step' = "append"
      PROVE  adding'[Script[at'].node]["main"].peer = Script[at'].peer
  <2>1. CASE AddSibling
    <3>1. /\ Script[at].node \in Node /\ Script[at].peer \in Peer
          /\ sibs' = sibs
      BY <1>0, <2>1, InOperation DEF AddSibling
    <3>2. /\ Script[at].peer # Script[at].node /\ at' = at
          /\ Search(Script[at].node, "main", Script[at].peer)
      BY <1>1, <2>1 DEF AddSibling, Done, Then
    <3> QED
      BY <3>1, <3>2, SearchTyped DEF Role
  <2>2. ~(\/ Create \/ AddAppend \/ AddSend \/ Start \/ Spawn \/ Destroy
          \/ Stop \/ StopReturns
          \/ Join \/ Delete \/ Sleep)
    BY <1>1 DEF Create, AddAppend, AddSend, Start, Spawn, Destroy, Stop,
                StopReturns, Join, Delete, Sleep, Done, Then
  <2>3. ASSUME UNCHANGED place,
               \A n \in Node : adding'[n]["main"] = adding[n]["main"]
        PROVE  adding'[Script[at'].node]["main"].peer = Script[at'].peer
    <3>1. step = "append" /\ Script[at].node \in Node
      BY <1>0, <1>1, <2>3, InOperation DEF place, Steps, Adding
    <3> QED
      BY <2>3, <3>1 DEF place, IntroInv, Searched
  <2>4. ASSUME NEW i \in Node, HandleS(i)
        PROVE  /\ UNCHANGED place
               /\ \A n \in Node : adding'[n]["main"] = adding[n]["main"]
    <3>1. PICK s \in net :
            /\ s[2] = i
            /\ UNCHANGED <<recv, adding>> \/ Search(i, "receive", s[1])
      BY <2>4 DEF HandleS
    <3>2. UNCHANGED <<place, sibs>> /\ s[1] \in Peer \ {i}
      BY <1>0, <2>4, <3>1 DEF HandleS, Kinds, Steps, Adding
    <3>3. \A n \in Node : adding'[n]["main"] = adding[n]["main"]
      BY <3>1, <3>2, SearchTyped DEF Role
    <3> QED
      BY <3>2, <3>3
  <2>5. ASSUME NEW i \in Node, HandleSAppend(i)
        PROVE  /\ UNCHANGED place
               /\ \A n \in Node : adding'[n]["main"] = adding[n]["main"]
    <3>1. Extend(i, "receive") /\ adding[i]["receive"].peer # 0 /\ UNCHANGED place
      BY <1>0, <2>5 DEF HandleSAppend, Steps, Adding
    <3> QED
      BY <3>1, ExtendTyped DEF Role
  <2>6. ASSUME NEW i \in Node,
               RecvEnter(i) \/ RecvEnd(i) \/ Rest(i) \/ Client(i) \/ Readiness(i)
        PROVE  UNCHANGED <<place, adding>>
    BY <2>6 DEF RecvEnter, RecvEnd, Rest, RestEnd, Stick, Oversleep, Client,
                ClientCalls, ClientReturns, ClientGoes, Readiness, registry
  <2>7. UNCHANGED vars => UNCHANGED <<place, adding>>
    BY DEF vars, registry
  <2> QED
    BY <2>1, <2>2, <2>3, <2>4, <2>5, <2>6, <2>7 DEF Next, Main, Receive
<1>2. ASSUME step' = "send"
      PROVE  Script[at'].peer \in told'[Script[at'].node]
  <2>1. CASE AddAppend
    <3>1. /\ Script[at].node \in Node /\ Extend(Script[at].node, "main")
          /\ adding[Script[at].node]["main"].peer = Script[at].peer /\ at' = at
      BY <1>0, <2>1, InOperation DEF AddAppend, Then, IntroInv, Searched
    <3>2. told = [n \in Node |-> told[n]]
      BY DEF TypeInv, Shapes
    <3> QED
      BY <3>1, <3>2 DEF Extend
  <2>2. ~(\/ Create \/ AddSibling \/ AddSend \/ Start \/ Spawn \/ Destroy
          \/ Stop \/ StopReturns
          \/ Join \/ Delete \/ Sleep)
    BY <1>2 DEF Create, AddSibling, AddSend, Start, Spawn, Destroy, Stop,
                StopReturns, Join, Delete, Sleep, Done, Then
  <2>3. ASSUME UNCHANGED place
        PROVE  Script[at'].peer \in told'[Script[at'].node]
    <3>1. step = "send" /\ Script[at].node \in Node
      BY <1>0, <1>2, <2>3, InOperation DEF place, Steps, Adding
    <3>2. told[Script[at].node] \subseteq told'[Script[at].node]
      BY <3>1, Extensions
    <3> QED
      BY <2>3, <3>1, <3>2 DEF place, IntroInv, Searched
  <2>4. ASSUME NEW i \in Node, Receive(i) \/ Rest(i) \/ Client(i) \/ Readiness(i)
        PROVE  UNCHANGED place
    BY <2>4 DEF Receive, RecvEnter, HandleS, HandleSAppend, RecvEnd, Rest,
                RestEnd, Stick, Oversleep, Client, ClientCalls, ClientReturns,
                ClientGoes, Readiness
  <2>5. UNCHANGED vars => UNCHANGED place
    BY DEF vars
  <2> QED
    BY <2>1, <2>2, <2>3, <2>4, <2>5 DEF Next, Main
<1>3. ASSUME NEW n \in Node, recv'[n] # "none"
      PROVE  n < at'
  <2>1. at' = at \/ at' = at + 1
    BY MainGoes
  <2>2. CASE recv[n] # "none"
    BY <1>0, <2>1, <2>2, ScriptOfOperations DEF IntroInv, Searched, Node
  <2>3. CASE recv[n] = "none"
    <3>1. ASSUME NEW i \in Node, Receive(i) \/ Rest(i) \/ Client(i) \/ Readiness(i)
          PROVE  recv'[n] = "none"
      BY <1>0, <2>3, <3>1 DEF Receive, RecvEnter, HandleS, HandleSAppend,
                              RecvEnd, Rest, RestEnd, Stick, Oversleep, Client,
                              ClientCalls, ClientReturns, ClientGoes, Readiness
    <3>2. ASSUME \/ AddSibling \/ AddAppend \/ AddSend \/ Start \/ Spawn
                 \/ Destroy \/ Stop \/ StopReturns \/ Join \/ Delete
                 \/ Sleep \/ UNCHANGED vars
          PROVE  recv' = recv
      BY <3>2 DEF AddSibling, AddAppend, AddSend, Start, Spawn, Destroy, Stop,
                  StopReturns, Join, Delete, Sleep, vars
    <3>3. Create
      BY <1>3, <2>3, <3>1, <3>2 DEF Next, Main
    <3>4. at \in 1 .. Len(Script) /\ Script[at].do = "create"
      BY <1>0, <3>3, InOperation DEF Create, Doing
    <3>5. Script[at].node = at
      BY <3>4, Layout
    <3>6. n = at /\ at' = at + 1
      BY <1>0, <1>3, <2>3, <3>3, <3>5 DEF Create, Done
    <3> QED
      BY <3>4, <3>6
  <2> QED
    BY <2>2, <2>3
<1> QED
  BY <1>1, <1>2, <1>3 DEF Searched

LEMMA AddedKept ==
  ASSUME TypeInv, RegisteredOnce, IntroInv, [Next]_vars
  PROVE  Added'
<1> SUFFICES ASSUME NEW k \in 1 .. at' - 1, Script[k].do = "add",
                    Script[k].node \in up', Script[k].peer # Script[k].node
             PROVE  \/ Script[k].node \in raced'
                    \/ /\ Script[k].peer \in told'[Script[k].node]
                       /\ Script[k].peer \in Node =>
                            Notified(Script[k].node, Script[k].peer)'
  BY DEF Added
<1> DEFINE n == Script[k].node
           m == Script[k].peer
<1>0. at \in 1 .. Len(Script) + 1 /\ Len(Script) \in Nat
  BY ScriptOfOperations DEF TypeInv, TypeOK
<1>1. k \in 1 .. at - 1 \/ (k = at /\ at \in 1 .. Len(Script) /\ at' = at + 1)
  <2>1. at' = at \/ (at \in 1 .. Len(Script) /\ at' = at + 1)
    BY MainGoes
  <2> QED
    BY <1>0, <2>1
<1>2. k \in 1 .. Len(Script) /\ n \in Node
  <2>1. k \in 1 .. Len(Script)
    BY <1>0, <1>1
  <2>2. Script[k] \in Operation
    BY <2>1, ScriptOfOperations
  <2> QED
    BY <2>1, <2>2 DEF Operation
<1>3. told[n] \subseteq told'[n] /\ raced \subseteq raced'
  BY <1>2, Extensions
<1>4. up' = up
  <2>1. ~Create
    <3> SUFFICES ASSUME Create PROVE FALSE
      OBVIOUS
    <3>1. at \in 1 .. Len(Script) /\ Script[at].do = "create"
      BY <1>0, InOperation DEF Create, Doing
    <3>2. at <= N /\ k < at
      BY <1>1, <3>1, Layout
    <3>3. N \in Nat /\ N <= Links /\ Links \in Nat
      BY Order DEF Links
    <3>4. k <= N
      BY <1>0, <3>2, <3>3
    <3>5. Script[k].do = "create"
      BY <1>2, <3>3, <3>4, Layout
    <3> QED
      BY <3>5
  <2>2. ASSUME NEW i \in Node, Receive(i) \/ Rest(i) \/ Client(i) \/ Readiness(i)
        PROVE  up' = up
    BY <2>2 DEF Receive, RecvEnter, HandleS, HandleSAppend, RecvEnd, Rest,
                RestEnd, Stick, Oversleep, Client, ClientCalls, ClientReturns,
                ClientGoes, Readiness, life
  <2>3. ASSUME \/ AddSibling \/ AddAppend \/ AddSend \/ Start \/ Spawn
               \/ Destroy \/ Stop \/ StopReturns \/ Join \/ Delete \/ Sleep
               \/ UNCHANGED vars
        PROVE  up' = up
    BY <2>3 DEF AddSibling, AddAppend, AddSend, Start, Spawn, Destroy, Stop,
                StopReturns, Join, Delete, Sleep, vars, life
  <2> QED
    BY <2>1, <2>2, <2>3 DEF Next, Main
<1>5. CASE k \in 1 .. at - 1
  <2>1. n \in raced \/ (m \in told[n] /\ (m \in Node => Notified(n, m)))
    BY <1>4, <1>5 DEF IntroInv, Added
  <2>2. m \in Node /\ Notified(n, m) => Notified(n, m)'
    BY <1>2, NotifiedStays DEF IntroInv
  <2> QED
    BY <1>3, <2>1, <2>2
<1>6. CASE k = at /\ at' = at + 1
  <2>1. AddSibling \/ AddSend
    <3>1. ASSUME NEW i \in Node, Receive(i) \/ Rest(i) \/ Client(i) \/ Readiness(i)
          PROVE  at' = at
      BY <3>1 DEF Receive, RecvEnter, HandleS, HandleSAppend, RecvEnd, Rest,
                  RestEnd, Stick, Oversleep, Client, ClientCalls,
                  ClientReturns, ClientGoes, Readiness, place
    <3>2. ~(Create \/ Spawn \/ Delete \/ Sleep)
      BY <1>6 DEF Create, Spawn, Delete, Sleep, Doing
    <3>3. ASSUME \/ AddAppend \/ Start \/ Destroy \/ Stop \/ StopReturns \/ Join
                 \/ UNCHANGED vars
          PROVE  at' = at
      BY <3>3 DEF AddAppend, Start, Destroy, Stop, StopReturns, Join, Then,
                  vars, place
    <3> QED
      BY <1>0, <1>6, <3>1, <3>2, <3>3 DEF Next, Main
  <2>2. CASE AddSibling
    <3>1. Known(n, m) /\ step = "call"
      BY <1>0, <1>4, <1>6, <2>2 DEF AddSibling, Then
    <3>2. m \in told[n] \/ n \in raced
      BY <1>2, <3>1 DEF RegisteredOnce, Known
    <3>3. ASSUME m \in told[n], m \in Node
          PROVE  Notified(n, m)'
      <4>1. n < m
        BY <1>2, <3>3, Layout DEF Node
      <4>2. Notified(n, m)
        BY <1>2, <3>1, <3>3, <4>1 DEF IntroInv, Answered, Sending
      <4> QED
        BY <1>2, <3>3, <4>2, NotifiedStays DEF IntroInv
    <3> QED
      BY <1>3, <3>2, <3>3
  <2>3. CASE AddSend
    <3>1. m \in told[n]
      BY <1>6, <2>3 DEF AddSend, IntroInv, Searched
    <3>2. m \in Node => <<n, m>> \in net' \cup lost'
      BY <1>6, <2>3, SendOf
    <3> QED
      BY <1>3, <3>1, <3>2 DEF Notified
  <2> QED
    BY <2>1, <2>2, <2>3
<1> QED
  BY <1>1, <1>5, <1>6

(* Whatever is lost, repeated or late, and for any number of nodes: after  *)
(* main has introduced one to another, each knows the other or is about    *)
(* to, or S was lost, unless two threads extended a vector at once.        *)
THEOREM IntroducedOrLost == Spec => []Introduced
<1>1. TypeInv /\ RegisteredOnce /\ IntroInv /\ [Next]_vars => IntroInv'
  <2> SUFFICES ASSUME TypeInv, RegisteredOnce, IntroInv, [Next]_vars
               PROVE  IntroInv'
    OBVIOUS
  <2> QED
    BY UpwardsKept, AnsweredKept, SearchedKept, AddedKept DEF IntroInv
<1>2. TypeInv /\ RegisteredOnce /\ IntroInv => Introduced
  BY IntroInvSuffices
<1> QED
  BY <1>1, <1>2, IntroInvInit, Typed, OnceOnly, PTL DEF Spec
=============================================================================
