---------------------------- MODULE NodeManager ----------------------------
(***************************************************************************)
(* The program (main.cpp): it creates its nodes, makes them known to each  *)
(* other, starts a client on each, sleeps, and destroys them; the manager  *)
(* of the nodes and their threads (Node.cpp); the entry points of the      *)
(* enclaves (ecalls.cpp); and the vector siblings (ENode.cpp), which the   *)
(* program's thread and a node's receive thread search and extend without  *)
(* a lock.                                                                 *)
(*                                                                         *)
(* Each node has an enclave of its own.  Of the four threads of a node the *)
(* receive thread is followed for itself, the monitor, the refresh and the *)
(* trigger thread together (the rest).  What may keep a thread or          *)
(* stop_tasks from ending is in Shutdown and Socket, and only happens here *)
(* (stuck, asleep); when a timestamp is served is in Timestamps.           *)
(***************************************************************************)
EXTENDS Integers, Sequences, FiniteSets, Functions

CONSTANTS
  N,      \* n_nodes
  Given,  \* the addresses at the end of the command line
  MaxHangs \* bound: how many of the nodes may hang

Node == 1 .. N
Peer == Node \cup Range(Given)

ASSUME NodesAssumption == N \in 1 .. 4
ASSUME GivenAssumption == Given \in Seq(Nat \ {0})

VARIABLES
  bench,    \* the program measures throughput or latency
  at,       \* main's place in the script, and in its operation
  step,
  nodes,    \* Node::nodes: those that exist
  up,       \* the enclaves that could be created
  enodes,   \* those whose ENode exists
  stopNode, \* those with Node::stop
  stop,     \* those with ENode::stop
  recv,     \* recv[n]: where n's receive thread is
  rest,     \* those whose other threads have not all ended
  stuck,    \* those with a lock that is never released
  asleep,   \* those whose refresh thread waits for ever
  client,   \* client[n]: where n's client thread is
  sibs,     \* sibs[n]: the vector siblings of n
  adding,   \* adding[n][t]: whom thread t of n has not found, and the length
  net,      \* <<from, to>>: messages S under way
  ready,    \* those that serve timestamps at the moment
  told,     \* history: told[n]: whom n's siblings have been extended with
  raced,    \* history: those whose two threads have overlapped in doing so
  lost      \* history: messages S that were lost

place == <<at, step>>
life == <<bench, nodes, up, enodes, stopNode, stop>>
registry == <<sibs, adding, told, raced>>
others == <<rest, stuck, asleep>>
vars == <<place, life, recv, others, client, registry, net, ready, lost>>

(* The ifs of main: who is told of whom.  Node 1 is that of port. *)
If(test, n, m) == IF test THEN <<<<n, m>>>> ELSE <<>>

Pairs == If(N > 1, 1, 2) \o If(N > 2, 1, 3) \o If(N > 3, 1, 4)
         \o If(N > 2, 2, 3) \o If(N > 3, 2, 4) \o If(N > 3, 3, 4)

Each(what) == [n \in Node |-> [do |-> what, node |-> n]]

Script ==
  Each("create")
  \o [i \in DOMAIN Pairs |->
        [do |-> "add", node |-> Pairs[i][1], peer |-> Pairs[i][2]]]
  \o [i \in DOMAIN Given |-> [do |-> "add", node |-> 1, peer |-> Given[i]]]
  \o Each("start") \o <<[do |-> "sleep"]>> \o Each("destroy")

Ended == at > Len(Script)
Doing(what) == ~Ended /\ Script[at].do = what
Nothing == [peer |-> 0, len |-> 0]

TypeOK ==
  /\ bench \in BOOLEAN /\ at \in 1 .. Len(Script) + 1
  /\ step \in {"call", "append", "send", "spawn", "stop", "return",
              "join", "delete"}
  /\ nodes \subseteq Node /\ up \subseteq Node /\ enodes \subseteq nodes \cap up
  /\ stopNode \subseteq Node /\ stop \subseteq stopNode /\ ready \subseteq Node
  /\ recv \in [Node -> {"none", "out", "in", "append", "done"}]
  /\ rest \subseteq Node /\ stuck \subseteq Node /\ asleep \subseteq rest
  /\ client \in [Node -> {"none", "out", "in", "done"}]
  /\ \A n \in Node : /\ sibs[n] \in Seq(Peer \ {n})
                     /\ \A t \in {"main", "receive"} :
                          adding[n][t].peer \in (Peer \cup {0}) \ {n}
  /\ net \cup lost \subseteq (Peer \X Node)

(* The nodes at the given addresses know of the first node likewise. *)
Init ==
  /\ bench \in BOOLEAN /\ at = 1 /\ step = "call"
  /\ nodes = {} /\ up = {} /\ enodes = {} /\ stopNode = {} /\ stop = {}
  /\ recv = [n \in Node |-> "none"] /\ client = recv
  /\ rest = {} /\ stuck = {} /\ asleep = {}
  /\ sibs = [n \in Node |-> <<>>]
  /\ adding = [n \in Node |-> [t \in {"main", "receive"} |-> Nothing]]
  /\ net \in SUBSET ((Range(Given) \ Node) \X {1})
  /\ ready = {}
  /\ told = [n \in Node |-> {}] /\ raced = {} /\ lost = {}

(* The script goes on to the next operation, or to a step of this one. *)
Done == at' = at + 1 /\ step' = "call"
Then(next) == at' = at /\ step' = next

-----------------------------------------------------------------------------
(* get_instance, the constructor and ecall_init: the enclave may fail *)

Create ==
  /\ Doing("create")
  /\ LET n == Script[at].node IN
       /\ nodes' = nodes \cup {n}
       /\ \/ /\ up' = up \cup {n} /\ enodes' = enodes \cup {n}
             /\ rest' = rest \cup {n}
          \/ UNCHANGED <<up, enodes, rest>>
       /\ recv' = [recv EXCEPT ![n] = "out"]
  /\ Done
  /\ UNCHANGED <<bench, stopNode, stop, stuck, asleep, client, registry, net,
                 ready, lost>>

-----------------------------------------------------------------------------
(* The registry: a search, then an extension of the vector as its thread   *)
(* finds it then, or found its end before the other thread extended it.    *)

Search(n, t, p) ==
  adding' = [adding EXCEPT ![n][t] = [peer |-> p, len |-> Len(sibs[n])]]

Extend(n, t) ==
  LET new == adding[n][t] IN
  /\ \E len \in {new.len, Len(sibs[n])} \cap (0 .. Len(sibs[n])) :
       sibs' = [sibs EXCEPT ![n] = Append(SubSeq(@, 1, len), new.peer)]
  /\ adding' = [adding EXCEPT ![n][t] = Nothing]
  /\ told' = [told EXCEPT ![n] = @ \cup {new.peer}]
  /\ raced' = IF Len(sibs[n]) # new.len THEN raced \cup {n} ELSE raced

Known(n, p) == p \in Range(sibs[n])

(* Mutant: the node's own address is not recognised. *)
AddSiblingOrSelf ==
  /\ Doing("add") /\ step = "call"
  /\ LET n == Script[at].node  p == Script[at].peer IN
       IF n \notin up \/ Known(n, p)
         THEN Done /\ UNCHANGED adding
         ELSE Then("append") /\ Search(n, "main", p)
  /\ UNCHANGED <<life, recv, others, client, sibs, told, raced, net, ready,
                 lost>>

AddSibling ==
  /\ Doing("add") /\ step = "call"
  /\ LET n == Script[at].node  p == Script[at].peer IN
       IF n \notin up \/ p = n \/ Known(n, p)
         THEN Done /\ UNCHANGED adding
         ELSE Then("append") /\ Search(n, "main", p)
  /\ UNCHANGED <<life, recv, others, client, sibs, told, raced, net, ready,
                 lost>>

AddAppend ==
  /\ Doing("add") /\ step = "append"
  /\ Extend(Script[at].node, "main") /\ Then("send")
  /\ UNCHANGED <<life, recv, others, client, net, ready, lost>>

(* Mutant: the sibling is not told. *)
AddSilently ==
  /\ Doing("add") /\ step = "send"
  /\ Done
  /\ UNCHANGED <<life, recv, others, client, registry, net, ready, lost>>

(* S to a node of the program; others are not followed. *)
AddSend ==
  /\ Doing("add") /\ step = "send"
  /\ LET s == <<Script[at].node, Script[at].peer>> IN
       IF s[2] \in Node
         THEN \/ net' = net \cup {s} /\ UNCHANGED lost
              \/ lost' = lost \cup {s} /\ UNCHANGED net
         ELSE UNCHANGED <<net, lost>>
  /\ Done
  /\ UNCHANGED <<life, recv, others, client, registry, ready>>

-----------------------------------------------------------------------------
(* The receive thread, in ecall_loop_recvfrom *)

RecvEnter(n) ==
  /\ recv[n] = "out"
  /\ recv' = [recv EXCEPT ![n] = IF n \in enodes THEN "in" ELSE "done"]
  /\ UNCHANGED <<place, life, others, client, registry, net, ready, lost>>

(* Mutant: S is taken for a new sibling without a search. *)
HandleSAnyhow(n) ==
  /\ recv[n] = "in" /\ n \notin stop
  /\ \E s \in net :
       /\ s[2] = n /\ net' = net \ {s}
       /\ recv' = [recv EXCEPT ![n] = "append"] /\ Search(n, "receive", s[1])
  /\ UNCHANGED <<place, life, others, client, sibs, told, raced, ready, lost>>

HandleS(n) ==
  /\ recv[n] = "in" /\ n \notin stop
  /\ \E s \in net :
       /\ s[2] = n /\ net' = net \ {s}
       /\ IF Known(n, s[1])
            THEN UNCHANGED <<recv, adding>>
            ELSE /\ recv' = [recv EXCEPT ![n] = "append"]
                 /\ Search(n, "receive", s[1])
  /\ UNCHANGED <<place, life, others, client, sibs, told, raced, ready, lost>>

HandleSAppend(n) ==
  /\ recv[n] = "append"
  /\ Extend(n, "receive") /\ recv' = [recv EXCEPT ![n] = "in"]
  /\ UNCHANGED <<place, life, others, client, net, ready, lost>>

(* The loop ends when the node stops, and before that when the socket is   *)
(* gone or the line fails.                                                 *)
RecvEnd(n) ==
  /\ recv[n] = "in"
  /\ recv' = [recv EXCEPT ![n] = "done"]
  /\ UNCHANGED <<place, life, others, client, registry, net, ready, lost>>

Receive(n) == RecvEnter(n) \/ HandleS(n) \/ HandleSAppend(n) \/ RecvEnd(n)

-----------------------------------------------------------------------------
(* The monitor, refresh and trigger threads, until the last of them ends;  *)
(* without an enclave their calls fail and they end at once.               *)

RestEnd(n) ==
  /\ n \in (rest \cap stop) \ asleep
  /\ rest' = rest \ {n}
  /\ UNCHANGED <<place, life, recv, stuck, asleep, client, registry, net, ready,
                 lost>>

Hangs == stuck \cup asleep

MayHang(n) == n \notin Hangs /\ Cardinality(Hangs) < MaxHangs

(* The AEX handler locks tainted_mutex on top of its own thread's lock, or *)
(* setup_socket returns with socket_rwlock locked.                         *)
Stick(n) ==
  /\ n \in rest \/ recv[n] \in {"in", "append"}
  /\ MayHang(n) /\ stuck' = stuck \cup {n}
  /\ UNCHANGED <<place, life, recv, rest, asleep, client, registry, net, ready,
                 lost>>

(* refresh has read stop as false and waits after stop_tasks has signalled.*)
Oversleep(n) ==
  /\ n \in rest \cap stop /\ MayHang(n)
  /\ asleep' = asleep \cup {n}
  /\ UNCHANGED <<place, life, recv, rest, stuck, client, registry, net, ready,
                 lost>>

Rest(n) == RestEnd(n) \/ Stick(n) \/ Oversleep(n)

-----------------------------------------------------------------------------
(* Clients.  To measure, the program first waits for a timestamp itself    *)
(* (bench_timestamp); its client calls until Node::stop.  Otherwise the    *)
(* client stays in ecall_poll_timestamp until ENode::stop.                 *)

Serves(n) == n \notin up \/ n \in ready \/ n \in stop

Start ==
  /\ Doing("start") /\ step = "call"
  /\ bench => Serves(Script[at].node)
  /\ Then("spawn")
  /\ UNCHANGED <<life, recv, others, client, registry, net, ready, lost>>

Spawn ==
  /\ Doing("start") /\ step = "spawn"
  /\ client' = [client EXCEPT ![Script[at].node] = "out"] /\ Done
  /\ UNCHANGED <<life, recv, others, registry, net, ready, lost>>

ClientGoes(n, from, to) ==
  /\ client[n] = from
  /\ client' = [client EXCEPT ![n] = to]
  /\ UNCHANGED <<place, life, recv, others, registry, net, ready, lost>>

ClientCalls(n) == ClientGoes(n, "out", "in") /\ n \in enodes
                    /\ (bench => n \notin stopNode)

(* Mutant: the client of a measurement calls until it is served no more. *)
ClientGoesOn(n) ==
  \/ ClientGoes(n, "in", IF bench THEN "out" ELSE "done")
       /\ (IF bench THEN Serves(n) ELSE n \in stop)
  \/ ClientGoes(n, "out", "done") /\ ~bench /\ n \notin enodes

ClientReturns(n) ==
  \/ ClientGoes(n, "in", IF bench THEN "out" ELSE "done")
       /\ (IF bench THEN Serves(n) ELSE n \in stop)
  \/ ClientGoes(n, "out", "done")
       /\ (IF bench THEN n \in stopNode ELSE n \notin enodes)

Client(n) == ClientCalls(n) \/ ClientReturns(n)

(* What the node's clock, its taint and the time authority lead to; only a *)
(* measurement looks at it.                                                *)
Readiness(n) ==
  /\ bench /\ n \in enodes
  /\ ready' = IF n \in ready THEN ready \ {n} ELSE ready \cup {n}
  /\ UNCHANGED <<place, life, recv, others, client, registry, net, lost>>

-----------------------------------------------------------------------------
(* sleep, then destroy_instance and the destructor *)

Sleep ==
  /\ Doing("sleep") /\ Done
  /\ UNCHANGED <<life, recv, others, client, registry, net, ready, lost>>

Destroy ==
  /\ Doing("destroy") /\ step = "call"
  /\ stopNode' = stopNode \cup {Script[at].node} /\ Then("stop")
  /\ UNCHANGED <<bench, nodes, up, enodes, stop, recv, others, client,
                 registry, net, ready, lost>>

(* ecall_stop: fails without an enclave.  Otherwise stop_tasks waits for   *)
(* the threads and for two locks; that it does not wait for ever is an     *)
(* assumption of Fairness.                                                 *)
Stop ==
  /\ Doing("destroy") /\ step = "stop"
  /\ stop' = stop \cup ({Script[at].node} \cap enodes) /\ Then("return")
  /\ UNCHANGED <<bench, nodes, up, enodes, stopNode, recv, others, client,
                 registry, net, ready, lost>>

StopReturns ==
  /\ Doing("destroy") /\ step = "return" /\ Then("join")
  /\ UNCHANGED <<life, recv, others, client, registry, net, ready, lost>>

(* Mutant: the threads that the constructor started are joined. *)
JoinOwn(n) == recv[n] = "done" /\ n \notin rest

Joined(n) == recv[n] = "done" /\ n \notin rest /\ client[n] = "done"

Join ==
  /\ Doing("destroy") /\ step = "join"
  /\ Joined(Script[at].node) /\ Then("delete")
  /\ UNCHANGED <<life, recv, others, client, registry, net, ready, lost>>

(* ecall_destroy, sgx_destroy_enclave and nodes.erase *)
Delete ==
  /\ Doing("destroy") /\ step = "delete"
  /\ enodes' = enodes \ {Script[at].node} /\ nodes' = nodes \ {Script[at].node}
  /\ ready' = ready \ {Script[at].node} /\ Done
  /\ UNCHANGED <<bench, up, stopNode, stop, recv, others, client, registry, net,
                 lost>>

Main ==
  \/ Create \/ AddSibling \/ AddAppend \/ AddSend \/ Start \/ Spawn
  \/ Destroy \/ Stop \/ StopReturns \/ Join \/ Delete

Next ==
  \/ Main \/ Sleep
  \/ \E n \in Node : \/ Receive(n) \/ Rest(n)
                      \/ Client(n) \/ Readiness(n)

Spec == Init /\ [][Next]_vars

(* Every thread is scheduled; those that a lock of a stuck node may keep   *)
(* waiting, main among them, are not known to get any further.  Who spins  *)
(* in get_timestamp sees that the node serves when it does so again and    *)
(* again; nobody knows how long the program sleeps.                        *)
Fairness ==
  /\ SF_vars(stuck = {} /\ Main)
  /\ \A n \in Node :
       /\ WF_vars(/\ n \notin stuck /\ Receive(n)
                  /\ recv'[n] = "done" => n \in stop \/ n \notin enodes)
       /\ WF_vars(n \notin stuck /\ RestEnd(n))
       /\ SF_vars(Client(n))

FairSpec == Spec /\ Fairness
-----------------------------------------------------------------------------
(* The vector siblings has each peer once and loses none, unless the two   *)
(* threads that register (560 to 565, 1257 to 1262) have overlapped: only  *)
(* then are there more entries than siblings that can answer.              *)
RegisteredOnce ==
  \A n \in Node \ raced :
    /\ \A i, j \in DOMAIN sibs[n] : sibs[n][i] = sibs[n][j] => i = j
    /\ Range(sibs[n]) = told[n]

(* No thread of a node, clients included, is in an entry point of an ENode *)
(* that has been deleted (Node.cpp 275 to 300).                            *)
NodeOutlivesCalls ==
  \A n \in Node :
    recv[n] \in {"in", "append"} \/ n \in rest \/ client[n] = "in"
      => n \in enodes

(* Nodes become known to each other, though only one of a pair is told of  *)
(* the other: unless S is lost, for it is sent once, or nobody receives it *)
(* any more.                                                               *)
Linked ==
  \A p \in Range(Pairs) :
    (Doing("sleep") /\ p \in up \X up) ~>
       \/ Doing("destroy") \/ p \in lost \/ raced # {}
       \/ recv[p[2]] = "done" \/ p[2] \in stuck
       \/ Known(p[1], p[2]) /\ Known(p[2], p[1])

(* The program gets to its sleep, and from there to its end, if its nodes  *)
(* serve again and again: the first timestamps are waited for before any   *)
(* node can be stopped (Node.cpp 462), clients end with their nodes.  The  *)
(* one exception is a node that hangs: with a lock that is not released,   *)
(* or with refresh asleep, for which its destruction waits (275 to 288).   *)
ProgramEnds ==
  (\A n \in Node : []<>(bench => n \in ready \/ n \notin enodes)) =>
     []<>(Doing("sleep") \/ Ended \/ Hangs # {})
=============================================================================
