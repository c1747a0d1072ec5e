------------------------------- MODULE Socket -------------------------------
(***************************************************************************)
(* The socket of a node and socket_rwlock (ENode.cpp): the receive thread, *)
(* threads that send, and the program's thread, which creates the node,    *)
(* adds siblings and stops it.  Sends and receives read sock under the     *)
(* lock; an error closes the socket and sets up another.  Some of the      *)
(* accesses are outside the lock, some returns leave it locked, and a      *)
(* repeated send does not lock again: each is a step of its own.           *)
(*                                                                         *)
(* The lock is the SDK's: to unlock is to end one's own writing or else to *)
(* take one reader off, whoever it is.  Whether it detects that a thread   *)
(* asks for what it has locked itself is left open (detects).              *)
(***************************************************************************)
EXTENDS Integers, FiniteSets

CONSTANTS
  Sender,  \* threads that send, but for receive and main
  Trouble, \* the system may be out of sockets, or another have the port
  MaxFd    \* bound: descriptors

ASSUME SenderAssumption ==
  IsFiniteSet(Sender) /\ {"receive", "main"} \cap Sender = {}
ASSUME TroubleAssumption == Trouble \in BOOLEAN
ASSUME BoundAssumption == MaxFd \in Nat \ {0}

Thread == Sender \cup {"receive", "main"}
Nobody == "nobody"
ASSUME NobodyAssumption == Nobody \notin Thread

VARIABLES
  sock,     \* ENode::sock; 0 for -1
  open,     \* the descriptors of the node that are open
  bound,    \* the one that has the node's port; 0: none
  owner,    \* who has locked socket_rwlock for writing
  readers,  \* how many have locked it for reading, as it counts
  detects,  \* the lock returns EDEADLK instead of waiting for its caller
  stop,     \* ENode::stop
  pc,       \* where each thread is
  failed,   \* history: a return has left socket_rwlock locked
  unheld,   \* history: a thread has sent without the lock
  both      \* history: two threads have replaced the socket at once

lock == <<owner, readers, detects>>
fds == <<sock, open, bound>>
history == <<failed, unheld, both>>
vars == <<fds, lock, stop, pc, history>>

(* sendMessage, setup_socket, loop_recvfrom, add_sibling and stop_tasks, by *)
(* their next step                                                         *)
SendPlace == {"sendCheck", "sendto", "sent", "sendAgain", "sendFailed",
              "resend", "resent", "wrlock", "close", "closed"}
SetupPlace == {"setup", "socket", "bind", "unlock"}
RecvPlace == {"recv", "recvCheck", "recvfrom", "recvData", "recvNone",
              "recvFailed", "recvClose", "recvForget", "handle"}
MainPlace == {"new", "addSend", "addFailed", "addClose", "addClosed", "stop",
              "stopClose", "stopUnlock"}
Place == SendPlace \cup SetupPlace \cup RecvPlace \cup MainPlace
           \cup {"idle", "end"}

(* Where a thread holds the lock for reading, or for writing. *)
Reading == {"sendCheck", "sendto", "sent", "sendAgain", "sendFailed",
            "recvCheck", "recvfrom", "recvData", "recvNone", "recvFailed"}
Writing == {"close", "closed", "socket", "bind", "unlock", "addClose",
            "addClosed", "stopClose", "stopUnlock"}
(* Between the loss of a socket and the next one. *)
Replacing == {"wrlock", "close", "closed", "recvClose", "recvForget"}
               \cup SetupPlace

TypeOK ==
  /\ sock \in 0 .. MaxFd /\ open \subseteq 1 .. MaxFd
  /\ bound \in open \cup {0}
  /\ owner \in Thread \cup {Nobody}
  /\ readers \in 0 .. Cardinality(Thread)
  /\ detects \in BOOLEAN /\ stop \in BOOLEAN
  /\ pc \in [Thread -> Place]
  /\ failed \in BOOLEAN /\ unheld \in BOOLEAN /\ both \in BOOLEAN

(* The constructor sets up the socket before the other threads start. *)
Init ==
  /\ sock = 0 /\ open = {} /\ bound = 0
  /\ owner = Nobody /\ readers = 0 /\ detects \in BOOLEAN
  /\ stop = FALSE
  /\ pc = [t \in Thread |-> IF t = "main" THEN "setup" ELSE "new"]
  /\ failed = FALSE /\ unheld = FALSE /\ both = FALSE

-----------------------------------------------------------------------------
(* The lock: sgx_thread_rwlock_rdlock, _wrlock and _unlock *)

Own(t) == owner = t /\ detects /\ UNCHANGED lock

Rdlock(t) ==
  \/ owner = Nobody /\ readers' = readers + 1 /\ UNCHANGED <<owner, detects>>
  \/ Own(t)

Wrlock(t) ==
  \/ owner = Nobody /\ readers = 0 /\ owner' = t
     /\ UNCHANGED <<readers, detects>>
  \/ Own(t)

Unlock(t) ==
  /\ owner' = IF owner = t THEN Nobody ELSE owner
  /\ readers' = IF owner # t /\ readers > 0 THEN readers - 1 ELSE readers
  /\ UNCHANGED detects

(* A thread moves from one place to another. *)
Goto(t, from, to) ==
  /\ pc[t] = from
  /\ pc' = [pc EXCEPT ![t] = to]
  /\ both' = (both \/ (to \in Replacing /\
                       \E u \in Thread \ {t} : pc[u] \in Replacing))

Calls(t, from, to) == Goto(t, from, to) /\ UNCHANGED <<failed, unheld>>

(* close(sock): a descriptor that is not open is an error, ignored. *)
Close ==
  /\ open' = open \ {sock}
  /\ bound' = IF bound = sock THEN 0 ELSE bound

CloseSock == Close /\ sock' = 0

-----------------------------------------------------------------------------
(* sendMessage *)

SendRdlock(t) ==
  /\ Calls(t, IF t = "receive" THEN "handle" ELSE "idle", "sendCheck")
  /\ Rdlock(t) /\ UNCHANGED <<fds, stop>>

Back(t) == IF t = "receive" THEN "recv" ELSE "idle"

(* SOCKET_INEXISTENT is what handle_message returns in its turn, and what  *)
(* ends loop_recvfrom; the other threads ignore it.                        *)
NoSocket(t) == IF t = "receive" THEN "end" ELSE "idle"

(* Mutant: without a socket, sendMessage returns with the lock held. *)
SendCheckReturn(t) ==
  /\ \/ sock = 0 /\ Calls(t, "sendCheck", NoSocket(t)) /\ UNCHANGED lock
     \/ sock # 0 /\ Calls(t, "sendCheck", "sendto") /\ UNCHANGED lock
  /\ UNCHANGED <<fds, stop>>

SendCheck(t) ==
  /\ \/ sock = 0 /\ Calls(t, "sendCheck", NoSocket(t)) /\ Unlock(t)
     \/ sock # 0 /\ Calls(t, "sendCheck", "sendto") /\ UNCHANGED lock
  /\ UNCHANGED <<fds, stop>>

(* A closed socket is an error; on an open one all results are possible. *)
Sendto(t) ==
  /\ \/ sock \in open /\ Calls(t, "sendto", "sent")
     \/ sock \in open /\ Calls(t, "sendto", "sendAgain")
     \/ Calls(t, "sendto", "sendFailed")
  /\ UNCHANGED <<fds, lock, stop>>

SendUnlock(t) ==
  /\ \/ Calls(t, "sent", Back(t))
     \/ Calls(t, "sendAgain", "resend")
     \/ Calls(t, "sendFailed", "wrlock")
  /\ Unlock(t) /\ UNCHANGED <<fds, stop>>

(* The loop is repeated from sendto, after 10 us or at once. *)
Resend(t) ==
  /\ \/ stop /\ Calls(t, "resend", Back(t)) /\ UNCHANGED unheld
     \/ /\ \E place \in {"sent", "sendAgain", "sendFailed"} :
             /\ place # "sendFailed" => sock \in open
             /\ Goto(t, "resend", place)
        /\ unheld' = TRUE /\ UNCHANGED failed
  /\ UNCHANGED <<fds, lock, stop>>

(* Mutant: the socket is closed without the lock. *)
SendNoWrlock(t) ==
  /\ Calls(t, "wrlock", "close")
  /\ UNCHANGED <<lock, fds, stop>>

SendWrlock(t) ==
  /\ Calls(t, "wrlock", "close")
  /\ Wrlock(t) /\ UNCHANGED <<fds, stop>>

(* Mutant: the socket is given up without being closed. *)
SendForget(t) ==
  /\ Calls(t, "close", "closed") /\ sock' = 0
  /\ UNCHANGED <<open, bound, lock, stop>>

SendClose(t) ==
  /\ Calls(t, "close", "closed")
  /\ CloseSock /\ UNCHANGED <<lock, stop>>

SendClosed(t) ==
  /\ Calls(t, "closed", "setup")
  /\ Unlock(t) /\ UNCHANGED <<fds, stop>>

SendMessage(t) ==
  \/ SendRdlock(t) \/ SendCheck(t) \/ Sendto(t) \/ SendUnlock(t) \/ Resend(t)
  \/ SendWrlock(t) \/ SendClose(t) \/ SendClosed(t)

-----------------------------------------------------------------------------
(* setup_socket *)

SetupWrlock(t) ==
  /\ Calls(t, "setup", "socket")
  /\ Wrlock(t) /\ UNCHANGED <<fds, stop>>

(* A return that leaves the lock as it is. *)
Fails(t, from) ==
  /\ Goto(t, from, Back(t))
  /\ failed' = TRUE /\ UNCHANGED unheld

(* A free descriptor: one that was closed may come back. *)
SocketCall(t) ==
  /\ \/ /\ sock' \in (1 .. MaxFd) \ open
        /\ open' = open \cup {sock'}
        /\ Calls(t, "socket", "bind")
     \/ Trouble /\ sock' = 0 /\ UNCHANGED open /\ Fails(t, "socket")
  /\ UNCHANGED <<bound, lock, stop>>

(* The port may be taken, by an older socket of the node or another's. *)
Bind(t) ==
  /\ \/ /\ bound = 0 /\ sock \in open /\ bound' = sock
        /\ Calls(t, "bind", "unlock") /\ UNCHANGED open
     \/ (Trouble \/ bound # 0) /\ Close /\ Fails(t, "bind")
  /\ UNCHANGED <<sock, lock, stop>>

(* Mutant: setup_socket always returns with the lock held. *)
SetupReturn(t) ==
  /\ Calls(t, "unlock", Back(t))
  /\ UNCHANGED <<fds, lock, stop>>

SetupUnlock(t) ==
  /\ Calls(t, "unlock", Back(t))
  /\ Unlock(t) /\ UNCHANGED <<fds, stop>>

SetupSocket(t) ==
  SetupWrlock(t) \/ SocketCall(t) \/ Bind(t) \/ SetupUnlock(t)

-----------------------------------------------------------------------------
(* loop_recvfrom *)

(* The threads are started when the constructor has returned. *)
StartThread(t) ==
  /\ pc["main"] \notin SetupPlace
  /\ Calls(t, "new", Back(t)) /\ UNCHANGED <<fds, lock, stop>>

RecvRdlock ==
  /\ \/ stop /\ Calls("receive", "recv", "end") /\ UNCHANGED lock
     \/ ~stop /\ Calls("receive", "recv", "recvCheck") /\ Rdlock("receive")
  /\ UNCHANGED <<fds, stop>>

(* Mutant: without a socket, loop_recvfrom returns with the lock held. *)
RecvCheckReturn ==
  /\ \/ sock = 0 /\ Calls("receive", "recvCheck", "end")
     \/ sock # 0 /\ Calls("receive", "recvCheck", "recvfrom")
  /\ UNCHANGED <<fds, lock, stop>>

RecvCheck ==
  /\ \/ sock = 0 /\ Calls("receive", "recvCheck", "end") /\ Unlock("receive")
     \/ sock # 0 /\ Calls("receive", "recvCheck", "recvfrom") /\ UNCHANGED lock
  /\ UNCHANGED <<fds, stop>>

(* A datagram, nothing in 100 ms, or an error. *)
Recvfrom ==
  /\ \/ sock \in open /\ Calls("receive", "recvfrom", "recvData")
     \/ sock \in open /\ Calls("receive", "recvfrom", "recvNone")
     \/ Calls("receive", "recvfrom", "recvFailed")
  /\ UNCHANGED <<fds, lock, stop>>

RecvUnlock ==
  /\ \/ Calls("receive", "recvData", "handle")
     \/ Calls("receive", "recvNone", "recv")
     \/ Calls("receive", "recvFailed", "recvClose")
  /\ Unlock("receive") /\ UNCHANGED <<fds, stop>>

(* Outside of the lock. *)
RecvClose ==
  /\ Calls("receive", "recvClose", "recvForget")
  /\ Close /\ UNCHANGED <<sock, lock, stop>>

(* Mutant: the loop goes on without another socket. *)
RecvNoSetup ==
  /\ Calls("receive", "recvForget", "recv")
  /\ sock' = 0 /\ UNCHANGED <<open, bound, lock, stop>>

RecvForget ==
  /\ Calls("receive", "recvForget", "setup")
  /\ sock' = 0 /\ UNCHANGED <<open, bound, lock, stop>>

(* Messages that are not answered, or are refused, like those that do not  *)
(* decrypt and come as empty ones.                                         *)
Handled ==
  /\ Calls("receive", "handle", "recv") /\ UNCHANGED <<fds, lock, stop>>

LoopRecvfrom ==
  \/ RecvRdlock \/ RecvCheck \/ Recvfrom \/ RecvUnlock \/ RecvClose
  \/ RecvForget \/ Handled

-----------------------------------------------------------------------------
(* add_sibling and stop_tasks, on the program's thread *)

AddSend ==
  /\ \/ sock \in open /\ Calls("main", "idle", "idle")
     \/ Calls("main", "idle", "addFailed")
  /\ UNCHANGED <<fds, lock, stop>>

AddWrlock ==
  /\ Calls("main", "addFailed", "addClose")
  /\ Wrlock("main") /\ UNCHANGED <<fds, stop>>

AddClose ==
  /\ Calls("main", "addClose", "addClosed")
  /\ Close /\ UNCHANGED <<sock, lock, stop>>

AddUnlock ==
  /\ Calls("main", "addClosed", "idle")
  /\ Unlock("main") /\ UNCHANGED <<fds, stop>>

Stop ==
  /\ stop' = TRUE /\ Calls("main", "idle", "stop")
  /\ UNCHANGED <<fds, lock>>

StopWrlock ==
  /\ Calls("main", "stop", "stopClose")
  /\ Wrlock("main") /\ UNCHANGED <<fds, stop>>

StopClose ==
  /\ Calls("main", "stopClose", "stopUnlock")
  /\ CloseSock /\ UNCHANGED <<lock, stop>>

StopUnlock ==
  /\ Calls("main", "stopUnlock", "end")
  /\ Unlock("main") /\ UNCHANGED <<fds, stop>>

Main ==
  \/ AddSend \/ AddWrlock \/ AddClose \/ AddUnlock
  \/ Stop \/ StopWrlock \/ StopClose \/ StopUnlock

-----------------------------------------------------------------------------
Next ==
  \/ \E t \in Sender \cup {"receive"} : SendMessage(t) \/ StartThread(t)
  \/ \E t \in Thread : SetupSocket(t)
  \/ LoopRecvfrom \/ Main

Spec == Init /\ [][Next]_vars

(* Every thread is scheduled, and gets a lock that is free again and again. *)
Proceeds(t) ==
  \/ t # "main" /\ SendMessage(t) /\ pc[t] # "idle"
  \/ SetupSocket(t)
  \/ t = "receive" /\ LoopRecvfrom
  \/ t = "main" /\ Main /\ pc[t] # "idle"

Fairness == \A t \in Thread : SF_vars(Proceeds(t))

FairSpec == Spec /\ Fairness
-----------------------------------------------------------------------------
(* socket_rwlock is locked for writing only by a thread at work on the     *)
(* socket, unless setup_socket has returned on an error (430, 442).        *)
LeftLockedByFailureOnly ==
  \A t \in Thread : owner = t => pc[t] \in Writing \/ failed

(* The lock counts the threads that read, so that none is in sendto or     *)
(* recvfrom while another closes the socket under the lock, as long as no  *)
(* send was repeated (529) and no lock was left behind.                    *)
ReadersCounted ==
  ~unheld /\ ~failed =>
    /\ readers = Cardinality({t \in Thread : pc[t] \in Reading})
    /\ owner # Nobody => readers = 0

(* No descriptor is lost: an open one is the one that sock names, unless   *)
(* two threads have replaced the socket at once (475 to 477, 538 to 542).  *)
NoneLost == open \subseteq {sock} \/ both

(* The receive thread goes on until the node is stopped, unless it finds,  *)
(* when it receives (462) or answers (509), that a sender has closed the   *)
(* socket and has yet to set up the next one, or that a failure or two     *)
(* replacements at once have left none.                                    *)
ReceivesUntilStopped ==
  [][pc["receive"] # "end" /\ pc'["receive"] = "end" /\ ~stop =>
       failed \/ both \/ unheld \/ \E t \in Sender : pc[t] = "setup"]_vars

(* stop_tasks returns, unless a failure has left the lock behind.          *)
StopReturns == stop ~> (pc["main"] = "end" \/ failed)

(* "Socket recreated." (lines 478 and 543): setup_socket leaves an open    *)
(* socket with the port and the lock free, if the system has sockets and   *)
(* nobody else has the port.                                               *)
Recreated == ~Trouble => ~failed
=============================================================================
