---------------------------- MODULE TimeAuthority ----------------------------
(***************************************************************************)
(* The time authority (server.cpp) and the exchange of timestamps with it. *)
(* The main thread receives every request into one buffer, and starts a    *)
(* thread that is given the buffer's address, with the length and the      *)
(* sender's address by value.  The thread decrypts what the buffer holds   *)
(* by then.  A datagram decrypts only if it was read whole: while recvfrom *)
(* writes the buffer, or if it was written in between, decryption fails.   *)
(* Requests may be lost, repeated and reordered, and so may answers.  A    *)
(* node that steps its clock by the offset it measured may have requests   *)
(* and answers under way, and the server ends for good when it fails to    *)
(* receive.                                                                *)
(***************************************************************************)
EXTENDS Integers, Sequences

CONSTANTS
  Node,       \* the nodes that ask
  Skew,       \* Skew[n]: by how much the clock of n is ahead at first
  Drifts,     \* what a clock may gain or lose at once
  MaxTime,    \* bound: time
  MaxMoves,   \* bound: times that a clock is stepped or drifts
  MaxAsked,   \* MaxAsked[n]: bound on the requests of n
  MaxReceived \* bound: datagrams received

ASSUME SkewAssumption == Skew \in [Node -> Int]
ASSUME DriftAssumption == Drifts \subseteq Int
ASSUME BoundAssumption ==
  MaxTime \in Nat /\ MaxMoves \in Nat /\ MaxAsked \in [Node -> Nat]
  /\ MaxReceived \in Nat

VARIABLES
  now,       \* time, which the clock of the authority shows
  ahead,     \* ahead[n]: by how much the clock of n is ahead of `now`
  moves,     \* times that a clock has moved so far
  asked,     \* asked[n]: the calib_msg_count of n
  requests,  \* requests in flight
  received,  \* what recvfrom has returned; the last is what buff holds
  writing,   \* recvfrom is writing buff
  thread,    \* thread[i]: the thread started for the i-th datagram
  sendMutex, \* the thread that holds sendMutex; 0: none
  exited,    \* the server has ended: main failed to receive
  answers,   \* answers in flight
  offset     \* offset[n]: the clock_offset of n while it is to be used, and
             \* what it was measured from

authority == <<received, writing, thread, sendMutex>>
clocks == <<ahead, moves>>
vars ==
  <<now, clocks, asked, requests, authority, exited, answers, offset>>

(* A request shows the time at the clock of its sender, sent + ahead. *)
Request == [from : Node, count : Nat, sent : Nat, ahead : Int]

(* handleMsg, where it is; what it read, decrypted and stamped *)
Place == {"start", "decrypt", "recv", "fill", "lock", "send", "end"}
Thread == [pc : Place, read : Nat, got : Nat, rec : Nat, xmt : Nat]
Started == [pc |-> "start", read |-> 0, got |-> 0, rec |-> 0, xmt |-> 0]

(* own: the datagram that the answering thread was started for *)
Answer == [to : Node, msg : Request, rec : Nat, xmt : Nat, own : Nat]

(* at and ahead: when the answer was received, and by which clock *)
Measured ==
  [fresh : BOOLEAN, value : Int, msg : Request, at : Nat, ahead : Int]

Unmeasured(n) ==
  [fresh |-> FALSE, value |-> 0, at |-> 0, ahead |-> 0,
   msg |-> [from |-> n, count |-> 0, sent |-> 0, ahead |-> 0]]

TypeOK ==
  /\ ahead \in [Node -> Int] /\ moves \in Nat
  /\ now \in Nat /\ asked \in [Node -> Nat]
  /\ requests \subseteq Request /\ received \in Seq(Request)
  /\ writing \in BOOLEAN /\ exited \in BOOLEAN
  /\ thread \in Seq(Thread) /\ Len(thread) = Len(received)
  /\ sendMutex \in 0 .. Len(received)
  /\ \A i \in 1 .. Len(received) : sendMutex = i <=> thread[i].pc = "send"
  /\ answers \subseteq Answer
  /\ offset \in [Node -> Measured]

Init ==
  /\ now = 0 /\ asked = [n \in Node |-> 0]
  /\ requests = {} /\ answers = {}
  /\ received = << >> /\ writing = FALSE /\ thread = << >> /\ sendMutex = 0
  /\ ahead = Skew /\ moves = 0 /\ exited = FALSE
  /\ offset = [n \in Node |-> Unmeasured(n)]

Tick ==
  /\ now < MaxTime /\ now' = now + 1
  /\ UNCHANGED <<clocks, asked, requests, authority, exited, answers, offset>>

-----------------------------------------------------------------------------
(* The node's side. *)

(* The clock of n: what get_timestamp makes of ts_ref. *)
Clock(n) == now + ahead[n]

(* It gains or loses as tsc_freq is wrong and as calls overlap. *)
Drift(n, d) ==
  /\ moves < MaxMoves /\ moves' = moves + 1
  /\ ahead' = [ahead EXCEPT ![n] = @ + d]
  /\ UNCHANGED <<now, asked, requests, authority, exited, answers, offset>>

Ask(n) ==
  /\ asked[n] < MaxAsked[n]
  /\ requests' = requests \cup
       {[from |-> n, count |-> asked[n], sent |-> now, ahead |-> ahead[n]]}
  /\ asked' = [asked EXCEPT ![n] = @ + 1]
  /\ UNCHANGED <<now, clocks, authority, exited, answers, offset>>

(* Mutant: the two ways are added up. *)
OffsetOfDelays(org, rec, xmt, recv) == rec - org + recv - xmt

(* clock_offset, without the division by two *)
TwiceOffset(org, rec, xmt, recv) == rec - org + xmt - recv

(* The division of a timespec rounds either way. *)
Halves(x) == {x \div 2, (x + 1) \div 2}

HandleD(ans) ==
  LET n == ans.to IN
  /\ ~offset[n].fresh
  /\ \E value \in Halves(TwiceOffset(ans.msg.sent + ans.msg.ahead, ans.rec,
                                     ans.xmt, Clock(n))) :
       offset' = [offset EXCEPT ![n] =
         [fresh |-> TRUE, value |-> value, msg |-> ans.msg, at |-> now,
          ahead |-> ahead[n]]]
  /\ answers' \in {answers, answers \ {ans}}
  /\ UNCHANGED <<now, clocks, asked, requests, authority, exited>>

(* The handler goes on to select_clock, which steps the clock or not; no   *)
(* offset is used again.                                                   *)
SelectClock(n) ==
  /\ offset[n].fresh
  /\ offset' = [offset EXCEPT ![n] = Unmeasured(n)]
  /\ UNCHANGED <<now, asked, requests, authority, exited, answers>>

StepClock(n) ==
  /\ SelectClock(n)
  /\ moves < MaxMoves /\ moves' = moves + 1
  /\ ahead' = [ahead EXCEPT ![n] = @ + offset[n].value]

LeaveClock(n) == SelectClock(n) /\ UNCHANGED clocks

-----------------------------------------------------------------------------
(* The authority's main thread. *)

nodes == <<now, clocks, asked, requests, offset>>

Receive(req) ==
  /\ ~exited /\ ~writing /\ Len(received) < MaxReceived
  /\ writing' = TRUE
  /\ UNCHANGED <<nodes, received, thread, sendMutex, answers, exited>>

(* recvfrom returns, and a thread is started. *)
Start(req) ==
  /\ ~exited /\ writing /\ writing' = FALSE
  /\ received' = Append(received, req)
  /\ thread' = Append(thread, Started)
  /\ requests' \in {requests, requests \ {req}}
  /\ UNCHANGED <<now, clocks, asked, sendMutex, answers, exited, offset>>

(* recvfrom fails: the process exits, whatever its threads are at. *)
Exit ==
  /\ ~exited /\ exited' = TRUE
  /\ writing' = FALSE /\ sendMutex' = 0
  /\ thread' = [i \in 1 .. Len(received) |-> [Started EXCEPT !.pc = "end"]]
  /\ UNCHANGED <<nodes, received, answers>>

-----------------------------------------------------------------------------
(* handleMsg, in the thread of the i-th datagram *)

Buff == IF writing THEN 0 ELSE Len(received)  \* 0: no whole datagram

Advance(i, from, to, t) ==
  /\ ~exited
  /\ thread[i].pc = from
  /\ thread' = [thread EXCEPT ![i] = [t EXCEPT !.pc = to]]

(* Decryption begins, after the delay of the network that is simulated. *)
ReadBuff(i) ==
  /\ Advance(i, "start", "decrypt", [thread[i] EXCEPT !.read = Buff])
  /\ UNCHANGED <<nodes, received, writing, sendMutex, answers, exited>>

Whole(i) == thread[i].read = Buff /\ Buff # 0

Decrypt(i) ==
  /\ IF Whole(i)
       THEN Advance(i, "decrypt", "recv",
                    [thread[i] EXCEPT !.got = Len(received), !.read = 0])
       ELSE Advance(i, "decrypt", "end", Started)
  /\ UNCHANGED <<nodes, received, writing, sendMutex, answers, exited>>

(* rec_ts, after the sleep that a negative sleep_time asks for *)
StampRec(i) ==
  /\ Advance(i, "recv", "fill", [thread[i] EXCEPT !.rec = now])
  /\ UNCHANGED <<nodes, received, writing, sendMutex, answers, exited>>

(* xmt_ts, then encryption and the sleep that a positive one asks for *)
StampXmt(i) ==
  /\ Advance(i, "fill", "lock", [thread[i] EXCEPT !.xmt = now])
  /\ UNCHANGED <<nodes, received, writing, sendMutex, answers, exited>>

(* Mutant: the mutex is not tried. *)
LockAnyhow(i) ==
  /\ sendMutex' = i
  /\ Advance(i, "lock", "send", thread[i])
  /\ UNCHANGED <<nodes, received, writing, answers, exited>>

Lock(i) ==
  /\ sendMutex = 0 /\ sendMutex' = i
  /\ Advance(i, "lock", "send", thread[i])
  /\ UNCHANGED <<nodes, received, writing, answers, exited>>

(* Mutant: the sender of the request received last. *)
LastSender(i) == received[Len(received)].from

(* cliAddr, copied when the thread was started *)
Sender(i) == received[i].from

AnswerOf(i) ==
  [to |-> Sender(i), msg |-> received[thread[i].got],
   rec |-> thread[i].rec, xmt |-> thread[i].xmt, own |-> i]

(* Mutant: a failure to send returns with the mutex held. *)
SendOrReturn(i) ==
  /\ Advance(i, "send", "end", Started)
  /\ \/ answers' = answers \cup {AnswerOf(i)} /\ sendMutex' = 0
     \/ UNCHANGED <<answers, sendMutex>>
  /\ UNCHANGED <<nodes, received, writing, exited>>

(* sendto may fail, or its datagram be lost; the mutex is unlocked. *)
Send(i) ==
  /\ Advance(i, "send", "end", Started)
  /\ answers' \in {answers, answers \cup {AnswerOf(i)}}
  /\ sendMutex' = 0
  /\ UNCHANGED <<nodes, received, writing, exited>>

HandleMsg(i) ==
  \/ ReadBuff(i) \/ Decrypt(i) \/ StampRec(i) \/ StampXmt(i) \/ Lock(i)
  \/ Send(i)

-----------------------------------------------------------------------------
Next ==
  \/ Tick
  \/ \E n \in Node : Ask(n) \/ StepClock(n) \/ LeaveClock(n)
  \/ \E n \in Node, d \in Drifts : Drift(n, d)
  \/ \E ans \in answers : HandleD(ans)
  \/ \E req \in requests : Receive(req) \/ Start(req)
  \/ Exit
  \/ \E i \in 1 .. Len(received) : HandleMsg(i)

Spec == Init /\ [][Next]_vars

(* The threads of the authority are scheduled; a mutex is handed on. *)
Fairness ==
  \A i \in 1 .. MaxReceived :
    /\ WF_vars(i <= Len(received) /\ HandleMsg(i))
    /\ SF_vars(i <= Len(received) /\ Lock(i))

FairSpec == Spec /\ Fairness
-----------------------------------------------------------------------------
(* An answer goes to the sender of the request that its thread was started *)
(* for, and what it answers is that request or one received after it       *)
(* (line 157 shares buff): never an older one, and never an address of     *)
(* another thread.                                                         *)
AnswersItsSender ==
  \A ans \in answers :
    /\ ans.to = received[ans.own].from
    /\ \E k \in ans.own .. Len(received) : ans.msg = received[k]

(* An offset that is about to be used is the mean of what the sender's     *)
(* clock was behind when it asked and what the node's own was behind when  *)
(* the answer came, up to half the time between them: however long the     *)
(* authority slept, delayed or swapped answers (lines 42 to 72), and       *)
(* whatever steps (ENode.cpp 1221) and drifts lie in between.  The sender  *)
(* may be another node, whose request took this one's place in buff.       *)
OffsetWithinDelay ==
  \A n \in Node :
    LET o == offset[n]
        error == 2 * o.value + o.msg.ahead + o.ahead
        delay == o.at - o.msg.sent
    IN  o.fresh => -delay - 1 <= error /\ error <= delay + 1

(* Every request received is dealt with, though other threads fail to      *)
(* decrypt or to send (lines 91 to 95), unless the server has exited       *)
(* (line 155).                                                             *)
AllEnd ==
  \A i \in 1 .. MaxReceived :
    (i <= Len(received))
      ~> (exited \/ (i <= Len(received) /\ thread[i].pc = "end"))
=============================================================================
