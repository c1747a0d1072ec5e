------------------------ MODULE TimeAuthorityProofs ------------------------
(***************************************************************************)
(* What an answer of the authority is worth, for any nodes, clocks, delays *)
(* and numbers of requests; and the arithmetic on timespec in which a node *)
(* computes the offset.  For every operand each operator returns the       *)
(* normal form of the right value, and operator< orders values, whatever   *)
(* the form of its operands.  The loops of standardize are argued about as *)
(* loops, by an invariant: they do not change the value.  In the end the   *)
(* two meet: the integers of TimeAuthority stand for values of timespec.   *)
(***************************************************************************)
EXTENDS TimeAuthority, Timespec, SequenceTheorems, WellFoundedInduction,
        TLAPS

(* No request is from the future. *)
Asked ==
  /\ \A r \in requests : r.sent <= now
  /\ \A i \in 1 .. Len(received) : received[i].sent <= now

(* What a thread holds, by where it is. *)
Holds(i) ==
  LET t == thread[i] IN
  /\ t.pc \in {"recv", "fill", "lock", "send"} => t.got \in i .. Len(received)
  /\ t.pc \in {"fill", "lock", "send"} =>
       received[t.got].sent <= t.rec /\ t.rec <= now
  /\ t.pc \in {"lock", "send"} => t.rec <= t.xmt /\ t.xmt <= now

Threads == \A i \in 1 .. Len(received) : Holds(i)

(* The stamps of an answer lie between its request and now. *)
Stamped ==
  \A ans \in answers :
    ans.own \in 1 .. Len(received)
    /\ ans.msg.sent <= ans.rec /\ ans.rec <= ans.xmt /\ ans.xmt <= now

IInv ==
  TypeOK /\ Asked /\ Threads /\ Stamped /\ AnswersItsSender /\ OffsetWithinDelay

-----------------------------------------------------------------------------
(* A thread's step changes its own record, and that one only. *)
LEMMA ThreadSteps ==
  ASSUME TypeOK, NEW i \in 1 .. Len(received), NEW u \in Thread,
         thread' = [thread EXCEPT ![i] = u]
  PROVE  /\ thread' \in Seq(Thread) /\ Len(thread') = Len(received)
         /\ thread'[i] = u
         /\ \A j \in 1 .. Len(received) : j # i => thread'[j] = thread[j]
<1>1. thread \in Seq(Thread) /\ Len(thread) = Len(received) BY DEF TypeOK
<1>2. thread' \in Seq(Thread) /\ Len(thread') = Len(thread)
  BY <1>1, ExceptSeq
<1>3. \A j \in 1 .. Len(thread) :
        thread'[j] = IF j = i THEN u ELSE thread[j]
  BY <1>1, ExceptSeq
<1> QED BY <1>1, <1>2, <1>3

(* The record of a thread is well typed. *)
LEMMA ThreadTyped ==
  ASSUME TypeOK, NEW i \in 1 .. Len(received) PROVE thread[i] \in Thread
  BY DEF TypeOK

LEMMA StartedTyped == Started \in Thread
  BY DEF Started, Thread, Place

(* Nothing is wrong at the start. *)
LEMMA InitInv == Init => IInv
<1> SUFFICES ASSUME Init PROVE IInv
  OBVIOUS
<1>1. received = << >> /\ Len(received) = 0 /\ thread = << >> /\ now = 0
  BY DEF Init
<1>2. requests = {} /\ answers = {} BY DEF Init
<1>3. \A n \in Node : Unmeasured(n) \in Measured /\ ~Unmeasured(n).fresh
  BY DEF Unmeasured, Measured, Request
<1>4. TypeOK
  <2>1. offset \in [Node -> Measured]
    BY <1>3 DEF Init
  <2>2. writing \in BOOLEAN /\ exited \in BOOLEAN BY Zenon DEF Init
  <2>3. sendMutex = 0 /\ asked \in [Node -> Nat] BY DEF Init
  <2>4. ahead \in [Node -> Int] /\ moves \in Nat
    BY SkewAssumption DEF Init
  <2> QED BY <1>1, <1>2, <2>1, <2>2, <2>3, <2>4 DEF TypeOK
<1>5. OffsetWithinDelay
  BY <1>3 DEF Init, OffsetWithinDelay
<1> QED BY <1>1, <1>2, <1>4, <1>5
        DEF IInv, Asked, Threads, Stamped, AnswersItsSender

-----------------------------------------------------------------------------
(* What stays true as long as thread i takes its own step only. *)
LEMMA OwnStep ==
  ASSUME IInv, NEW i \in 1 .. Len(received), NEW u \in Thread,
         thread' = [thread EXCEPT ![i] = u],
         UNCHANGED <<nodes, received, writing, answers, exited>>,
         Holds(i)', sendMutex' \in 0 .. Len(received),
         \A j \in 1 .. Len(received) : sendMutex' = j <=> thread'[j].pc = "send"
  PROVE  IInv'
<1>1. thread' \in Seq(Thread) /\ Len(thread') = Len(received)
      /\ \A j \in 1 .. Len(received) : j # i => thread'[j] = thread[j]
  BY ThreadSteps DEF IInv
<1>2. TypeOK' BY <1>1 DEF IInv, TypeOK, nodes, clocks
<1>3. Threads' BY <1>1 DEF IInv, Threads, Holds, nodes
<1> QED BY <1>2, <1>3
        DEF IInv, Asked, Stamped, AnswersItsSender, OffsetWithinDelay, nodes

(* A thread that neither takes nor gives up the mutex leaves it as it is. *)
LEMMA MutexKept ==
  ASSUME TypeOK, NEW i \in 1 .. Len(received), NEW u \in Thread,
         thread' = [thread EXCEPT ![i] = u], UNCHANGED sendMutex,
         thread[i].pc # "send", u.pc # "send"
  PROVE  /\ sendMutex' \in 0 .. Len(received)
         /\ \A j \in 1 .. Len(received) :
              sendMutex' = j <=> thread'[j].pc = "send"
<1>1. thread'[i] = u
      /\ \A j \in 1 .. Len(received) : j # i => thread'[j] = thread[j]
  BY ThreadSteps
<1> QED BY <1>1 DEF TypeOK

LEMMA HandleMsgStep ==
  ASSUME IInv, NEW i \in 1 .. Len(received), HandleMsg(i) PROVE IInv'
<1>t. thread[i] \in Thread /\ TypeOK /\ Holds(i)
  BY ThreadTyped DEF IInv, Threads
<1>l. Len(received) \in Nat /\ now \in Nat BY <1>t DEF TypeOK
<1> USE DEF nodes
<1>1. CASE ReadBuff(i)
  <2> DEFINE u == [thread[i] EXCEPT !.read = Buff, !.pc = "decrypt"]
  <2>1. u \in Thread BY <1>t, <1>l DEF Thread, Place, Buff
  <2>2. /\ thread[i].pc = "start" /\ u.pc = "decrypt"
    BY <1>1, <1>t DEF ReadBuff, Advance, Thread
  <2>3. /\ thread' = [thread EXCEPT ![i] = u] /\ UNCHANGED sendMutex
        /\ UNCHANGED <<nodes, received, writing, answers, exited>>
    BY <1>1 DEF ReadBuff, Advance
  <2> HIDE DEF u
  <2>4. thread'[i] = u BY <1>t, <2>1, <2>3, ThreadSteps
  <2>5. Holds(i)' BY <2>2, <2>4 DEF Holds
  <2>6. /\ sendMutex' \in 0 .. Len(received)
        /\ \A j \in 1 .. Len(received) :
             sendMutex' = j <=> thread'[j].pc = "send"
    BY <1>t, <2>1, <2>2, <2>3, MutexKept
  <2> QED BY <2>1, <2>3, <2>5, <2>6, OwnStep
<1>2. CASE Decrypt(i)
  <2> DEFINE u == IF Whole(i)
                    THEN [thread[i] EXCEPT !.got = Len(received), !.read = 0,
                                           !.pc = "recv"]
                    ELSE [Started EXCEPT !.pc = "end"]
  <2>1. u \in Thread BY <1>t, <1>l DEF Thread, Place, Started
  <2>2. /\ thread[i].pc = "decrypt"
        /\ (u.pc = "recv" /\ u.got = Len(received)) \/ u.pc = "end"
    BY <1>2, <1>t DEF Decrypt, Advance, Thread, Started
  <2>3. /\ thread' = [thread EXCEPT ![i] = u] /\ UNCHANGED sendMutex
        /\ UNCHANGED <<nodes, received, writing, answers, exited>>
    BY <1>2 DEF Decrypt, Advance
  <2> HIDE DEF u
  <2>4. thread'[i] = u BY <1>t, <2>1, <2>3, ThreadSteps
  <2>5. Holds(i)' BY <1>l, <2>2, <2>3, <2>4 DEF Holds
  <2>6. /\ sendMutex' \in 0 .. Len(received)
        /\ \A j \in 1 .. Len(received) :
             sendMutex' = j <=> thread'[j].pc = "send"
    BY <1>t, <2>1, <2>2, <2>3, MutexKept
  <2> QED BY <2>1, <2>3, <2>5, <2>6, OwnStep
<1>3. CASE StampRec(i)
  <2> DEFINE u == [thread[i] EXCEPT !.rec = now, !.pc = "fill"]
  <2>1. u \in Thread BY <1>t, <1>l DEF Thread, Place
  <2>2. /\ thread[i].pc = "recv" /\ u.pc = "fill" /\ u.rec = now
        /\ u.got = thread[i].got
    BY <1>3, <1>t DEF StampRec, Advance, Thread
  <2>3. /\ thread' = [thread EXCEPT ![i] = u] /\ UNCHANGED sendMutex
        /\ UNCHANGED <<nodes, received, writing, answers, exited>>
    BY <1>3 DEF StampRec, Advance
  <2> HIDE DEF u
  <2>4. thread'[i] = u BY <1>t, <2>1, <2>3, ThreadSteps
  <2>5. Holds(i)'
    <3>1. thread[i].got \in i .. Len(received) BY <1>t, <2>2 DEF Holds
    <3>2. received[thread[i].got].sent <= now
      BY <3>1, <1>l DEF IInv, Asked
    <3> QED BY <1>l, <2>2, <2>3, <2>4, <3>1, <3>2 DEF Holds
  <2>6. /\ sendMutex' \in 0 .. Len(received)
        /\ \A j \in 1 .. Len(received) :
             sendMutex' = j <=> thread'[j].pc = "send"
    BY <1>t, <2>1, <2>2, <2>3, MutexKept
  <2> QED BY <2>1, <2>3, <2>5, <2>6, OwnStep
<1>4. CASE StampXmt(i)
  <2> DEFINE u == [thread[i] EXCEPT !.xmt = now, !.pc = "lock"]
  <2>1. u \in Thread BY <1>t, <1>l DEF Thread, Place
  <2>2. /\ thread[i].pc = "fill" /\ u.pc = "lock" /\ u.xmt = now
        /\ u.got = thread[i].got /\ u.rec = thread[i].rec
    BY <1>4, <1>t DEF StampXmt, Advance, Thread
  <2>3. /\ thread' = [thread EXCEPT ![i] = u] /\ UNCHANGED sendMutex
        /\ UNCHANGED <<nodes, received, writing, answers, exited>>
    BY <1>4 DEF StampXmt, Advance
  <2> HIDE DEF u
  <2>4. thread'[i] = u BY <1>t, <2>1, <2>3, ThreadSteps
  <2>5. Holds(i)' BY <1>t, <1>l, <2>2, <2>3, <2>4 DEF Holds
  <2>6. /\ sendMutex' \in 0 .. Len(received)
        /\ \A j \in 1 .. Len(received) :
             sendMutex' = j <=> thread'[j].pc = "send"
    BY <1>t, <2>1, <2>2, <2>3, MutexKept
  <2> QED BY <2>1, <2>3, <2>5, <2>6, OwnStep
<1>5. CASE Lock(i)
  <2> DEFINE u == [thread[i] EXCEPT !.pc = "send"]
  <2>1. u \in Thread BY <1>t DEF Thread, Place
  <2>2. /\ thread[i].pc = "lock" /\ u.pc = "send" /\ u.xmt = thread[i].xmt
        /\ u.got = thread[i].got /\ u.rec = thread[i].rec
    BY <1>5, <1>t DEF Lock, Advance, Thread
  <2>3. /\ thread' = [thread EXCEPT ![i] = u]
        /\ sendMutex = 0 /\ sendMutex' = i
        /\ UNCHANGED <<nodes, received, writing, answers, exited>>
    BY <1>5 DEF Lock, Advance
  <2> HIDE DEF u
  <2>4. thread'[i] = u
        /\ \A j \in 1 .. Len(received) : j # i => thread'[j] = thread[j]
    BY <1>t, <2>1, <2>3, ThreadSteps
  <2>5. Holds(i)' BY <1>t, <1>l, <2>2, <2>3, <2>4 DEF Holds
  <2>6. /\ sendMutex' \in 0 .. Len(received)
        /\ \A j \in 1 .. Len(received) :
             sendMutex' = j <=> thread'[j].pc = "send"
    BY <1>t, <1>l, <2>2, <2>3, <2>4 DEF TypeOK
  <2> QED BY <2>1, <2>3, <2>5, <2>6, OwnStep
<1>6. CASE Send(i)
  <2> DEFINE u == [Started EXCEPT !.pc = "end"]
  <2>1. u \in Thread /\ u.pc = "end" BY DEF Thread, Place, Started
  <2>2. /\ thread[i].pc = "send" /\ thread' = [thread EXCEPT ![i] = u]
        /\ UNCHANGED <<nodes, received, writing, exited>>
        /\ sendMutex' = 0
        /\ answers' \subseteq answers \cup {AnswerOf(i)}
    BY <1>6 DEF Send, Advance
  <2> HIDE DEF u
  <2>3. /\ thread' \in Seq(Thread) /\ Len(thread') = Len(received)
        /\ thread'[i] = u
        /\ \A j \in 1 .. Len(received) : j # i => thread'[j] = thread[j]
    BY <1>t, <2>1, <2>2, ThreadSteps
  <2>4. /\ thread[i].got \in i .. Len(received)
        /\ received[thread[i].got].sent <= thread[i].rec
        /\ thread[i].rec <= thread[i].xmt /\ thread[i].xmt <= now
    BY <1>t, <2>2 DEF Holds
  <2>5. AnswerOf(i) \in Answer
    <3>1. received[i] \in Request /\ received[thread[i].got] \in Request
      BY <1>t, <1>l, <2>4 DEF TypeOK
    <3>2. thread[i].rec \in Nat /\ thread[i].xmt \in Nat BY <1>t DEF Thread
    <3> QED BY <1>l, <3>1, <3>2 DEF AnswerOf, Sender, Answer, Request
  <2>6. TypeOK'
    <3>0. sendMutex = i /\ \A j \in 1 .. Len(received) : j # i => thread[j].pc # "send"
      BY <1>t, <2>2 DEF TypeOK
    <3>1. \A j \in 1 .. Len(received) : sendMutex' # j /\ thread'[j].pc # "send"
      BY <1>l, <2>1, <2>2, <2>3, <3>0
    <3>2. answers' \subseteq Answer BY <1>t, <2>2, <2>5 DEF TypeOK
    <3> QED BY <1>t, <1>l, <2>2, <2>3, <3>1, <3>2 DEF TypeOK, clocks
  <2>7. Threads' BY <2>1, <2>2, <2>3 DEF IInv, Threads, Holds
  <2>8. Stamped' BY <1>l, <2>2, <2>4 DEF IInv, Stamped, AnswerOf
  <2>9. AnswersItsSender'
    BY <1>l, <2>2, <2>4 DEF IInv, AnswersItsSender, AnswerOf, Sender
  <2> QED BY <2>2, <2>6, <2>7, <2>8, <2>9 DEF IInv, Asked, OffsetWithinDelay
<1> QED BY <1>1, <1>2, <1>3, <1>4, <1>5, <1>6 DEF HandleMsg

(* What halving leaves of an integer, rounded either way. *)
LEMMA HalvesNear ==
  ASSUME NEW x \in Int, NEW h \in Halves(x)
  PROVE  h \in Int /\ 2 * h - x \in -1 .. 1
  BY DEF Halves

(* An answer bounds the error of the offset measured from it. *)
LEMMA HandleDStep ==
  ASSUME IInv, NEW ans \in answers, HandleD(ans) PROVE IInv'
<1> DEFINE n == ans.to
           twice == TwiceOffset(ans.msg.sent + ans.msg.ahead, ans.rec,
                                ans.xmt, Clock(n))
           New(v) == [fresh |-> TRUE, value |-> v, msg |-> ans.msg, at |-> now,
                      ahead |-> ahead[n]]
<1>1. PICK v \in Halves(twice) : offset' = [offset EXCEPT ![n] = New(v)]
  BY DEF HandleD
<1>2. answers' \subseteq answers
      /\ UNCHANGED <<now, clocks, asked, requests, authority, exited>>
  BY DEF HandleD
<1>3. ans \in Answer /\ now \in Nat /\ TypeOK
  BY DEF IInv, TypeOK
<1>4. /\ n \in Node /\ ans.msg \in Request /\ ans.msg.ahead \in Int
      /\ ans.msg.sent \in Nat /\ ans.rec \in Nat /\ ans.xmt \in Nat
      /\ ahead[n] \in Int
  BY <1>3 DEF Answer, Request, TypeOK
<1>5. ans.msg.sent <= ans.rec /\ ans.rec <= ans.xmt /\ ans.xmt <= now
  BY DEF IInv, Stamped
<1>6. /\ twice \in Int
      /\ twice = ans.rec - (ans.msg.sent + ans.msg.ahead)
                 + ans.xmt - (now + ahead[n])
  BY <1>3, <1>4 DEF TwiceOffset, Clock
<1>7. v \in Int /\ 2 * v - twice \in -1 .. 1
  <2> HIDE DEF twice
  <2> QED BY <1>1, <1>6, HalvesNear
<1> HIDE DEF twice
<1>8. New(v) \in Measured
  BY <1>3, <1>4, <1>7 DEF Measured
<1>9. TypeOK'
  <2>1. offset' \in [Node -> Measured]
    BY <1>1, <1>3, <1>8 DEF TypeOK
  <2> QED BY <1>2, <1>3, <2>1 DEF TypeOK, authority, clocks
<1>10. OffsetWithinDelay'
  <2> SUFFICES ASSUME NEW m \in Node, offset'[m].fresh
      PROVE  LET o == offset'[m]
                 error == 2 * o.value + o.msg.ahead + o.ahead
                 delay == o.at - o.msg.sent
             IN  -delay - 1 <= error /\ error <= delay + 1
    BY DEF OffsetWithinDelay
  <2>1. CASE m = n
    <3>1. offset'[m] = New(v)
      BY <1>1, <1>3, <2>1 DEF TypeOK
    <3>2. /\ offset'[m].value = v /\ offset'[m].at = now
          /\ offset'[m].msg = ans.msg /\ offset'[m].ahead = ahead[n]
      BY <3>1
    <3> QED BY <1>3, <1>4, <1>5, <1>6, <1>7, <3>2
  <2>2. CASE m # n
    <3>1. offset'[m] = offset[m] BY <1>1, <1>3, <2>2 DEF TypeOK
    <3> QED BY <3>1 DEF IInv, OffsetWithinDelay
  <2> QED BY <2>1, <2>2
<1> QED BY <1>2, <1>9, <1>10
        DEF IInv, Asked, Threads, Holds, Stamped, AnswersItsSender, authority

(* To use an offset, or not, takes it away. *)
LEMMA SelectClockStep ==
  ASSUME IInv, NEW n \in Node, SelectClock(n),
         ahead' \in [Node -> Int], moves' \in Nat
  PROVE  IInv'
<1>1. /\ offset' = [offset EXCEPT ![n] = Unmeasured(n)]
      /\ UNCHANGED <<now, asked, requests, authority, exited, answers>>
  BY DEF SelectClock
<1>2. Unmeasured(n) \in Measured /\ ~Unmeasured(n).fresh
  BY DEF Unmeasured, Measured, Request
<1>3. TypeOK'
  BY <1>1, <1>2 DEF IInv, TypeOK, authority
<1>4. OffsetWithinDelay'
  <2>1. \A m \in Node : offset'[m] = IF m = n THEN Unmeasured(n) ELSE offset[m]
    BY <1>1 DEF IInv, TypeOK
  <2> QED BY <1>2, <2>1 DEF IInv, OffsetWithinDelay
<1> QED BY <1>1, <1>3, <1>4
        DEF IInv, Asked, Threads, Holds, Stamped, AnswersItsSender, authority

(* The server ends; what it has answered stays in flight. *)
LEMMA ExitStep == ASSUME IInv, Exit PROVE IInv'
<1> DEFINE dead == [Started EXCEPT !.pc = "end"]
<1>1. /\ writing' = FALSE /\ sendMutex' = 0 /\ exited' = TRUE
      /\ thread' = [i \in 1 .. Len(received) |-> dead]
      /\ UNCHANGED <<now, clocks, asked, requests, offset, received, answers>>
  BY DEF Exit, nodes
<1>2. dead \in Thread /\ dead.pc = "end"
  BY DEF Started, Thread, Place
<1>3. TypeOK /\ Len(received) \in Nat BY DEF IInv, TypeOK
<1> HIDE DEF dead
<1>4. thread' \in Seq(Thread) /\ Len(thread') = Len(received)
      /\ \A i \in 1 .. Len(received) : thread'[i] = dead
  BY <1>1, <1>2, <1>3
<1>5. TypeOK'
  <2>1. /\ sendMutex' \in 0 .. Len(received)
        /\ \A i \in 1 .. Len(received) : sendMutex' = i <=> thread'[i].pc = "send"
    BY <1>1, <1>2, <1>3, <1>4
  <2> QED BY <1>1, <1>3, <1>4, <2>1 DEF TypeOK, clocks
<1>6. Threads'
  BY <1>1, <1>2, <1>4 DEF Threads, Holds
<1> QED BY <1>1, <1>5, <1>6
        DEF IInv, Asked, Stamped, AnswersItsSender, OffsetWithinDelay

(* A datagram received gets a thread, and changes no other. *)
LEMMA StartStep ==
  ASSUME IInv, NEW req \in requests, Start(req) PROVE IInv'
<1>1. /\ received' = Append(received, req) /\ thread' = Append(thread, Started)
      /\ requests' \subseteq requests /\ writing' = FALSE
      /\ UNCHANGED <<now, clocks, asked, sendMutex, answers, exited, offset>>
  BY DEF Start
<1>2. TypeOK /\ req \in Request /\ req.sent <= now
  BY DEF IInv, TypeOK, Asked
<1>3. /\ received' \in Seq(Request) /\ Len(received') = Len(received) + 1
      /\ Len(received) \in Nat
      /\ received'[Len(received) + 1] = req
      /\ \A k \in 1 .. Len(received) : received'[k] = received[k]
  BY <1>1, <1>2 DEF TypeOK
<1>4. /\ thread' \in Seq(Thread) /\ Len(thread') = Len(received')
      /\ thread'[Len(received) + 1] = Started
      /\ \A k \in 1 .. Len(received) : thread'[k] = thread[k]
  BY <1>1, <1>2, <1>3, StartedTyped DEF TypeOK
<1>5. Started.pc = "start" BY DEF Started
<1>6. TypeOK'
  <2>1. /\ sendMutex' \in 0 .. Len(received')
        /\ \A i \in 1 .. Len(received') : sendMutex' = i <=> thread'[i].pc = "send"
    BY <1>1, <1>2, <1>3, <1>4, <1>5 DEF TypeOK
  <2> QED BY <1>1, <1>2, <1>3, <1>4, <2>1 DEF TypeOK, clocks
<1>7. Asked' BY <1>1, <1>2, <1>3 DEF IInv, Asked
<1>8. Threads'
  <2> SUFFICES ASSUME NEW i \in 1 .. Len(received') PROVE Holds(i)'
    BY DEF Threads
  <2>1. CASE i = Len(received) + 1 BY <1>4, <1>5, <2>1 DEF Holds
  <2>2. CASE i \in 1 .. Len(received)
    <3>1. Holds(i) /\ thread'[i] = thread[i]
      BY <1>4, <2>2 DEF IInv, Threads
    <3> QED BY <1>1, <1>3, <2>2, <3>1 DEF Holds
  <2> QED BY <1>3, <2>1, <2>2
<1>9. Stamped' BY <1>1, <1>3 DEF IInv, Stamped
<1>10. AnswersItsSender'
  <2> SUFFICES ASSUME NEW ans \in answers
      PROVE /\ ans.to = received'[ans.own].from
            /\ \E k \in ans.own .. Len(received') : ans.msg = received'[k]
    BY <1>1 DEF AnswersItsSender
  <2>1. /\ ans.own \in 1 .. Len(received)
        /\ ans.to = received[ans.own].from
    BY DEF IInv, Stamped, AnswersItsSender
  <2>2. PICK k \in ans.own .. Len(received) : ans.msg = received[k]
    BY DEF IInv, AnswersItsSender
  <2> QED BY <1>3, <2>1, <2>2
<1> QED BY <1>1, <1>6, <1>7, <1>8, <1>9, <1>10 DEF IInv, OffsetWithinDelay

(* Every step of the nodes and of the authority keeps IInv. *)
LEMMA NextInv == IInv /\ [Next]_vars => IInv'
<1> SUFFICES ASSUME IInv, [Next]_vars PROVE IInv'
  OBVIOUS
<1>1. CASE Tick
  <2>1. /\ now \in Nat /\ now' = now + 1 /\ Len(received) \in Nat
        /\ UNCHANGED <<clocks, asked, requests, received, writing, thread,
                       sendMutex, exited, answers, offset>>
    BY <1>1 DEF Tick, IInv, TypeOK, authority
  <2>2. TypeOK' BY <2>1 DEF IInv, TypeOK, clocks
  <2>3. /\ \A r \in requests : r.sent \in Nat /\ r.sent <= now
        /\ \A i \in 1 .. Len(received) :
             received[i].sent \in Nat /\ received[i].sent <= now
    <3>1. requests \subseteq Request
          /\ \A i \in 1 .. Len(received) : received[i] \in Request
      BY DEF IInv, TypeOK
    <3> QED BY <3>1 DEF IInv, Asked, Request
  <2>4. Asked' BY <2>1, <2>3 DEF Asked
  <2>5. \A i \in 1 .. Len(received) : thread[i].rec \in Nat /\ thread[i].xmt \in Nat
    BY ThreadTyped DEF IInv, Thread
  <2>6. Threads' BY <2>1, <2>5 DEF IInv, Threads, Holds
  <2>7. \A ans \in answers : ans.xmt \in Nat BY DEF IInv, TypeOK, Answer
  <2>8. Stamped' BY <2>1, <2>7 DEF IInv, Stamped
  <2> QED BY <2>1, <2>2, <2>4, <2>6, <2>8
          DEF IInv, AnswersItsSender, OffsetWithinDelay
<1>2. ASSUME NEW n \in Node, Ask(n) PROVE IInv'
  BY <1>2 DEF Ask, IInv, TypeOK, Asked, Threads, Holds, Stamped,
              AnswersItsSender, OffsetWithinDelay, authority, clocks, Request
<1>3. ASSUME NEW ans \in answers, HandleD(ans) PROVE IInv'
  BY <1>3, HandleDStep
<1>4. ASSUME NEW req \in requests, Receive(req) PROVE IInv'
  BY <1>4 DEF Receive, IInv, TypeOK, Asked, Threads, Holds, Stamped,
              AnswersItsSender, OffsetWithinDelay, nodes, clocks
<1>5. ASSUME NEW req \in requests, Start(req) PROVE IInv'
  BY <1>5, StartStep
<1>6. ASSUME NEW i \in 1 .. Len(received), HandleMsg(i) PROVE IInv'
  BY <1>6, HandleMsgStep
<1>7. ASSUME NEW n \in Node, StepClock(n) PROVE IInv'
  <2>1. /\ SelectClock(n) /\ moves' = moves + 1
        /\ ahead' = [ahead EXCEPT ![n] = @ + offset[n].value]
    BY <1>7 DEF StepClock
  <2>2. offset[n].value \in Int /\ moves \in Nat /\ ahead \in [Node -> Int]
    BY DEF IInv, TypeOK, Measured
  <2>3. ahead' \in [Node -> Int] /\ moves' \in Nat
    BY <2>1, <2>2
  <2> QED BY <2>1, <2>3, SelectClockStep
<1>8. ASSUME NEW n \in Node, LeaveClock(n) PROVE IInv'
  BY <1>8, SelectClockStep DEF LeaveClock, clocks, IInv, TypeOK
<1>9. ASSUME NEW n \in Node, NEW d \in Drifts, Drift(n, d) PROVE IInv'
  BY <1>9, DriftAssumption
     DEF Drift, IInv, TypeOK, Asked, Threads, Holds, Stamped,
         AnswersItsSender, OffsetWithinDelay, authority
<1>10. CASE Exit
  BY <1>10, ExitStep
<1>11. CASE UNCHANGED vars
  BY <1>11 DEF vars, IInv, TypeOK, Asked, Threads, Holds, Stamped,
               AnswersItsSender, OffsetWithinDelay, authority, clocks
<1> QED BY <1>1, <1>2, <1>3, <1>4, <1>5, <1>6, <1>7, <1>8, <1>9, <1>10, <1>11
        DEF Next

LEMMA Inductive == Spec => []IInv
  BY InitInv, NextInv, PTL DEF Spec

(* The authority's state is well typed, and sendMutex belongs to the one   *)
(* thread that sends.                                                      *)
THEOREM WellTyped == Spec => []TypeOK
<1>1. IInv => TypeOK BY DEF IInv
<1> QED BY Inductive, <1>1, PTL

(* An answer goes to the sender of its thread's request, and answers that  *)
(* request or a later one, however the threads share the buffer.           *)
THEOREM ToItsSender == Spec => []AnswersItsSender
<1>1. IInv => AnswersItsSender BY DEF IInv
<1> QED BY Inductive, <1>1, PTL

(* An offset that is about to be used is wrong by at most half of the time *)
(* the exchange took, as seen by the two clocks it was measured with, and  *)
(* half a nanosecond, whoever asked and however the clocks moved.          *)
THEOREM ErrorBounded == Spec => []OffsetWithinDelay
<1>1. IInv => OffsetWithinDelay BY DEF IInv
<1> QED BY Inductive, <1>1, PTL

(* The offset was measured from n's own request, and the clock of n has    *)
(* not moved since n asked.                                                *)
Unmoved(n) ==
  /\ offset[n].msg.from = n
  /\ offset[n].msg.ahead = ahead[n] /\ offset[n].ahead = ahead[n]

(* Half of the time from request to answer, and half a nanosecond. *)
Near(n) ==
  LET delay == offset[n].at - offset[n].msg.sent
  IN  -delay - 1 <= 2 * ahead'[n] /\ 2 * ahead'[n] <= delay + 1

StepsNear == [][\A n \in Node : StepClock(n) /\ Unmoved(n) => Near(n)]_vars

(* A clock stepped by an offset from an answer to the node's own request,  *)
(* while it had not moved since, is off by that bound at most (line 1221). *)
THEOREM StepsCorrect == Spec => StepsNear
<1>1. ASSUME IInv, NEW n \in Node, StepClock(n), Unmoved(n) PROVE Near(n)
  <2>1. ahead' = [ahead EXCEPT ![n] = @ + offset[n].value] /\ offset[n].fresh
    BY <1>1 DEF StepClock, SelectClock
  <2>2. /\ offset[n].value \in Int /\ offset[n].at \in Nat
        /\ offset[n].msg.sent \in Nat /\ ahead[n] \in Int
        /\ ahead'[n] = ahead[n] + offset[n].value
    BY <1>1, <2>1 DEF IInv, TypeOK, Measured, Request
  <2>3. LET delay == offset[n].at - offset[n].msg.sent
            error == 2 * offset[n].value + ahead[n] + ahead[n]
        IN  -delay - 1 <= error /\ error <= delay + 1
    BY <1>1, <2>1 DEF IInv, OffsetWithinDelay, Unmoved
  <2> QED BY <2>2, <2>3 DEF Near
<1>2. IInv /\ [Next]_vars
        => [\A n \in Node : StepClock(n) /\ Unmoved(n) => Near(n)]_vars
  BY <1>1
<1> QED BY Inductive, <1>2, PTL DEF Spec, StepsNear

-----------------------------------------------------------------------------
(* The facts on Billion that are used. *)
LEMMA Positive == Billion \in Int /\ Billion > 0
  BY BillionAssumption

(* A second more or less in products. *)
LEMMA Distributes ==
  \A s, t \in Int : /\ (s + t) * Billion = s * Billion + t * Billion
                    /\ (s - t) * Billion = s * Billion - t * Billion
                    /\ s * Billion \in Int
                    /\ (-s) * Billion = -(s * Billion)
  BY Positive

(* Seconds decide, then nanoseconds. *)
LEMMA Lexicographic ==
  ASSUME NEW s \in Int, NEW t \in Int,
         NEW m \in 0 .. Billion - 1, NEW n \in 0 .. Billion - 1
  PROVE  (s < t \/ (s = t /\ m < n)) <=> s * Billion + m < t * Billion + n
<1>1. ASSUME NEW a \in Int, NEW b \in Int, a < b
      PROVE  a * Billion + Billion <= b * Billion
  <2>1. (b - a) * Billion >= Billion
    BY <1>1, Positive
  <2> QED
    BY <2>1, Distributes, Positive
<1>2. CASE s < t
  BY <1>2, <1>1, Distributes, Positive
<1>3. CASE t < s
  BY <1>3, <1>1, Distributes, Positive
<1>4. CASE s = t
  BY <1>4, Distributes, Positive
<1> QED
  BY <1>2, <1>3, <1>4

(* Halving an integer loses one half at most. *)
LEMMA HalfInt ==
  ASSUME NEW x \in Int
  PROVE  Half(x) \in Int /\ x - 2 * Half(x) \in -1 .. 1
  BY DEF Half

(* Half a second is exact. *)
LEMMA HalfSecond == 2 * Half(Billion) = Billion
  BY BillionAssumption, Positive DEF Half

(* Half of a time is a nanosecond off at most, which doubles to one. *)
LEMMA HalvedRight ==
  ASSUME NEW t \in Time
  PROVE  /\ Halved(t) \in Time
         /\ 2 * Value(Halved(t)) - Value(t) \in -1 .. 1
<1> DEFINE h == Half(t.sec)
           n == Half(t.nsec)
           b == Half(Billion)
<1>1. t.sec \in Int /\ t.nsec \in Int
  BY DEF Time
<1>2. h \in Int /\ n \in Int /\ b \in Int
  BY <1>1, HalfInt, Positive
<1>3. Halved(t) = [sec |-> h, nsec |-> (t.sec - 2 * h) * b + n]
  BY DEF Halved
<1>4. t.nsec - 2 * n \in -1 .. 1
  BY <1>1, HalfInt
<1>5. 2 * b = Billion
  BY HalfSecond
<1> HIDE DEF h, n, b
<1>6. (t.sec - 2 * h) * b \in Int
  BY <1>1, <1>2
<1>7. 2 * ((t.sec - 2 * h) * b) = (t.sec - 2 * h) * Billion
  BY <1>1, <1>2, <1>5
<1>8. (t.sec - 2 * h) * Billion = t.sec * Billion - 2 * (h * Billion)
  BY <1>1, <1>2, Distributes, Positive
<1>9. Halved(t) \in Time
  BY <1>2, <1>3, <1>6 DEF Time
<1>10. Value(Halved(t)) = h * Billion + ((t.sec - 2 * h) * b + n)
  BY <1>3 DEF Value
<1>11. h * Billion \in Int /\ t.sec * Billion \in Int
  BY <1>1, <1>2, Distributes
<1>12. 2 * Value(Halved(t)) - Value(t) = 2 * n - t.nsec
  BY <1>1, <1>2, <1>6, <1>7, <1>8, <1>10, <1>11 DEF Value
<1> QED
  BY <1>1, <1>2, <1>4, <1>9, <1>12

-----------------------------------------------------------------------------
(* What the loops keep. *)
OpInv ==
  /\ lhs \in Time /\ rhs \in Time /\ op \in Op /\ result \in Time
  /\ loop \in {"borrow", "carry", "done"}
  /\ loop # "borrow" => result.nsec >= 0
  /\ loop = "done" => result.nsec < Billion
  /\ Right

(* The raw result has the right value, field by field. *)
LEMMA OpInitially == OpInit => OpInv
<1> SUFFICES ASSUME OpInit
             PROVE  OpInv
  OBVIOUS
<1>1. lhs \in Time /\ rhs \in Time /\ op \in Op /\ loop = "borrow"
  BY InputsAssumption DEF OpInit
<1>2. result = Raw(op, lhs, rhs)
  BY DEF OpInit
<1>3. /\ lhs.sec \in Int /\ lhs.nsec \in Int
      /\ rhs.sec \in Int /\ rhs.nsec \in Int
  BY <1>1 DEF Time
<1>4. result \in Time /\ Right
  <2>1. CASE op = "std"
    BY <2>1, <1>1, <1>2 DEF Raw, Right
  <2>2. CASE op = "+"
    BY <2>2, <1>2, <1>3, Distributes DEF Raw, Right, Value, Time
  <2>3. CASE op = "+ns"
    BY <2>3, <1>2, <1>3, Distributes DEF Raw, Right, Value, Time
  <2>4. CASE op = "-"
    <3>1. result = [sec |-> lhs.sec - rhs.sec, nsec |-> lhs.nsec - rhs.nsec]
      BY <2>4, <1>2 DEF Raw
    <3>2. (lhs.sec - rhs.sec) * Billion = lhs.sec * Billion - rhs.sec * Billion
      BY <1>3, Distributes
    <3>3. lhs.sec * Billion \in Int /\ rhs.sec * Billion \in Int
      BY <1>3, Distributes
    <3>4. Value(result) = Value(lhs) - Value(rhs)
      BY <1>3, <3>1, <3>2, <3>3 DEF Value
    <3> QED
      BY <2>4, <1>3, <3>1, <3>4 DEF Right, Time
  <2>5. CASE op = "-ns"
    BY <2>5, <1>2, <1>3, Distributes DEF Raw, Right, Value, Time
  <2>6. CASE op = "neg"
    <3>1. result = [sec |-> -lhs.sec, nsec |-> -lhs.nsec]
      BY <2>6, <1>2 DEF Raw
    <3>2. (-lhs.sec) * Billion = -(lhs.sec * Billion)
      BY <1>3, Distributes
    <3>3. lhs.sec * Billion \in Int
      BY <1>3, Distributes
    <3>4. Value(result) = -Value(lhs)
      BY <1>3, <3>1, <3>2, <3>3 DEF Value
    <3> QED
      BY <2>6, <1>3, <3>1, <3>4 DEF Right, Time
  <2>7. CASE op = "half"
    <3>1. result = Halved(lhs)
      BY <2>7, <1>2 DEF Raw
    <3> QED
      BY <2>7, <3>1, <1>1, HalvedRight DEF Right
  <2> QED
    BY <1>1, <2>1, <2>2, <2>3, <2>4, <2>5, <2>6, <2>7 DEF Op
<1> QED
  BY <1>1, <1>4 DEF OpInv

(* A result of the same value is right if the old one was. *)
LEMMA SameValue ==
  ASSUME Right, UNCHANGED <<lhs, rhs, op>>, Value(result') = Value(result)
  PROVE  Right'
  BY DEF Right, Value

(* Both loops keep the value. *)
LEMMA LoopsKeep == OpInv /\ [OpNext]_opVars => OpInv'
<1> SUFFICES ASSUME OpInv, [OpNext]_opVars
             PROVE  OpInv'
  OBVIOUS
<1>1. result.sec \in Int /\ result.nsec \in Int
  BY DEF OpInv, Time
<1>2. CASE Borrow
  <2>1. Value(result') = Value(result)
    BY <1>1, <1>2, Distributes, Positive DEF Borrow, Value
  <2>2. Right'
    BY <1>2, <2>1, SameValue DEF OpInv, Borrow
  <2> QED
    BY <1>1, <1>2, <2>2, Positive DEF OpInv, Borrow, Time
<1>3. CASE Borrowed
  <2>1. Right'
    BY <1>3, SameValue DEF OpInv, Borrowed
  <2> QED
    BY <1>3, <2>1 DEF OpInv, Borrowed
<1>4. CASE Carry
  <2>1. Value(result') = Value(result)
    BY <1>1, <1>4, Distributes, Positive DEF Carry, Value
  <2>2. Right'
    BY <1>4, <2>1, SameValue DEF OpInv, Carry
  <2> QED
    BY <1>1, <1>4, <2>2, Positive DEF OpInv, Carry, Time
<1>5. CASE Carried
  <2>1. Right'
    BY <1>5, SameValue DEF OpInv, Carried
  <2> QED
    BY <1>5, <2>1 DEF OpInv, Carried
<1>6. CASE UNCHANGED opVars
  <2>1. Right'
    BY <1>6, SameValue DEF OpInv, opVars
  <2> QED
    BY <1>6, <2>1 DEF OpInv, opVars
<1> QED
  BY <1>2, <1>3, <1>4, <1>5, <1>6 DEF OpNext

(* The invariant holds whatever the operands. *)
THEOREM OpInvariance == OpSpec => []OpInv
  BY OpInitially, LoopsKeep, PTL DEF OpSpec

(* Every operator returns the right value in normal form. *)
THEOREM Arithmetic == OpSpec => []Exact
<1>1. OpInv => Exact
  <2> SUFFICES ASSUME OpInv, loop = "done"
               PROVE  Normal(result)
    BY DEF OpInv, Exact
  <2> QED
    BY Positive DEF OpInv, Time, Normal
<1> QED
  BY <1>1, OpInvariance, PTL

-----------------------------------------------------------------------------
(* Quotient and remainder.  The provers know which numbers they are when a *)
(* number is written with them, not that every number can be: that is an   *)
(* induction.                                                              *)

(* Every set of numbers has a least one. *)
LEMMA Least ==
  ASSUME NEW S \in SUBSET Nat, S # {}
  PROVE  \E n \in S : \A m \in S : n <= m
<1>1. \E n \in S : \A m \in S : ~(<<m, n>> \in OpToRel(<, Nat))
  BY NatLessThanWellFounded, WFMin, Zenon
<1>2. \A n, m \in Nat : <<m, n>> \in OpToRel(<, Nat) <=> m < n
  BY DEF OpToRel
<1>3. \E n \in S : \A m \in S : ~(m < n)
  BY <1>1, <1>2, Zenon
<1> QED
  BY <1>3

(* The least of x, x - Billion, x + Billion, ... is the remainder. *)
LEMMA Divides ==
  ASSUME NEW x \in Int
  PROVE  \E q \in Int : \E r \in 0 .. Billion - 1 : x = q * Billion + r
<1> DEFINE S == {n \in Nat : \E q \in Int : n = x - q * Billion}
<1>1. S # {}
  <2>1. CASE x >= 0
    <3>1. x = x - 0 * Billion
      BY Positive
    <3> QED
      BY <2>1, <3>1
  <2>2. CASE x < 0
    <3>1. (-x) * Billion >= -x
      BY <2>2, Positive
    <3>2. (-x) * Billion = -(x * Billion) /\ x * Billion \in Int
      BY Distributes
    <3>3. x - x * Billion \in Nat
      BY <2>2, <3>1, <3>2
    <3> QED
      BY <3>3
  <2> QED
    BY <2>1, <2>2
<1>2. PICK n \in S : \A m \in S : n <= m
  BY <1>1, Least
<1>3. PICK q \in Int : n = x - q * Billion
  BY <1>2
<1>4. n < Billion
  <2>1. SUFFICES ASSUME n >= Billion PROVE FALSE
    BY <1>2, Positive
  <2>2. n - Billion = x - (q + 1) * Billion
    BY <1>3, Distributes, Positive
  <2>3. n - Billion \in S
    BY <1>2, <2>1, <2>2, Positive
  <2> QED
    BY <1>2, <2>3, Positive
<1> QED
  BY <1>2, <1>3, <1>4, Distributes, Positive

LEMMA Quotient ==
  ASSUME NEW b \in Int, b > 0, NEW x \in Int,
         NEW q \in Int, NEW r \in 0 .. b - 1, x = q * b + r
  PROVE  x \div b = q /\ x % b = r
<1>1. x \div b = q
  BY SMT
<1>2. x % b = r
  BY SMT
<1> QED
  BY <1>1, <1>2

(* Every time has the normal form of its value, and only one. *)
LEMMA StandardForm ==
  ASSUME NEW t \in Time, NEW s \in Int, NEW n \in 0 .. Billion - 1,
         Value(t) = s * Billion + n
  PROVE  Standard(t) = [sec |-> s, nsec |-> n]
<1>1. t.sec \in Int /\ t.nsec \in Int
  BY DEF Time
<1>2. (s - t.sec) * Billion = s * Billion - t.sec * Billion
  BY <1>1, Distributes
<1>3. s * Billion \in Int /\ t.sec * Billion \in Int
  BY <1>1, Distributes
<1> DEFINE q == s - t.sec
<1>4. t.nsec = q * Billion + n
  BY <1>1, <1>2, <1>3 DEF Value
<1>5. q \in Int
  BY <1>1
<1>6. t.nsec \div Billion = q /\ t.nsec % Billion = n
  <2> HIDE DEF q
  <2> QED
    BY <1>1, <1>4, <1>5, Quotient, Positive
<1> QED
  BY <1>1, <1>6 DEF Standard

LEMMA StandardIsNormal ==
  ASSUME NEW t \in Time
  PROVE  /\ Standard(t) \in Time /\ Normal(Standard(t))
         /\ Value(Standard(t)) = Value(t)
<1>1. Value(t) \in Int
  BY Distributes, Positive DEF Time, Value
<1>2. PICK s \in Int, n \in 0 .. Billion - 1 : Value(t) = s * Billion + n
  BY <1>1, Divides
<1>3. Standard(t) = [sec |-> s, nsec |-> n]
  BY <1>2, StandardForm
<1> QED
  BY <1>2, <1>3, Positive DEF Time, Normal, Value

(* The loops of standardize: between its calls and returns the raw result  *)
(* keeps its value.                                                        *)
KeepsRaw == Raw(op, lhs, rhs) \in Time /\ Value(result) = Value(Raw(op, lhs, rhs))

LEMMA RawIsTime ==
  ASSUME NEW o \in Op, NEW l \in Time, NEW r \in Time
  PROVE  Raw(o, l, r) \in Time
<1>1. CASE o = "half"
  BY <1>1, HalvedRight DEF Raw
<1>2. CASE o # "half"
  BY <1>2 DEF Raw, Op, Time
<1> QED
  BY <1>1, <1>2

LEMMA ValueKept ==
  ASSUME OpInv, [OpNext]_opVars
  PROVE  Value(result') = Value(result) /\ UNCHANGED <<lhs, rhs, op>>
<1>1. result.sec \in Int /\ result.nsec \in Int
  BY DEF OpInv, Time
<1>2. CASE Borrow
  BY <1>1, <1>2, Distributes, Positive DEF Borrow, Value
<1>3. CASE Carry
  BY <1>1, <1>3, Distributes, Positive DEF Carry, Value
<1>4. CASE Borrowed \/ Carried \/ UNCHANGED opVars
  BY <1>4 DEF Borrowed, Carried, opVars
<1> QED
  BY <1>2, <1>3, <1>4 DEF OpNext

(* The loops end in the normal form that operator< assumes. *)
LoopsStandardize == loop = "done" => result = Standard(Raw(op, lhs, rhs))

(* What the two loops return is the quotient and the remainder, the normal *)
(* form that operator< assumes.                                            *)
THEOREM LoopsDivide == OpSpec => []LoopsStandardize
<1>1. OpInit => KeepsRaw
  BY RawIsTime, InputsAssumption DEF OpInit, KeepsRaw
<1>2. OpInv /\ KeepsRaw /\ [OpNext]_opVars => KeepsRaw'
  <2> SUFFICES ASSUME OpInv, KeepsRaw, [OpNext]_opVars PROVE KeepsRaw'
    OBVIOUS
  <2> QED
    BY ValueKept DEF KeepsRaw, Value
<1>3. OpInv /\ KeepsRaw => LoopsStandardize
  <2> SUFFICES ASSUME OpInv, KeepsRaw, loop = "done"
               PROVE  result = Standard(Raw(op, lhs, rhs))
    BY DEF LoopsStandardize
  <2>1. /\ result.sec \in Int /\ result.nsec \in 0 .. Billion - 1
        /\ result = [sec |-> result.sec, nsec |-> result.nsec]
    BY Positive DEF OpInv, Time
  <2>2. Value(Raw(op, lhs, rhs)) = result.sec * Billion + result.nsec
    BY DEF KeepsRaw, Value
  <2> QED
    BY <2>1, <2>2, StandardForm DEF KeepsRaw
<1> QED
  BY <1>1, <1>2, <1>3, OpInvariance, PTL DEF OpSpec

(* On times in normal form, what operator< compares is their value. *)
LEMMA NormalOrder ==
  ASSUME NEW l \in Time, NEW r \in Time, Normal(l), Normal(r)
  PROVE  Precedes(l, r) <=> Value(l) < Value(r)
  BY Lexicographic DEF Precedes, Time, Normal, Value

(* operator< orders any two times by their values, in normal form or not. *)
THEOREM LessIsOrder ==
  ASSUME NEW l \in Time, NEW r \in Time
  PROVE  Less(l, r) <=> Value(l) < Value(r)
  BY StandardIsNormal, NormalOrder DEF Less

-----------------------------------------------------------------------------
(* What an operator returns, after standardize (LoopsDivide). *)
Apply(o, l, r) == Standard(Raw(o, l, r))

LEMMA SumRight ==
  ASSUME NEW l \in Time, NEW r \in Time
  PROVE  /\ Apply("+", l, r) \in Time
         /\ Value(Apply("+", l, r)) = Value(l) + Value(r)
<1>1. Raw("+", l, r) = [sec |-> l.sec + r.sec, nsec |-> l.nsec + r.nsec]
  BY DEF Raw
<1>2. Raw("+", l, r) \in Time
  BY <1>1 DEF Time
<1>3. Value(Raw("+", l, r)) = Value(l) + Value(r)
  <2>1. /\ l.sec \in Int /\ l.nsec \in Int /\ r.sec \in Int /\ r.nsec \in Int
        /\ l.sec * Billion \in Int /\ r.sec * Billion \in Int
    BY Distributes DEF Time
  <2>2. (l.sec + r.sec) * Billion = l.sec * Billion + r.sec * Billion
    BY <2>1, Distributes
  <2>3. Value(Raw("+", l, r)) =
          (l.sec + r.sec) * Billion + (l.nsec + r.nsec)
    BY <1>1 DEF Value
  <2> QED
    BY <2>1, <2>2, <2>3 DEF Value
<1> QED
  BY <1>2, <1>3, StandardIsNormal DEF Apply

LEMMA DifferenceRight ==
  ASSUME NEW l \in Time, NEW r \in Time
  PROVE  /\ Apply("-", l, r) \in Time
         /\ Value(Apply("-", l, r)) = Value(l) - Value(r)
<1>1. Raw("-", l, r) = [sec |-> l.sec - r.sec, nsec |-> l.nsec - r.nsec]
  BY DEF Raw
<1>2. Raw("-", l, r) \in Time
  BY <1>1 DEF Time
<1>3. Value(Raw("-", l, r)) = Value(l) - Value(r)
  <2>1. /\ l.sec \in Int /\ l.nsec \in Int /\ r.sec \in Int /\ r.nsec \in Int
        /\ l.sec * Billion \in Int /\ r.sec * Billion \in Int
    BY Distributes DEF Time
  <2>2. (l.sec - r.sec) * Billion = l.sec * Billion - r.sec * Billion
    BY <2>1, Distributes
  <2>3. Value(Raw("-", l, r)) =
          (l.sec - r.sec) * Billion + (l.nsec - r.nsec)
    BY <1>1 DEF Value
  <2> QED
    BY <2>1, <2>2, <2>3 DEF Value
<1> QED
  BY <1>2, <1>3, StandardIsNormal DEF Apply

(* Half of a number, up to one half, is one of its two roundings. *)
LEMMA HalfNear ==
  ASSUME NEW x \in Int, NEW h \in Int, 2 * h - x \in -1 .. 1
  PROVE  h \in Halves(x)
  BY DEF Halves

(* (rec_ts-org_ts+xmt_ts-recv_ts)/2, the way lines 687 and 772 compute it. *)
ClockOffset(org, rec, xmt, recv) ==
  LET twice == Apply("-", Apply("+", Apply("-", rec, org), xmt), recv)
  IN  Apply("half", twice, twice)

(* The offset that a node computes with the operators of timespec.h is a   *)
(* normal form of either sign, and one of the values that TimeAuthority    *)
(* lets HandleD choose, for timestamps of any sign and form.               *)
THEOREM OffsetComputed ==
  ASSUME NEW org \in Time, NEW rec \in Time, NEW xmt \in Time,
         NEW recv \in Time
  PROVE  LET o == ClockOffset(org, rec, xmt, recv)
         IN  /\ o \in Time /\ Normal(o)
             /\ Value(o) \in Halves(TwiceOffset(Value(org), Value(rec),
                                               Value(xmt), Value(recv)))
<1> DEFINE d == Apply("-", rec, org)
           s == Apply("+", d, xmt)
           twice == Apply("-", s, recv)
           o == Apply("half", twice, twice)
<1>1. d \in Time /\ Value(d) = Value(rec) - Value(org)
  BY DifferenceRight
<1>2. s \in Time /\ Value(s) = Value(d) + Value(xmt)
  BY <1>1, SumRight
<1>3. twice \in Time /\ Value(twice) = Value(s) - Value(recv)
  BY <1>2, DifferenceRight
<1>4. \A t \in Time : Value(t) \in Int
  BY Distributes, Positive DEF Time, Value
<1>5. o = Standard(Halved(twice))
  BY DEF Apply, Raw
<1> HIDE DEF d, s, twice
<1>6. /\ Halved(twice) \in Time
      /\ 2 * Value(Halved(twice)) - Value(twice) \in -1 .. 1
  BY <1>3, HalvedRight
<1>7. o \in Time /\ Normal(o) /\ Value(o) = Value(Halved(twice))
  BY <1>5, <1>6, StandardIsNormal
<1>8. Value(twice) = TwiceOffset(Value(org), Value(rec), Value(xmt), Value(recv))
  BY <1>1, <1>2, <1>3, <1>4 DEF TwiceOffset
<1>9. Value(twice) \in Int /\ Value(o) \in Int
  BY <1>3, <1>4, <1>7
<1>10. Value(o) \in Halves(Value(twice))
  BY <1>6, <1>7, <1>9, HalfNear
<1> QED
  BY <1>7, <1>8, <1>10 DEF ClockOffset, d, s, twice
=============================================================================
