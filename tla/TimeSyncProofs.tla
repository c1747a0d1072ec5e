-------------------------- MODULE TimeSyncProofs --------------------------
(***************************************************************************)
(* For every offset, threshold, poll interval and bound: no timestamp      *)
(* before the training (ServesAfterTraining), no training abandoned by an  *)
(* interleaving of the two threads (TrainingNotAbandoned) or ended before  *)
(* its time (TrainedInFull), no retraining lost to a later answer          *)
(* (RetrainingKept), and poll_count within its interval (TypeOK).          *)
(***************************************************************************)
EXTENDS TimeSync, TLAPS

(* The part of TypeOK the arguments need. *)
Kinds ==
  /\ nodeState \in {"FREQ", "SYNC", "SPIK"}
  /\ clockState \in {"consistent", "inconsistent"}
  /\ recv \in {"idle", "spike", "classify", "select", "sync"}
  /\ enterFreq \in BOOLEAN /\ cut \in BOOLEAN
  /\ poll \in {FirstPoll, MinPoll} /\ pass \in Nat

(* A write of node_state is pending only outside a training. *)
PendingWrites == recv \in {"spike", "sync"} => enterFreq

(* In SYNC, and where SPIK or SYNC is yet to be written, no time is left   *)
(* over: pass_count was reset before.                                      *)
NothingLeft == nodeState = "SYNC" \/ recv \in {"spike", "sync"} => pass = 0

(* What pass_count holds in a training was counted in it, and before the   *)
(* training there is nothing, unless a spike was cut short.                *)
CountedOnly ==
  ~cut => /\ ~enterFreq => pass = counted
          /\ nodeState = "FREQ" /\ enterFreq => pass = 0

(* An answer measured in FREQ writes neither SPIK nor SYNC, unless it ends *)
(* a training.                                                             *)
AskedInFreq ==
  asked /\ recv # "idle" =>
    nodeState = "FREQ" /\ recv \notin {"spike", "sync"}

(* Before the first training ends nothing leaves the initial state. *)
Untrained ==
  ~freqDone => /\ nodeState = "FREQ"
               /\ recv \notin {"spike", "sync"}
               /\ clockState = "inconsistent"

IInv ==
  /\ Kinds /\ PendingWrites /\ NothingLeft /\ CountedOnly /\ AskedInFreq
  /\ Untrained /\ TrainingNotAbandoned

(* The initial state satisfies the invariant. *)
LEMMA Initially == Init => IInv
<1> SUFFICES ASSUME Init PROVE IInv
  OBVIOUS
<1>1. Kinds
  <2>1. pass \in Nat /\ poll \in {FirstPoll, MinPoll}
    BY DEF Init
  <2>2. enterFreq \in BOOLEAN /\ cut \in BOOLEAN
    BY DEF Init
  <2> QED
    BY <2>1, <2>2 DEF Init, Kinds
<1> QED
  BY <1>1 DEF Init, IInv, PendingWrites, NothingLeft, CountedOnly, AskedInFreq,
              Untrained, TrainingNotAbandoned

(* The monitor writes FREQ, which no conjunct forbids, whatever the        *)
(* handler is about to write.                                              *)
LEMMA MonitorKeeps ==
  ASSUME IInv, Monitor
  PROVE  IInv'
<1> USE DEF IInv, Kinds, PendingWrites, NothingLeft, CountedOnly,
            AskedInFreq, Untrained, TrainingNotAbandoned, history
<1>1. CASE StartCalibration
  BY <1>1 DEF StartCalibration
<1>2. CASE EndCalibration
  BY <1>2 DEF EndCalibration
<1>3. CASE Second
  BY <1>3 DEF Second
<1>4. CASE Discalibrate
  BY <1>4 DEF Discalibrate
<1>5. ASSUME WriteFreq,
             UNCHANGED <<clockState, pass, enterFreq, poll, recv>>
      PROVE  IInv'
  <2>1. nodeState' = "FREQ" /\ UNCHANGED <<freqDone, counted, asked>>
    BY <1>5 DEF WriteFreq
  <2>2. cut' \in BOOLEAN /\ (~cut' => ~cut /\ ~(nodeState = "SPIK" /\ pass > 0))
    BY <1>5 DEF WriteFreq
  <2> QED
    BY <1>5, <2>1, <2>2
<1>6. CASE BackToFreq
  BY <1>5, <1>6 DEF BackToFreq
<1>7. CASE DiscalibrateAgain
  BY <1>5, <1>7 DEF DiscalibrateAgain
<1>8. CASE TscGoesBack
  BY <1>8 DEF TscGoesBack
<1> QED
  BY <1>1, <1>2, <1>3, <1>4, <1>6, <1>7, <1>8 DEF Monitor

(* Each way select_clock can go keeps the invariant. *)
LEMMA SelectKeeps ==
  ASSUME IInv, SelectClock
  PROVE  IInv'
<1> USE DEF IInv, Kinds, PendingWrites, NothingLeft, CountedOnly,
            AskedInFreq, Untrained, TrainingNotAbandoned, history, SelectClock
<1>0. Interval \in Nat /\ pass + Interval \in Nat
  BY PollAssumption DEF Interval
<1>1. CASE SelectSync
  BY <1>1 DEF SelectSync
<1>2. CASE SelectSpik
  <2>1. /\ recv' \in {"sync", "idle"} /\ (recv' = "sync" => pass' = 0)
        /\ pass' \in Nat
    BY <1>0, <1>2 DEF SelectSpik
  <2>2. UNCHANGED <<nodeState, enterFreq, poll, history, clockState>>
    BY <1>2 DEF SelectSpik
  <2>3. nodeState = "SPIK"
    BY <1>2 DEF SelectSpik
  <2> QED
    BY <2>1, <2>2, <2>3
<1>3. CASE StartTraining
  <2>1. ~cut => pass' = counted'
    BY <1>0, <1>3 DEF StartTraining
  <2> QED
    BY <1>0, <1>3, <2>1 DEF StartTraining
<1>4. CASE Train
  BY <1>0, <1>4 DEF Train
<1>5. CASE EndTraining
  <2>1. freqDone'
    BY <1>5 DEF EndTraining
  <2>2. recv' = "idle" /\ pass' = 0 /\ nodeState' = "SYNC" /\ enterFreq'
    BY <1>5 DEF EndTraining
  <2>3. UNCHANGED clockState /\ {enterFreq', cut'} \subseteq BOOLEAN
    BY <1>5 DEF EndTraining
  <2>4. pass' \in Nat /\ poll' \in {FirstPoll, MinPoll}
    BY <1>5 DEF EndTraining
  <2> QED
    BY <2>1, <2>2, <2>3, <2>4
<1> QED
  BY <1>1, <1>2, <1>3, <1>4, <1>5

(* Every step of the receive thread keeps the invariant. *)
LEMMA HandlerKeeps ==
  ASSUME IInv, Handler
  PROVE  IInv'
<1> USE DEF IInv, Kinds, PendingWrites, NothingLeft, CountedOnly,
            AskedInFreq, Untrained, TrainingNotAbandoned, history
<1>1. CASE Measure
  <2>1. recv' = "classify" \/ (recv' = "spike" /\ nodeState = "SYNC")
    BY <1>1 DEF Measure, IsSpike
  <2>2. UNCHANGED <<nodeState, clockState, pass, enterFreq, poll, freqDone,
                    counted, cut>>
    BY <1>1 DEF Measure
  <2>3. asked' => nodeState = "FREQ"
    BY <1>1 DEF Measure
  <2> QED
    BY <2>1, <2>2, <2>3
<1>2. CASE Spike
  BY <1>2 DEF Spike
<1>3. CASE Classify
  <2>1. /\ recv' = "select" /\ clockState' \in {"consistent", "inconsistent"}
        /\ nodeState = "FREQ" => clockState' = clockState
    BY <1>3 DEF Classify
  <2>2. recv = "classify"
        /\ UNCHANGED <<nodeState, pass, enterFreq, poll, history>>
    BY <1>3 DEF Classify
  <2> QED
    BY <2>1, <2>2
<1>4. CASE SelectClock
  BY <1>4, SelectKeeps
<1>5. CASE BackToSync
  BY <1>5 DEF BackToSync
<1> QED
  BY <1>1, <1>2, <1>3, <1>4, <1>5 DEF Handler

(* The invariant holds in every reachable state. *)
THEOREM Invariance == Spec => []IInv
<1>1. IInv /\ [Next]_vars => IInv'
  <2> SUFFICES ASSUME IInv, [Next]_vars
               PROVE  IInv'
    OBVIOUS
  <2>1. CASE Monitor
    BY <2>1, MonitorKeeps
  <2>2. CASE Handler
    BY <2>2, HandlerKeeps
  <2>3. CASE UNCHANGED vars
    BY <2>3 DEF vars, IInv, Kinds, PendingWrites, NothingLeft, CountedOnly,
                AskedInFreq, Untrained, TrainingNotAbandoned, history
  <2> QED
    BY <2>1, <2>2, <2>3 DEF Next
<1> QED
  BY <1>1, Initially, PTL DEF Spec

(* No client obtains a timestamp before the frequency was trained once. *)
THEOREM TrainedFirst == Spec => []ServesAfterTraining
<1>1. IInv => ServesAfterTraining
  BY DEF IInv, Untrained, ServesAfterTraining, Serving
<1> QED
  BY <1>1, Invariance, PTL

(* No interleaving of the monitor and the handler of D leaves the state    *)
(* FREQ in the middle of a training.                                       *)
THEOREM TrainingKept == Spec => []TrainingNotAbandoned
<1>1. IInv => TrainingNotAbandoned
  BY DEF IInv
<1> QED
  BY <1>1, Invariance, PTL

(* A training that ends has counted the threshold itself, unless a spike   *)
(* was cut short before it.                                                *)
THEOREM NoTrainingCutShort == Spec => TrainedInFull
<1>1. ASSUME IInv, [Next]_vars, ~enterFreq, enterFreq'
      PROVE  counted + Interval >= StepOut \/ cut
  <2>1. EndTraining
    BY <1>1 DEF Next, vars, history, Monitor, StartCalibration, EndCalibration,
         Second, Discalibrate, BackToFreq, DiscalibrateAgain, TscGoesBack,
         Handler, Measure, Spike, Classify, SelectClock, SelectSync,
         SelectSpik, StartTraining, Train, BackToSync
  <2>2. cut \/ pass = counted
    BY <1>1 DEF IInv, CountedOnly
  <2> QED
    BY <2>1, <2>2 DEF EndTraining
<1> QED
  BY <1>1, Invariance, PTL DEF Spec, TrainedInFull

(* A retraining is lost only to an answer older than it. *)
THEOREM RetrainingNotLost == Spec => RetrainingKept
<1>1. ASSUME IInv, [Next]_vars, nodeState = "FREQ", enterFreq,
             nodeState' # "FREQ"
      PROVE  ~asked
  <2>1. Spike \/ BackToSync
    BY <1>1 DEF Next, vars, history, Monitor, StartCalibration, EndCalibration,
         Second, Discalibrate, BackToFreq, DiscalibrateAgain, TscGoesBack,
         WriteFreq, Handler, Measure, Classify, SelectClock, SelectSync,
         SelectSpik, StartTraining, Train, EndTraining
  <2>2. recv \in {"spike", "sync"}
    BY <2>1 DEF Spike, BackToSync
  <2> QED
    BY <1>1, <2>2 DEF IInv, AskedInFreq
<1> QED
  BY <1>1, Invariance, PTL DEF Spec, RetrainingKept

-----------------------------------------------------------------------------
(* The state is well formed.  What could be wrong is poll_count: it is     *)
(* compared with the interval for equality, by the monitor thread, while   *)
(* the receive thread changes the interval.                                *)
PollInv == TypeOK /\ poll \in {FirstPoll, MinPoll}

LEMMA IntervalGrows ==
  ASSUME PollInv
  PROVE  /\ Interval \in Nat /\ Interval > 0 /\ Interval <= 2^MinPoll
         /\ 2^MinPoll \in Nat /\ pollCount \in 0 .. Interval - 1
  BY PollAssumption DEF PollInv, TypeOK, Interval

LEMMA PollInvInit == Init => PollInv
<1> SUFFICES ASSUME Init PROVE PollInv
  OBVIOUS
<1>1. pollCount \in 0 .. 2^poll - 1
  BY PollAssumption DEF Init
<1>2. poll \in Nat /\ flight \in 0 .. MaxFlight /\ pass \in Nat
  BY ConstantAssumption DEF Init
<1> QED
  BY <1>1, <1>2 DEF Init, PollInv, TypeOK

LEMMA MonitorTyped ==
  ASSUME PollInv, Monitor
  PROVE  PollInv'
<1> USE DEF PollInv, TypeOK, history
<1>1. ASSUME Ask PROVE flight' \in 0 .. MaxFlight
  BY <1>1 DEF Ask
<1>2. CASE StartCalibration
  BY <1>2 DEF StartCalibration
<1>3. CASE EndCalibration
  BY <1>1, <1>3 DEF EndCalibration
<1>4. CASE Second
  <2>1. pollCount' \in 0 .. 2^poll - 1
    BY <1>4, IntervalGrows DEF Second, Interval
  <2>2. flight' \in 0 .. MaxFlight
    BY <1>1, <1>4 DEF Second
  <2> QED
    BY <1>4, <2>1, <2>2 DEF Second
<1>5. CASE Discalibrate
  BY <1>5 DEF Discalibrate
<1>6. CASE BackToFreq
  BY <1>6 DEF BackToFreq, WriteFreq
<1>7. CASE DiscalibrateAgain
  BY <1>7 DEF DiscalibrateAgain, WriteFreq
<1>8. CASE TscGoesBack
  BY <1>8 DEF TscGoesBack
<1> QED
  BY <1>2, <1>3, <1>4, <1>5, <1>6, <1>7, <1>8 DEF Monitor

LEMMA SelectTyped ==
  ASSUME PollInv, SelectClock
  PROVE  PollInv'
<1> USE DEF PollInv, TypeOK, history
<1>1. {Interval, pass + Interval, counted + Interval} \subseteq Nat
  BY IntervalGrows
<1>2. CASE SelectSync
  BY <1>2 DEF SelectSync, SelectClock
<1>3. CASE SelectSpik
  <2>1. /\ recv' \in {"sync", "idle"} /\ pass' \in Nat
        /\ offset' \in Offsets \cup {0}
    BY <1>1, <1>3 DEF SelectSpik
  <2> QED
    BY <1>3, <2>1 DEF SelectSpik, SelectClock
<1>4. CASE StartTraining
  BY <1>1, <1>4 DEF StartTraining, SelectClock
<1>5. CASE Train
  BY <1>1, <1>5 DEF Train, SelectClock
<1>6. CASE EndTraining
  <2>1. pollCount' \in 0 .. 2^poll' - 1
    <3>1. pollCount' = pollCount /\ poll' = MinPoll
      BY <1>6 DEF EndTraining, SelectClock
    <3>2. pollCount \in 0 .. 2^MinPoll - 1
      BY IntervalGrows
    <3> QED
      BY <3>1, <3>2
  <2>2. poll' \in Nat /\ poll' \in {FirstPoll, MinPoll}
    BY <1>6, ConstantAssumption DEF EndTraining
  <2> QED
    BY <1>6, <2>1, <2>2 DEF EndTraining, SelectClock
<1> QED
  BY <1>2, <1>3, <1>4, <1>5, <1>6 DEF SelectClock

LEMMA HandlerTyped ==
  ASSUME PollInv, Handler
  PROVE  PollInv'
<1> USE DEF PollInv, TypeOK, history
<1>1. CASE Measure
  <2>1. /\ offset' \in Offsets /\ recv' \in {"spike", "classify"}
        /\ flight' \in 0 .. MaxFlight
    BY <1>1, ConstantAssumption DEF Measure
  <2> QED
    BY <1>1, <2>1 DEF Measure
<1>2. CASE Spike
  BY <1>2 DEF Spike
<1>3. CASE Classify
  <2>1. clockState' \in {"consistent", "inconsistent"}
    BY <1>3 DEF Classify
  <2> QED
    BY <1>3, <2>1 DEF Classify
<1>4. CASE SelectClock
  BY <1>4, SelectTyped
<1>5. CASE BackToSync
  BY <1>5 DEF BackToSync
<1> QED
  BY <1>1, <1>2, <1>3, <1>4, <1>5 DEF Handler

(* poll_count never gets past the interval, at which it starts anew.       *)
THEOREM WellTyped == Spec => []TypeOK
<1>1. PollInv /\ [Next]_vars => PollInv'
  <2>1. ASSUME PollInv, UNCHANGED vars PROVE PollInv'
    BY <2>1 DEF vars, history, PollInv, TypeOK
  <2> QED
    BY <2>1, MonitorTyped, HandlerTyped DEF Next
<1>2. PollInv => TypeOK
  BY DEF PollInv
<1> QED
  BY <1>1, <1>2, PollInvInit, PTL DEF Spec
=============================================================================
