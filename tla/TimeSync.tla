----------------------------- MODULE TimeSync -----------------------------
(***************************************************************************)
(* How one node follows the time authority (ENode.cpp): the monitor thread *)
(* calibrates its counter, notices that it is off, and sends a request D   *)
(* every 2^poll_exponent seconds; the receive thread takes the answers,    *)
(* measures the offset and runs the states FREQ (training of the TSC       *)
(* frequency), SYNC and SPIK.  The two threads share node_state and        *)
(* calib_count without a lock, so every read that decides and every write  *)
(* is a step of its own.                                                   *)
(*                                                                         *)
(* An offset is an input, in microseconds: the authority's time minus the  *)
(* node's.                                                                 *)
(***************************************************************************)
EXTENDS Integers

CONSTANTS
  Offsets,        \* the offsets a node may measure
  StepThreshold,  \* STEP_THRESHOLD_NS
  ClockFloor,     \* CLOCK_FLOOR_NS
  StepOut,        \* STEP_OUT_THRESHOLD_S
  MaxDriftRate,   \* MAX_DRIFT_RATE, in microseconds per second
  FirstPoll,      \* the initial poll_exponent
  MinPoll,        \* MIN_POLL_EXPONENT
  MaxFlight       \* bound: answers on their way

ASSUME OffsetAssumption == Offsets \subseteq Int
ASSUME ConstantAssumption ==
  /\ StepThreshold \in Int /\ ClockFloor \in Int /\ StepOut \in Nat
  /\ MaxDriftRate \in Nat /\ FirstPoll \in Nat /\ MinPoll \in Nat
  /\ MaxFlight \in Nat

(* The interval does not shrink (2 and 6, lines 256 and ENode.h 178): ntp  *)
(* compares poll_count with it for equality.                               *)
ASSUME PollAssumption ==
  /\ {2^FirstPoll, 2^MinPoll} \subseteq Nat \ {0}
  /\ 2^FirstPoll <= 2^MinPoll

VARIABLES
  nodeState,   \* node_state
  clockState,  \* clock_state
  calib,       \* calib_count
  pass,        \* pass_count, static in select_clock
  enterFreq,   \* enter_freq, static in select_clock
  poll,        \* poll_exponent
  pollCount,   \* poll_count, static in ntp
  offset,      \* clock_offset
  monitor,     \* where the monitor thread is
  recv,        \* where the receive thread is in the handler of D
  flight,      \* answers on their way
  freqDone,    \* history: a training has been completed
  counted,     \* history: the seconds counted in the training under way
  cut,         \* history: FREQ was written in SPIK, with its time counted
  asked        \* history: FREQ was there when the last answer was measured

history == <<freqDone, counted, cut, asked>>

vars == <<nodeState, clockState, calib, pass, enterFreq, poll, pollCount,
          offset, monitor, recv, flight, history>>

TypeOK ==
  /\ nodeState \in {"FREQ", "SYNC", "SPIK"}
  /\ clockState \in {"consistent", "inconsistent"}
  /\ calib \in BOOLEAN /\ enterFreq \in BOOLEAN
  /\ pass \in Nat /\ poll \in Nat /\ pollCount \in 0 .. 2^poll - 1
  /\ offset \in Offsets \cup {0}
  /\ monitor \in {"round", "calibrate", "discalibrated"}
  /\ recv \in {"idle", "spike", "classify", "select", "sync"}
  /\ flight \in 0 .. MaxFlight
  /\ freqDone \in BOOLEAN /\ counted \in Nat
  /\ cut \in BOOLEAN /\ asked \in BOOLEAN

Init ==
  /\ nodeState = "FREQ" /\ clockState = "inconsistent" /\ calib = FALSE
  /\ pass = 0 /\ enterFreq = TRUE /\ poll = FirstPoll /\ pollCount = 0
  /\ offset = 0 /\ monitor = "round" /\ recv = "idle" /\ flight = 0
  /\ freqDone = FALSE /\ counted = 0 /\ cut = FALSE /\ asked = FALSE

Interval == 2^poll

-----------------------------------------------------------------------------
(* The monitor thread.  A request that is sent is answered, or lost. *)

Ask == flight' \in {flight} \cup ({flight + 1} \cap (0 .. MaxFlight))

StartCalibration ==
  /\ monitor = "round" /\ ~calib
  /\ monitor' = "calibrate"
  /\ UNCHANGED <<nodeState, clockState, calib, pass, enterFreq, poll,
                 pollCount, offset, recv, flight, history>>

EndCalibration ==
  /\ monitor = "calibrate"
  /\ monitor' = "round" /\ calib' = TRUE
  /\ Ask
  /\ UNCHANGED <<nodeState, clockState, pass, enterFreq, poll, pollCount,
                 offset, recv, history>>

(* Mutant: ntp does not start to count anew. *)
SecondKeepsCount ==
  /\ monitor = "round" /\ calib
  /\ pollCount' = pollCount + 1
  /\ IF pollCount' = Interval THEN Ask ELSE UNCHANGED flight
  /\ UNCHANGED <<nodeState, clockState, calib, pass, enterFreq, poll, offset,
                 monitor, recv, history>>

(* Two rounds, one second: ntp. *)
Second ==
  /\ monitor = "round" /\ calib
  /\ IF pollCount + 1 = Interval
       THEN pollCount' = 0 /\ Ask
       ELSE pollCount' = pollCount + 1 /\ UNCHANGED flight
  /\ UNCHANGED <<nodeState, clockState, calib, pass, enterFreq, poll, offset,
                 monitor, recv, history>>

(* The time of a spike that is cut short goes into the training: nothing   *)
(* resets pass_count on this way into FREQ.                                *)
WriteFreq ==
  /\ nodeState' = "FREQ"
  /\ cut' = (cut \/ (nodeState = "SPIK" /\ pass > 0))
  /\ UNCHANGED <<freqDone, counted, asked>>

(* The counter is off by more than 5% in a round without AEX, be it one of *)
(* the rounds of a calibration.                                            *)
Discalibrate ==
  /\ monitor = "round" /\ calib
  /\ monitor' = "discalibrated" /\ calib' = FALSE
  /\ UNCHANGED <<nodeState, clockState, pass, enterFreq, poll, pollCount,
                 offset, recv, flight, history>>

BackToFreq ==
  /\ monitor = "discalibrated"
  /\ monitor' = "round" /\ WriteFreq
  /\ UNCHANGED <<clockState, calib, pass, enterFreq, poll, pollCount, offset,
                 recv, flight>>

DiscalibrateAgain ==
  /\ monitor = "calibrate"
  /\ calib' = FALSE /\ WriteFreq
  /\ UNCHANGED <<clockState, pass, enterFreq, poll, pollCount, offset, monitor,
                 recv, flight>>

(* In the build without AEX-Notify it is a TSC that runs backwards.         *)
TscGoesBack ==
  /\ monitor = "round" /\ calib
  /\ calib' = FALSE
  /\ UNCHANGED <<nodeState, clockState, pass, enterFreq, poll, pollCount,
                 offset, monitor, recv, flight, history>>

Monitor ==
  \/ StartCalibration \/ EndCalibration \/ Second \/ Discalibrate
  \/ BackToFreq \/ DiscalibrateAgain \/ TscGoesBack

-----------------------------------------------------------------------------
(* The receive thread: the handler of D *)

(* Mutant: the test of the state is dropped. *)
IsSpikeAnywhere(o) == o >= StepThreshold

IsSpike(o) == nodeState = "SYNC" /\ o >= StepThreshold

(* The answer may come once more, if the network duplicates it. *)
Measure ==
  /\ recv = "idle" /\ flight > 0
  /\ flight' \in {flight, flight - 1}
  /\ \E o \in Offsets :
       offset' = o /\ recv' = IF IsSpike(o) THEN "spike" ELSE "classify"
  /\ asked' = (nodeState = "FREQ")
  /\ UNCHANGED <<nodeState, clockState, calib, pass, enterFreq, poll,
                 pollCount, monitor, freqDone, counted, cut>>

Spike ==
  /\ recv = "spike"
  /\ recv' = "classify" /\ nodeState' = "SPIK"
  /\ UNCHANGED <<clockState, calib, pass, enterFreq, poll, pollCount, offset,
                 monitor, flight, history>>

Near(o) == LET bound == MaxDriftRate * Interval IN -bound <= o /\ o <= bound

(* Mutant: the test of the state is dropped. *)
ClassifyAlways ==
  /\ recv = "classify"
  /\ recv' = "select"
  /\ clockState' = IF Near(offset) THEN "consistent" ELSE "inconsistent"
  /\ UNCHANGED <<nodeState, calib, pass, enterFreq, poll, pollCount, offset,
                 monitor, flight, history>>

Classify ==
  /\ recv = "classify"
  /\ recv' = "select"
  /\ clockState' = IF nodeState = "FREQ" THEN clockState
                   ELSE IF Near(offset) THEN "consistent" ELSE "inconsistent"
  /\ UNCHANGED <<nodeState, calib, pass, enterFreq, poll, pollCount, offset,
                 monitor, flight, history>>

(* discipline_clock steps forward only; backwards it slows the clock down. *)
SelectSync ==
  /\ nodeState = "SYNC"
  /\ recv' = "idle"
  /\ offset' = IF offset > 0 THEN 0 ELSE offset
  /\ UNCHANGED <<nodeState, calib, pass, enterFreq, poll, freqDone, counted,
                 cut>>

(* Mutant: pass_count survives a spike that is over. *)
SelectSpikKeepsPass ==
  /\ nodeState = "SPIK"
  /\ IF offset <= ClockFloor
       THEN recv' = "sync" /\ pass' = pass + Interval /\ UNCHANGED offset
     ELSE IF pass + Interval >= StepOut
       THEN recv' = "sync" /\ pass' = 0 /\ offset' = 0
     ELSE recv' = "idle" /\ pass' = pass + Interval /\ UNCHANGED offset
  /\ UNCHANGED <<nodeState, calib, enterFreq, poll, freqDone, counted, cut>>

SelectSpik ==
  /\ nodeState = "SPIK"
  /\ IF offset <= ClockFloor
       THEN recv' = "sync" /\ pass' = 0 /\ UNCHANGED offset
     ELSE IF pass + Interval >= StepOut
       THEN recv' = "sync" /\ pass' = 0 /\ offset' = 0
     ELSE recv' = "idle" /\ pass' = pass + Interval /\ UNCHANGED offset
  /\ UNCHANGED <<nodeState, calib, enterFreq, poll, freqDone, counted, cut>>

StartTraining ==
  /\ nodeState = "FREQ" /\ enterFreq
  /\ recv' = "idle"
  /\ offset' = 0 /\ enterFreq' = FALSE /\ pass' = pass + Interval
  /\ counted' = Interval
  /\ UNCHANGED <<nodeState, calib, poll, freqDone, cut>>

(* Mutant: the time of training is not counted. *)
TrainUncounted ==
  /\ nodeState = "FREQ" /\ ~enterFreq /\ pass + Interval < StepOut
  /\ recv' = "idle"
  /\ UNCHANGED <<nodeState, calib, pass, enterFreq, poll, offset, freqDone,
                 counted, cut>>

Train ==
  /\ nodeState = "FREQ" /\ ~enterFreq /\ pass + Interval < StepOut
  /\ recv' = "idle" /\ pass' = pass + Interval
  /\ counted' = counted + Interval
  /\ UNCHANGED <<nodeState, calib, enterFreq, poll, offset, freqDone, cut>>

EndTraining ==
  /\ nodeState = "FREQ" /\ ~enterFreq /\ pass + Interval >= StepOut
  /\ recv' = "idle"
  /\ offset' = 0 /\ calib' = FALSE /\ pass' = 0 /\ nodeState' = "SYNC"
  /\ poll' = MinPoll /\ enterFreq' = TRUE
  /\ freqDone' = TRUE /\ counted' = 0 /\ cut' = FALSE

SelectClock ==
  /\ recv = "select"
  /\ SelectSync \/ SelectSpik \/ StartTraining \/ Train \/ EndTraining
  /\ UNCHANGED <<clockState, pollCount, monitor, flight, asked>>

BackToSync ==
  /\ recv = "sync"
  /\ recv' = "idle" /\ nodeState' = "SYNC"
  /\ UNCHANGED <<clockState, calib, pass, enterFreq, poll, pollCount, offset,
                 monitor, flight, history>>

Handler == Measure \/ Spike \/ Classify \/ SelectClock \/ BackToSync

Next == Monitor \/ Handler

Spec == Init /\ [][Next]_vars

(* Fairness: both threads run, and of the requests that are sent again and *)
(* again some are answered.                                                *)
Answered == (EndCalibration \/ Second) /\ flight' > flight

Fairness ==
  /\ WF_vars(StartCalibration \/ EndCalibration \/ Second \/ BackToFreq)
  /\ SF_vars(Answered)
  /\ WF_vars(Handler)

FairSpec == Spec /\ Fairness
-----------------------------------------------------------------------------
(* What get_timestamp waits for, as far as the authority is concerned. *)
Serving == calib /\ clockState = "consistent"

(* No client obtains a timestamp before the node's frequency was trained:  *)
(* the first one comes "shortly after a successful FREQ phase".            *)
ServesAfterTraining == Serving => freqDone

(* A training that began is not abandoned, whatever the monitor writes     *)
(* while the receive thread is in its handler.                             *)
TrainingNotAbandoned == ~enterFreq => nodeState = "FREQ"

(* A training that ends has counted the step-out threshold itself, and no  *)
(* time of a spike before it, unless the monitor cut that spike short.     *)
TrainedInFull ==
  [][~enterFreq /\ enterFreq' => counted + Interval >= StepOut \/ cut]_vars

(* A training the monitor asks for is lost only to an answer that was      *)
(* measured before the monitor wrote FREQ: no later answer takes the node  *)
(* out of FREQ untrained.                                                  *)
RetrainingKept ==
  [][nodeState = "FREQ" /\ enterFreq /\ nodeState' # "FREQ" => ~asked]_vars

(* The node gets back to SYNC, as long as the authority answers.           *)
ReachesSync == nodeState # "SYNC" ~> nodeState = "SYNC"
=============================================================================
