--------------------------- MODULE RetaintProofs ---------------------------
(***************************************************************************)
(* An AEX at any step of an untainting, in either build: tainted_mutex has *)
(* one holder (TypeOK), the loop of requests does not end with an AEX      *)
(* forgotten (LoopEndsAnswered), and a monitor thread that locked itself   *)
(* out leaves its node tainted for ever, so that TaintIsAnswered has to    *)
(* make that exception.                                                    *)
(***************************************************************************)
EXTENDS Retaint, TLAPS

(* Only a build without AEX Notify finds gaps in the TSC. *)
GapsAreUnnotified == monitor = "taint" => ~notify

(* While refresh awaits answers to a round, or is about to compare the     *)
(* count, a taint the count does not show yet is there to be counted, or   *)
(* is in force with nobody about to clear it.  LoopEndsAnswered speaks of  *)
(* the comparison only, and of the taint but not of who is clearing it.    *)
Remembered ==
  notify /\ due /\ ~moved /\ refresh \in {"wait", "test"} =>
    handler = "count" \/ (tainted /\ recv # "clear")

Kept == TypeOK /\ GapsAreUnnotified /\ Remembered

(* The initial state satisfies the invariant. *)
LEMMA KeptAtFirst == Init => Kept
  BY DEF Init, Kept, TypeOK, Requesting, GapsAreUnnotified, Remembered

(* The monitor thread and the handler on it: who taints by an AEX is about *)
(* to count it, and who taints in the mutex shuts the receive thread out.  *)
LEMMA MonitorSteps ==
  ASSUME Kept, Monitor
  PROVE  Kept'
<1> USE DEF Kept, TypeOK, Requesting
<1>1. CASE Aex
  <2>1. TypeOK'
    BY <1>1 DEF Aex
  <2>2. GapsAreUnnotified' /\ Remembered'
    BY <1>1 DEF Aex, GapsAreUnnotified, Remembered
  <2> QED
    BY <2>1, <2>2
<1>2. CASE AexCount
  <2>1. TypeOK'
    BY <1>2 DEF AexCount
  <2>2. GapsAreUnnotified' /\ Remembered'
    BY <1>2 DEF AexCount, GapsAreUnnotified, Remembered
  <2> QED
    BY <2>1, <2>2
<1>3. CASE AexSignal
  <2>1. TypeOK'
    BY <1>3 DEF AexSignal, Signal
  <2>2. GapsAreUnnotified' /\ Remembered'
    BY <1>3 DEF AexSignal, Signal, GapsAreUnnotified, Remembered
  <2> QED
    BY <2>1, <2>2
<1>4. CASE GapCount
  <2>1. TypeOK'
    BY <1>4 DEF GapCount, Running
  <2>2. GapsAreUnnotified' /\ Remembered'
    BY <1>4 DEF GapCount, Running, GapsAreUnnotified, Remembered
  <2> QED
    BY <2>1, <2>2
<1>5. CASE GapTaint
  <2>1. TypeOK'
    BY <1>5 DEF GapTaint, Running
  <2>2. GapsAreUnnotified' /\ Remembered'
    BY <1>5 DEF GapTaint, Running, GapsAreUnnotified, Remembered
  <2> QED
    BY <2>1, <2>2
<1>6. CASE SelfTaint
  <2>1. TypeOK'
    BY <1>6 DEF SelfTaint, Running
  <2>2. GapsAreUnnotified' /\ Remembered'
    BY <1>6 DEF SelfTaint, Running, GapsAreUnnotified, Remembered
  <2> QED
    BY <2>1, <2>2
<1>7. CASE SelfTaintLock
  <2>1. TypeOK'
    BY <1>7 DEF SelfTaintLock, Running
  <2>2. GapsAreUnnotified' /\ Remembered'
    BY <1>7 DEF SelfTaintLock, Running, GapsAreUnnotified, Remembered
  <2> QED
    BY <2>1, <2>2
<1>8. CASE SelfTaintUnlock
  <2>1. TypeOK'
    BY <1>8 DEF SelfTaintUnlock, Signal, Running
  <2>2. GapsAreUnnotified' /\ Remembered'
    BY <1>8 DEF SelfTaintUnlock, Signal, Running, GapsAreUnnotified, Remembered
  <2> QED
    BY <2>1, <2>2
<1>9. CASE Calibrate
  <2>1. TypeOK'
    BY <1>9 DEF Calibrate, Running
  <2>2. GapsAreUnnotified' /\ Remembered'
    BY <1>9 DEF Calibrate, Running, GapsAreUnnotified, Remembered
  <2> QED
    BY <2>1, <2>2
<1> QED
  BY <1>1, <1>2, <1>3, <1>4, <1>5, <1>6, <1>7, <1>8, <1>9 DEF Monitor

(* The receive thread: the decision takes a taint off the account before   *)
(* the other step clears it.                                               *)
LEMMA ReceiveSteps ==
  ASSUME Kept, Receive
  PROVE  Kept'
<1> USE DEF Kept, TypeOK, Requesting
<1>1. CASE RecvLock
  <2>1. TypeOK'
    BY <1>1 DEF RecvLock
  <2>2. GapsAreUnnotified' /\ Remembered'
    BY <1>1 DEF RecvLock, GapsAreUnnotified, Remembered
  <2> QED
    BY <2>1, <2>2
<1>2. CASE RecvDecide
  <2>1. TypeOK'
    <3>1. owner = "recv" /\ monitor # "held"
      BY <1>2 DEF RecvDecide
    <3>2. recv' # "idle" /\ recv' \in {"held", "clear", "unlock"}
      BY <1>2 DEF RecvDecide
    <3>3. due' \in BOOLEAN /\ tainted' \in BOOLEAN
      BY <1>2 DEF RecvDecide
    <3> QED
      BY <1>2, <3>1, <3>2, <3>3 DEF RecvDecide
  <2>2. GapsAreUnnotified' /\ Remembered'
    BY <1>2 DEF RecvDecide, GapsAreUnnotified, Remembered
  <2> QED
    BY <2>1, <2>2
<1>3. CASE RecvClear
  <2>1. TypeOK'
    <3>1. owner = "recv" /\ monitor # "held"
      BY <1>3 DEF RecvClear
    <3>2. recv' # "idle" /\ recv' \in {"held", "clear", "unlock"}
      BY <1>3 DEF RecvClear
    <3>3. due' \in BOOLEAN /\ tainted' \in BOOLEAN
      BY <1>3 DEF RecvClear
    <3> QED
      BY <1>3, <3>1, <3>2, <3>3 DEF RecvClear
  <2>2. GapsAreUnnotified' /\ Remembered'
    BY <1>3 DEF RecvClear, GapsAreUnnotified, Remembered
  <2> QED
    BY <2>1, <2>2
<1>4. CASE RecvUnlock
  <2>1. TypeOK'
    BY <1>4 DEF RecvUnlock
  <2>2. GapsAreUnnotified' /\ Remembered'
    BY <1>4 DEF RecvUnlock, GapsAreUnnotified, Remembered
  <2> QED
    BY <2>1, <2>2
<1> QED
  BY <1>1, <1>2, <1>3, <1>4 DEF Receive

(* The refresh thread: a round of requests answers every earlier taint.    *)
LEMMA RefreshSteps ==
  ASSUME Kept, Refresh
  PROVE  Kept'
<1> USE DEF Kept, TypeOK, Requesting
<1>1. CASE RefreshLoop
  <2>1. TypeOK'
    BY <1>1 DEF RefreshLoop, RefreshGoes
  <2>2. GapsAreUnnotified' /\ Remembered'
    BY <1>1 DEF RefreshLoop, RefreshGoes, GapsAreUnnotified, Remembered
  <2> QED
    BY <2>1, <2>2
<1>2. CASE RefreshWait
  <2>1. TypeOK'
    BY <1>2 DEF RefreshWait, RefreshGoes
  <2>2. GapsAreUnnotified' /\ Remembered'
    BY <1>2 DEF RefreshWait, RefreshGoes, GapsAreUnnotified, Remembered
  <2> QED
    BY <2>1, <2>2
<1>3. CASE RefreshWoken
  <2>1. TypeOK'
    BY <1>3 DEF RefreshWoken, RefreshGoes
  <2>2. GapsAreUnnotified' /\ Remembered'
    BY <1>3 DEF RefreshWoken, RefreshGoes, GapsAreUnnotified, Remembered
  <2> QED
    BY <2>1, <2>2
<1>4. CASE RefreshRead
  <2>1. TypeOK'
    BY <1>4 DEF RefreshRead, RefreshGoes
  <2>2. GapsAreUnnotified' /\ Remembered'
    BY <1>4 DEF RefreshRead, RefreshGoes, GapsAreUnnotified, Remembered
  <2> QED
    BY <2>1, <2>2
<1>5. CASE RefreshWaited
  <2>1. TypeOK'
    BY <1>5 DEF RefreshWaited, RefreshGoes
  <2>2. GapsAreUnnotified' /\ Remembered'
    BY <1>5 DEF RefreshWaited, RefreshGoes, GapsAreUnnotified, Remembered
  <2> QED
    BY <2>1, <2>2
<1>6. CASE RefreshTest
  <2>1. TypeOK'
    BY <1>6 DEF RefreshTest, RefreshGoes
  <2>2. GapsAreUnnotified' /\ Remembered'
    BY <1>6 DEF RefreshTest, RefreshGoes, GapsAreUnnotified, Remembered
  <2> QED
    BY <2>1, <2>2
<1> QED
  BY <1>1, <1>2, <1>3, <1>4, <1>5, <1>6 DEF Refresh

(* The untaint trigger and the thread that stops the node. *)
LEMMA OtherSteps ==
  ASSUME Kept, TriggerSignal \/ Stop \/ StopSignal
  PROVE  Kept'
<1> USE DEF Kept, TypeOK, Requesting, Signal
<1>1. CASE TriggerSignal
  <2>1. TypeOK'
    BY <1>1 DEF TriggerSignal
  <2>2. GapsAreUnnotified' /\ Remembered'
    BY <1>1 DEF TriggerSignal, GapsAreUnnotified, Remembered
  <2> QED
    BY <2>1, <2>2
<1>2. CASE Stop
  <2>1. TypeOK'
    BY <1>2 DEF Stop
  <2>2. GapsAreUnnotified' /\ Remembered'
    BY <1>2 DEF Stop, GapsAreUnnotified, Remembered
  <2> QED
    BY <2>1, <2>2
<1>3. CASE StopSignal
  <2>1. TypeOK'
    BY <1>3 DEF StopSignal
  <2>2. GapsAreUnnotified' /\ Remembered'
    BY <1>3 DEF StopSignal, GapsAreUnnotified, Remembered
  <2> QED
    BY <2>1, <2>2
<1> QED
  BY <1>1, <1>2, <1>3

(* The invariant holds in every reachable state of either build. *)
LEMMA AlwaysKept == Spec => []Kept
<1>1. Kept /\ [Next]_vars => Kept'
  <2> SUFFICES ASSUME Kept, [Next]_vars
               PROVE  Kept'
    OBVIOUS
  <2>1. CASE Monitor
    BY <2>1, MonitorSteps
  <2>2. CASE Receive
    BY <2>2, ReceiveSteps
  <2>3. CASE Refresh
    BY <2>3, RefreshSteps
  <2>4. CASE TriggerSignal \/ Stop \/ StopSignal
    BY <2>4, OtherSteps
  <2>5. CASE UNCHANGED vars
    BY <2>5 DEF vars, Kept, TypeOK, Requesting, GapsAreUnnotified,
                Remembered
  <2> QED
    BY <2>1, <2>2, <2>3, <2>4, <2>5 DEF Next
<1> QED
  BY <1>1, KeptAtFirst, PTL DEF Spec

(* The monitor thread taints its node, and the receive thread untaints it, *)
(* one at a time, wherever an AEX interrupts them.                         *)
THEOREM MutexHeld == Spec => []TypeOK
<1>1. Kept => TypeOK
  BY DEF Kept
<1> QED
  BY <1>1, AlwaysKept, PTL

(* With AEX Notify, when the loop of requests ends no AEX is left without  *)
(* taint, round and decision, but one that is about to be counted.         *)
THEOREM EndsAnswered == Spec => LoopEndsAnswered
<1>1. Kept /\ [Next]_vars =>
        [notify /\ refresh = "test" /\ refresh' = "loop" /\ ~stop /\ due =>
           tainted \/ handler = "count"]_vars
  <2> SUFFICES ASSUME Kept, Next, notify, refresh = "test",
                      refresh' = "loop", ~stop, due
               PROVE  tainted \/ handler = "count"
    OBVIOUS
  <2>1. RefreshTest
    <3>1. ~Receive /\ ~Stop
      BY DEF Receive, RecvLock, RecvDecide, RecvClear, RecvUnlock,
             Stop
    <3>2. ~TriggerSignal /\ ~StopSignal
      BY DEF TriggerSignal, StopSignal, Signal
    <3>3. ~Monitor
      BY DEF Monitor, Aex, AexCount, AexSignal, GapCount,
             GapTaint, SelfTaint, SelfTaintLock, SelfTaintUnlock,
             Calibrate, Signal
    <3>4. Refresh
      BY <3>1, <3>2, <3>3 DEF Next
    <3> QED
      BY <3>4 DEF Refresh, RefreshLoop, RefreshWait, RefreshWoken,
                  RefreshRead, RefreshWaited, RefreshGoes
  <2>2. ~moved
    BY <2>1 DEF RefreshTest, RefreshGoes
  <2> QED
    BY <2>2 DEF Kept, Remembered
<1> QED
  BY <1>1, AlwaysKept, PTL DEF Spec, LoopEndsAnswered

-----------------------------------------------------------------------------
(* The monitor thread holds the mutex from its own taint on. *)
HeldTainted == monitor = "held" => tainted

(* With the mutex held by the monitor thread nobody clears the taint. *)
LEMMA HeldTaintedKept ==
  ASSUME TypeOK, HeldTainted, Next
  PROVE  HeldTainted'
<1> USE DEF HeldTainted
<1>1. CASE Monitor
  BY <1>1 DEF Monitor, Aex, AexCount, AexSignal, GapCount, GapTaint, SelfTaint,
              SelfTaintLock, SelfTaintUnlock, Calibrate, Running
<1>2. CASE Receive
  BY <1>2 DEF Receive, RecvLock, RecvDecide, RecvClear, RecvUnlock, TypeOK
<1>3. CASE Refresh
  BY <1>3 DEF Refresh, RefreshLoop, RefreshWait, RefreshWoken, RefreshRead,
              RefreshWaited, RefreshTest, RefreshGoes
<1>4. CASE TriggerSignal \/ Stop \/ StopSignal
  BY <1>4 DEF TriggerSignal, Stop, StopSignal
<1> QED
  BY <1>1, <1>2, <1>3, <1>4 DEF Next

(* Neither the handler nor the thread under it can go on. *)
LEMMA SelfLockedKept ==
  ASSUME TypeOK, SelfLocked, Next
  PROVE  SelfLocked'
<1>1. handler = "lock" /\ monitor = "held" /\ owner = "monitor"
  BY DEF SelfLocked, TypeOK
<1> USE <1>1 DEF SelfLocked
<1>2. CASE Monitor
  BY <1>2 DEF Monitor, Aex, AexCount, AexSignal, GapCount, GapTaint, SelfTaint,
              SelfTaintLock, SelfTaintUnlock, Calibrate, Running
<1>3. CASE Receive
  BY <1>3 DEF Receive, RecvLock, RecvDecide, RecvClear, RecvUnlock
<1>4. CASE Refresh
  BY <1>4 DEF Refresh, RefreshLoop, RefreshWait, RefreshWoken, RefreshRead,
              RefreshWaited, RefreshTest, RefreshGoes
<1>5. CASE TriggerSignal \/ Stop \/ StopSignal
  BY <1>5 DEF TriggerSignal, Stop, StopSignal
<1> QED
  BY <1>2, <1>3, <1>4, <1>5 DEF Next

(* An AEX that hits the monitor thread while it taints its own node        *)
(* (lines 134 and 979) ends the service of the node: the handler waits for *)
(* ever, and nothing clears the taint any more.                            *)
THEOREM TaintedForGood == Spec => [](SelfLocked => [](SelfLocked /\ tainted))
<1>1. Init => HeldTainted
  BY DEF Init, HeldTainted
<1>2. TypeOK /\ HeldTainted /\ [Next]_vars => HeldTainted'
  BY HeldTaintedKept DEF HeldTainted, vars
<1>3. TypeOK /\ SelfLocked /\ [Next]_vars => SelfLocked'
  BY SelfLockedKept DEF SelfLocked, vars
<1>4. HeldTainted /\ SelfLocked => tainted
  BY DEF HeldTainted, SelfLocked
<1> QED
  BY <1>1, <1>2, <1>3, <1>4, MutexHeld, PTL DEF Spec
=============================================================================
