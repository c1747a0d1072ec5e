-------------------------- MODULE ShutdownProofs --------------------------
(***************************************************************************)
(* In either build: the mutex has one holder, whichever thread an AEX      *)
(* interrupts (the last conjuncts of TypeOK), stopping a node is stuck in  *)
(* two ways at most (NeverStuck), and in both for ever.                    *)
(***************************************************************************)
EXTENDS Shutdown, TLAPS

(* What the joins are for. *)
DestroyedLast == user = "destroyed" => AllDone

IInv == TypeOK /\ DestroyedLast

(* The initial state satisfies the invariant. *)
LEMMA Initially == Init => IInv
  BY DEF Init, IInv, TypeOK, Switches, Places, MutexOwned, DestroyedLast, Flag

(* The monitor thread, with the AEX handler on it. *)
LEMMA MonitorKeeps ==
  ASSUME IInv, Monitor
  PROVE  IInv'
<1> USE DEF IInv, TypeOK, Flag, Signal
<1>1. CASE MonitorRound
  <2>1. Switches' /\ (flags \subseteq Flag)'
    BY <1>1 DEF MonitorRound, Switches
  <2>2. Places' /\ MutexOwned'
    BY <1>1 DEF MonitorRound, Places, MutexOwned
  <2>3. DestroyedLast'
    BY <1>1 DEF MonitorRound, DestroyedLast, AllDone, Places, MutexOwned
  <2> QED
    BY <2>1, <2>2, <2>3
<1>2. CASE SelfTaint
  <2>1. Switches' /\ (flags \subseteq Flag)'
    BY <1>2 DEF SelfTaint, Switches
  <2>2. Places' /\ MutexOwned'
    BY <1>2 DEF SelfTaint, Places, MutexOwned
  <2>3. DestroyedLast'
    BY <1>2 DEF SelfTaint, DestroyedLast, AllDone, Places, MutexOwned
  <2> QED
    BY <2>1, <2>2, <2>3
<1>3. CASE SelfTaintLock
  <2>1. Switches' /\ (flags \subseteq Flag)'
    BY <1>3 DEF SelfTaintLock, Switches
  <2>2. Places' /\ MutexOwned'
    BY <1>3 DEF SelfTaintLock, Places, MutexOwned
  <2>3. DestroyedLast'
    BY <1>3 DEF SelfTaintLock, DestroyedLast, AllDone, Places, MutexOwned
  <2> QED
    BY <2>1, <2>2, <2>3
<1>4. CASE SelfTaintUnlock
  <2>1. Switches' /\ (flags \subseteq Flag)'
    BY <1>4 DEF SelfTaintUnlock, Switches
  <2>2. Places' /\ MutexOwned'
    BY <1>4 DEF SelfTaintUnlock, Places, MutexOwned
  <2>3. DestroyedLast'
    BY <1>4 DEF SelfTaintUnlock, DestroyedLast, AllDone, Places, MutexOwned
  <2> QED
    BY <2>1, <2>2, <2>3
<1>5. CASE MonitorEnd
  <2>1. Switches' /\ (flags \subseteq Flag)'
    BY <1>5 DEF MonitorEnd, Switches
  <2>2. Places' /\ MutexOwned'
    BY <1>5 DEF MonitorEnd, Places, MutexOwned
  <2>3. DestroyedLast'
    BY <1>5 DEF MonitorEnd, DestroyedLast, AllDone, Places, MutexOwned
  <2> QED
    BY <2>1, <2>2, <2>3
<1>6. CASE Aex
  <2>1. Switches' /\ (flags \subseteq Flag)'
    BY <1>6 DEF Aex, Switches
  <2>2. Places' /\ MutexOwned'
    BY <1>6 DEF Aex, Places, MutexOwned
  <2>3. DestroyedLast'
    BY <1>6 DEF Aex, DestroyedLast, AllDone, Places, MutexOwned
  <2> QED
    BY <2>1, <2>2, <2>3
<1>7. CASE AexSignal
  <2>1. Switches' /\ (flags \subseteq Flag)'
    BY <1>7 DEF AexSignal, Switches
  <2>2. Places' /\ MutexOwned'
    BY <1>7 DEF AexSignal, Places, MutexOwned
  <2>3. DestroyedLast'
    BY <1>7 DEF AexSignal, DestroyedLast, AllDone, Places, MutexOwned
  <2> QED
    BY <2>1, <2>2, <2>3
<1> QED
  BY <1>1, <1>2, <1>3, <1>4, <1>5, <1>6, <1>7 DEF Monitor

(* The receive thread, which holds the mutex while it counts an answer. *)
LEMMA ReceiveKeeps ==
  ASSUME IInv, Receive
  PROVE  IInv'
<1> USE DEF IInv, TypeOK, Flag
<1>1. CASE RecvLoop
  <2>1. Switches' /\ (flags \subseteq Flag)'
    BY <1>1 DEF RecvLoop, Switches
  <2>2. Places' /\ MutexOwned'
    BY <1>1 DEF RecvLoop, Places, MutexOwned
  <2>3. DestroyedLast'
    BY <1>1 DEF RecvLoop, DestroyedLast, AllDone, Places, MutexOwned
  <2> QED
    BY <2>1, <2>2, <2>3
<1>2. CASE Recv
  <2>1. Switches' /\ (flags \subseteq Flag)'
    BY <1>2 DEF Recv, Switches
  <2>2. Places' /\ MutexOwned'
    BY <1>2 DEF Recv, Places, MutexOwned
  <2>3. DestroyedLast'
    BY <1>2 DEF Recv, DestroyedLast, AllDone, Places, MutexOwned
  <2> QED
    BY <2>1, <2>2, <2>3
<1>3. CASE RecvLock
  <2>1. Switches' /\ (flags \subseteq Flag)'
    BY <1>3 DEF RecvLock, Switches
  <2>2. Places' /\ MutexOwned'
    BY <1>3 DEF RecvLock, Places, MutexOwned
  <2>3. DestroyedLast'
    BY <1>3 DEF RecvLock, DestroyedLast, AllDone, Places, MutexOwned
  <2> QED
    BY <2>1, <2>2, <2>3
<1>4. CASE RecvUnlock
  <2>1. Switches' /\ (flags \subseteq Flag)'
    BY <1>4 DEF RecvUnlock, Switches
  <2>2. Places' /\ MutexOwned'
    BY <1>4 DEF RecvUnlock, Places, MutexOwned
  <2>3. DestroyedLast'
    BY <1>4 DEF RecvUnlock, DestroyedLast, AllDone, Places, MutexOwned
  <2> QED
    BY <2>1, <2>2, <2>3
<1> QED
  BY <1>1, <1>2, <1>3, <1>4 DEF Receive

(* The refresh thread and the trigger. *)
LEMMA RefreshKeeps ==
  ASSUME IInv, Refresh \/ Trigger
  PROVE  IInv'
<1> USE DEF IInv, TypeOK, Flag, Signal
<1>1. CASE RefreshLoop
  <2>1. Switches' /\ (flags \subseteq Flag)'
    BY <1>1 DEF RefreshLoop, Switches
  <2>2. Places' /\ MutexOwned'
    BY <1>1 DEF RefreshLoop, Places, MutexOwned
  <2>3. DestroyedLast'
    BY <1>1 DEF RefreshLoop, DestroyedLast, AllDone, Places, MutexOwned
  <2> QED
    BY <2>1, <2>2, <2>3
<1>2. CASE RefreshWait
  <2>1. Switches' /\ (flags \subseteq Flag)'
    BY <1>2 DEF RefreshWait, Switches
  <2>2. Places' /\ MutexOwned'
    BY <1>2 DEF RefreshWait, Places, MutexOwned
  <2>3. DestroyedLast'
    BY <1>2 DEF RefreshWait, DestroyedLast, AllDone, Places, MutexOwned
  <2> QED
    BY <2>1, <2>2, <2>3
<1>3. CASE RefreshWoken
  <2>1. Switches' /\ (flags \subseteq Flag)'
    BY <1>3 DEF RefreshWoken, Switches
  <2>2. Places' /\ MutexOwned'
    BY <1>3 DEF RefreshWoken, Places, MutexOwned
  <2>3. DestroyedLast'
    BY <1>3 DEF RefreshWoken, DestroyedLast, AllDone, Places, MutexOwned
  <2> QED
    BY <2>1, <2>2, <2>3
<1>4. CASE RefreshRound
  <2>1. Switches' /\ (flags \subseteq Flag)'
    BY <1>4 DEF RefreshRound, Switches
  <2>2. Places' /\ MutexOwned'
    BY <1>4 DEF RefreshRound, Places, MutexOwned
  <2>3. DestroyedLast'
    BY <1>4 DEF RefreshRound, DestroyedLast, AllDone, Places, MutexOwned
  <2> QED
    BY <2>1, <2>2, <2>3
<1>5. CASE TriggerLoop
  <2>1. Switches' /\ (flags \subseteq Flag)'
    BY <1>5 DEF TriggerLoop, Switches
  <2>2. Places' /\ MutexOwned'
    BY <1>5 DEF TriggerLoop, Places, MutexOwned
  <2>3. DestroyedLast'
    BY <1>5 DEF TriggerLoop, DestroyedLast, AllDone, Places, MutexOwned
  <2> QED
    BY <2>1, <2>2, <2>3
<1>6. CASE TriggerSignal
  <2>1. Switches' /\ (flags \subseteq Flag)'
    BY <1>6 DEF TriggerSignal, Switches
  <2>2. Places' /\ MutexOwned'
    BY <1>6 DEF TriggerSignal, Places, MutexOwned
  <2>3. DestroyedLast'
    BY <1>6 DEF TriggerSignal, DestroyedLast, AllDone, Places, MutexOwned
  <2> QED
    BY <2>1, <2>2, <2>3
<1> QED
  BY <1>1, <1>2, <1>3, <1>4, <1>5, <1>6 DEF Refresh, Trigger

(* The destroying thread: nothing but the joins is in its way. *)
LEMMA UserKeeps ==
  ASSUME IInv, User
  PROVE  IInv'
<1> USE DEF IInv, TypeOK, Flag, Signal
<1>1. CASE StopTasks
  <2>1. Switches' /\ (flags \subseteq Flag)'
    BY <1>1 DEF StopTasks, Switches
  <2>2. Places' /\ MutexOwned'
    BY <1>1 DEF StopTasks, Places, MutexOwned
  <2>3. DestroyedLast'
    BY <1>1 DEF StopTasks, DestroyedLast, AllDone, Places, MutexOwned
  <2> QED
    BY <2>1, <2>2, <2>3
<1>2. CASE StopAwaited
  <2>1. Switches' /\ (flags \subseteq Flag)'
    BY <1>2 DEF StopAwaited, Switches
  <2>2. Places' /\ MutexOwned'
    BY <1>2 DEF StopAwaited, Places, MutexOwned
  <2>3. DestroyedLast'
    BY <1>2 DEF StopAwaited, DestroyedLast, AllDone, Places, MutexOwned
  <2> QED
    BY <2>1, <2>2, <2>3
<1>3. CASE StopSignal
  <2>1. Switches' /\ (flags \subseteq Flag)'
    BY <1>3 DEF StopSignal, Switches
  <2>2. Places' /\ MutexOwned'
    BY <1>3 DEF StopSignal, Places, MutexOwned
  <2>3. DestroyedLast'
    BY <1>3 DEF StopSignal, DestroyedLast, AllDone, Places, MutexOwned
  <2> QED
    BY <2>1, <2>2, <2>3
<1>4. CASE StopRest
  <2>1. Switches' /\ (flags \subseteq Flag)'
    BY <1>4 DEF StopRest, Switches
  <2>2. Places' /\ MutexOwned'
    BY <1>4 DEF StopRest, Places, MutexOwned
  <2>3. DestroyedLast'
    BY <1>4 DEF StopRest, DestroyedLast, AllDone, Places, MutexOwned
  <2> QED
    BY <2>1, <2>2, <2>3
<1>5. CASE StopClose
  <2>1. Switches' /\ (flags \subseteq Flag)'
    BY <1>5 DEF StopClose, Switches
  <2>2. Places' /\ MutexOwned'
    BY <1>5 DEF StopClose, Places, MutexOwned
  <2>3. DestroyedLast'
    BY <1>5 DEF StopClose, DestroyedLast, AllDone, Places, MutexOwned
  <2> QED
    BY <2>1, <2>2, <2>3
<1>6. CASE Destroy
  <2>1. Switches' /\ (flags \subseteq Flag)'
    BY <1>6 DEF Destroy, Switches
  <2>2. Places' /\ MutexOwned'
    BY <1>6 DEF Destroy, Places, MutexOwned
  <2>3. DestroyedLast'
    BY <1>6 DEF Destroy, DestroyedLast, AllDone, Places, MutexOwned
  <2> QED
    BY <2>1, <2>2, <2>3
<1> QED
  BY <1>1, <1>2, <1>3, <1>4, <1>5, <1>6 DEF User

(* The invariant holds in every reachable state of either build. *)
THEOREM Invariance == Spec => []IInv
<1>1. IInv /\ [Next]_vars => IInv'
  <2> SUFFICES ASSUME IInv, [Next]_vars
               PROVE  IInv'
    OBVIOUS
  <2>1. CASE Monitor
    BY <2>1, MonitorKeeps
  <2>2. CASE Receive
    BY <2>2, ReceiveKeeps
  <2>3. CASE Refresh \/ Trigger
    BY <2>3, RefreshKeeps
  <2>4. CASE User
    BY <2>4, UserKeeps
  <2>5. CASE UNCHANGED vars
    BY <2>5 DEF vars, IInv, TypeOK, Switches, Places, MutexOwned,
                DestroyedLast, AllDone
  <2> QED
    BY <2>1, <2>2, <2>3, <2>4, <2>5 DEF Next
<1> QED
  BY <1>1, Initially, PTL DEF Spec

(* tainted_mutex is held by the thread that is in a critical section, and  *)
(* by one at most.                                                         *)
THEOREM MutexHeld == Spec => []TypeOK
<1>1. IInv => TypeOK
  BY DEF IInv
<1> QED
  BY <1>1, Invariance, PTL

(* The joins see to that; it makes the two standstills below final. *)
LEMMA DestroyedAfterThreads == Spec => []DestroyedLast
<1>1. IInv => DestroyedLast
  BY DEF IInv
<1> QED
  BY <1>1, Invariance, PTL
-----------------------------------------------------------------------------
(* That stopping is never stuck but in these two ways.                     *)

(* A thread that is awaited by its flag sets the flag when it ends; who    *)
(* sleeps after the signal of stop_tasks has gone to sleep after it.       *)
Flagged ==
  /\ monitor = "done" => "monitor" \in flags
  /\ trigger = "done" => "trigger" \in flags
SleptInLate ==
  user \in {"rest", "close", "join", "destroyed"} /\ refresh = "asleep" => late

LEMMA FlaggedKept ==
  ASSUME Flagged, Next
  PROVE  Flagged'
<1> USE DEF Flagged
<1>1. CASE Monitor
  BY <1>1 DEF Monitor, MonitorRound, SelfTaint, SelfTaintLock, SelfTaintUnlock,
              MonitorEnd, Aex, AexSignal
<1>2. CASE Receive
  BY <1>2 DEF Receive, RecvLoop, Recv, RecvLock, RecvUnlock
<1>3. CASE Refresh
  BY <1>3 DEF Refresh, RefreshLoop, RefreshWait, RefreshWoken, RefreshRound
<1>4. CASE Trigger
  BY <1>4 DEF Trigger, TriggerLoop, TriggerSignal
<1>5. CASE User
  BY <1>5 DEF User, StopTasks, StopAwaited, StopSignal, StopRest, StopClose,
              Destroy
<1> QED
  BY <1>1, <1>2, <1>3, <1>4, <1>5 DEF Next

LEMMA SleptInLateKept ==
  ASSUME SleptInLate, TypeOK, Next
  PROVE  SleptInLate'
<1> USE DEF SleptInLate, Signal
<1>1. CASE Monitor
  BY <1>1 DEF Monitor, MonitorRound, SelfTaint, SelfTaintLock, SelfTaintUnlock,
              MonitorEnd, Aex, AexSignal
<1>2. CASE Receive
  BY <1>2 DEF Receive, RecvLoop, Recv, RecvLock, RecvUnlock
<1>3. CASE Refresh
  BY <1>3 DEF Refresh, RefreshLoop, RefreshWait, RefreshWoken, RefreshRound,
              TypeOK, Places
<1>4. CASE Trigger
  BY <1>4 DEF Trigger, TriggerLoop, TriggerSignal
<1>5. CASE User
  BY <1>5 DEF User, StopTasks, StopAwaited, StopSignal, StopRest, StopClose,
              Destroy
<1> QED
  BY <1>1, <1>2, <1>3, <1>4, <1>5 DEF Next

(* Who holds the mutex can go on, or has locked itself out; when nobody    *)
(* holds it, only a sleeper and the one who stops can be in the way.       *)
LEMMA SomebodyMoves ==
  ASSUME TypeOK, Flagged, SleptInLate
  PROVE  NeverStuck
<1> SUFFICES ASSUME user \notin {"run", "destroyed"},
                    ~MonitorMoves, ~ReceiveMoves, ~RefreshMoves, ~TriggerMoves,
                    ~SelfLocked, ~Overslept
             PROVE  UserMoves
  BY DEF NeverStuck
<1>1. monitor # "held" /\ recv # "held"
  BY DEF MonitorMoves, ReceiveMoves, SelfLocked
<1>2. Free
  BY <1>1 DEF TypeOK, MutexOwned, Free
<1>3. monitor = "done" /\ recv = "done" /\ trigger = "done"
  BY <1>2 DEF TypeOK, Places, MonitorMoves, ReceiveMoves, TriggerMoves
<1>4. refresh \in {"asleep", "done"}
  BY <1>2 DEF TypeOK, Places, RefreshMoves
<1>5. CASE user \in {"tasks", "signal"}
  BY <1>2, <1>3, <1>5 DEF UserMoves, OneThreadStopped, Flagged
<1>6. CASE user = "rest"
  BY <1>3, <1>6 DEF UserMoves, Flagged
<1>7. CASE user \in {"close", "join"}
  BY <1>3, <1>4, <1>7 DEF UserMoves, AllDone, SleptInLate, Overslept
<1> QED
  BY <1>5, <1>6, <1>7 DEF TypeOK, Places

(* Stopping a node never comes to a standstill but in these two ways. *)
THEOREM NoOtherDeadlock == Spec => []NeverStuck
<1>1. Init => Flagged /\ SleptInLate
  BY DEF Init, Flagged, SleptInLate
<1>2. TypeOK /\ Flagged /\ SleptInLate /\ [Next]_vars => (Flagged /\ SleptInLate)'
  <2>1. UNCHANGED vars /\ Flagged /\ SleptInLate => (Flagged /\ SleptInLate)'
    BY DEF vars, Flagged, SleptInLate
  <2> QED
    BY <2>1, FlaggedKept, SleptInLateKept
<1>3. TypeOK /\ Flagged /\ SleptInLate => NeverStuck
  BY SomebodyMoves
<1> QED
  BY <1>1, <1>2, <1>3, MutexHeld, PTL DEF Spec

(***************************************************************************)
(* Neither way passes: the exceptions that the liveness properties make    *)
(* are ends of the program, not delays.                                    *)
(***************************************************************************)

(* A handler that waits for the mutex its own thread holds waits for ever, *)
(* and the node is never destroyed (lines 134 and 979).                    *)
THEOREM SelfLockedForGood ==
  Spec => [](SelfLocked => [](SelfLocked /\ user # "destroyed"))
<1>1. TypeOK /\ SelfLocked /\ [Next]_vars => SelfLocked'
  <2> SUFFICES ASSUME TypeOK, SelfLocked, [Next]_vars
               PROVE  SelfLocked'
    OBVIOUS
  <2>1. handler = "lock" /\ monitor = "held" /\ owner = "monitor"
    BY DEF SelfLocked, TypeOK, MutexOwned
  <2> USE <2>1 DEF SelfLocked
  <2>2. CASE Monitor
    BY <2>2 DEF Monitor, MonitorRound, SelfTaint, SelfTaintLock,
                SelfTaintUnlock, MonitorEnd, Aex, AexSignal
  <2>3. CASE Receive
    BY <2>3 DEF Receive, RecvLoop, Recv, RecvLock, RecvUnlock
  <2>4. CASE Refresh
    BY <2>4 DEF Refresh, RefreshLoop, RefreshWait, RefreshWoken, RefreshRound
  <2>5. CASE Trigger
    BY <2>5 DEF Trigger, TriggerLoop, TriggerSignal
  <2>6. CASE User
    BY <2>6 DEF User, StopTasks, StopAwaited, StopSignal, StopRest, StopClose,
                Destroy
  <2>7. CASE UNCHANGED vars
    BY <2>7 DEF vars
  <2> QED
    BY <2>2, <2>3, <2>4, <2>5, <2>6, <2>7 DEF Next
<1>2. DestroyedLast /\ SelfLocked => user # "destroyed"
  BY DEF DestroyedLast, AllDone, SelfLocked
<1> QED
  BY <1>1, <1>2, MutexHeld, DestroyedAfterThreads, PTL DEF Spec

(* The refresh thread sleeps, and whoever could signal it has ended. *)
Gone == Overslept /\ trigger = "done" /\ monitor = "done"

(* The handler returns before its thread ends, and late is of the time     *)
(* after the signal of stop_tasks.                                         *)
Past ==
  /\ handler = "lock" => monitor # "done"
  /\ late => user \notin {"run", "tasks", "signal"}

LEMMA PastKept ==
  ASSUME Past, Next
  PROVE  Past'
<1> USE DEF Past
<1>1. CASE Monitor
  BY <1>1 DEF Monitor, MonitorRound, SelfTaint, SelfTaintLock, SelfTaintUnlock,
              MonitorEnd, Aex, AexSignal
<1>2. CASE Receive
  <2>1. UNCHANGED <<monitor, handler, user, late>>
    BY <1>2 DEF Receive, RecvLoop, Recv, RecvLock, RecvUnlock
  <2> QED
    BY <2>1
<1>3. CASE Refresh
  <2>1. UNCHANGED <<monitor, handler, user>>
    BY <1>3 DEF Refresh, RefreshLoop, RefreshWait, RefreshWoken, RefreshRound
  <2>2. CASE UNCHANGED late
    BY <2>1, <2>2
  <2>3. CASE RefreshWait
    <3>1. late' => user \notin {"run", "tasks", "signal"}
      BY <2>3 DEF RefreshWait
    <3> QED
      BY <2>1, <3>1
  <2> QED
    BY <1>3, <2>2, <2>3 DEF Refresh, RefreshLoop, RefreshWoken, RefreshRound
<1>4. CASE Trigger
  BY <1>4 DEF Trigger, TriggerLoop, TriggerSignal
<1>5. CASE User
  BY <1>5 DEF User, StopTasks, StopAwaited, StopSignal, StopRest, StopClose,
              Destroy
<1> QED
  BY <1>1, <1>2, <1>3, <1>4, <1>5 DEF Next

LEMMA GoneKept ==
  ASSUME Past, Gone, Next
  PROVE  Gone'
<1> USE DEF Past, Gone, Overslept
<1>1. CASE Monitor
  BY <1>1 DEF Monitor, MonitorRound, SelfTaint, SelfTaintLock, SelfTaintUnlock,
              MonitorEnd, Aex, AexSignal
<1>2. CASE Receive
  BY <1>2 DEF Receive, RecvLoop, Recv, RecvLock, RecvUnlock
<1>3. CASE Refresh
  BY <1>3 DEF Refresh, RefreshLoop, RefreshWait, RefreshWoken, RefreshRound
<1>4. CASE Trigger
  BY <1>4 DEF Trigger, TriggerLoop, TriggerSignal
<1>5. CASE User
  BY <1>5 DEF User, StopTasks, StopAwaited, StopSignal, StopRest, StopClose,
              Destroy
<1> QED
  BY <1>1, <1>2, <1>3, <1>4, <1>5 DEF Next

(* A refresh thread that went to sleep after the signal of stop_tasks, and *)
(* outlived the monitor and the trigger, sleeps for ever, and the join of  *)
(* destroy_instance waits with it (lines 212 and 320, Node.cpp 284).       *)
THEOREM OversleptForGood ==
  Spec => [](Gone => [](Gone /\ user # "destroyed"))
<1>1. Init => Past
  BY DEF Init, Past
<1>2. Past /\ [Next]_vars => Past'
  BY PastKept DEF Past, vars
<1>3. Past /\ Gone /\ [Next]_vars => Gone'
  BY GoneKept DEF Gone, Overslept, vars
<1>4. DestroyedLast /\ Gone => user # "destroyed"
  BY DEF DestroyedLast, AllDone, Gone, Overslept
<1> QED
  BY <1>1, <1>2, <1>3, <1>4, DestroyedAfterThreads, PTL DEF Spec
=============================================================================
