----------------------------- MODULE Shutdown -----------------------------
(***************************************************************************)
(* The threads of one node, tainted_mutex and tainted_cond, and how a node *)
(* is stopped and destroyed (ENode.cpp, Node.cpp): the monitor thread, on  *)
(* which the AEX handler runs, the receive, refresh and trigger threads,   *)
(* and the thread of the program that destroys the node.                   *)
(*                                                                         *)
(* The critical sections of the monitor and of the receive thread are two  *)
(* steps, since an AEX can hit between them; the short ones of the other   *)
(* threads are one step that waits for the mutex.                          *)
(***************************************************************************)
VARIABLES
  stop,       \* ENode::stop
  tainted,    \* ENode::tainted
  calib,      \* ENode::calib_count
  owner,      \* the holder of tainted_mutex, or "none"
  monitor,    \* where the monitor thread is
  handler,    \* where the AEX handler is, on the monitor thread; "none" in a
              \* build without AEX Notify
  recv,       \* where the receive thread is
  refresh,    \* where the refresh thread is; "asleep" on tainted_cond
  trigger,    \* where the untaint trigger is
  user,       \* where the destroying thread is
  flags,      \* the flags monitor_stopped, ... that are TRUE
  sock,       \* is the socket open
  late        \* history: refresh went to sleep after the signal of stop_tasks

vars == <<stop, tainted, calib, owner, monitor, handler, recv, refresh,
          trigger, user, flags, sock, late>>

Flag == {"monitor", "readfrom", "refresh", "trigger"}

Switches ==
  /\ stop \in BOOLEAN /\ tainted \in BOOLEAN /\ calib \in BOOLEAN
  /\ sock \in BOOLEAN /\ late \in BOOLEAN

Places ==
  /\ monitor \in {"loop", "lock", "held", "done"}
  /\ handler \in {"none", "idle", "lock"}
  /\ recv \in {"loop", "recv", "lock", "held", "done"}
  /\ refresh \in {"loop", "lock", "asleep", "woken", "round", "done"}
  /\ trigger \in {"loop", "lock", "done"}
  /\ user \in {"run", "tasks", "signal", "rest", "close", "join", "destroyed"}

(* The mutex belongs to the thread that is in a critical section. *)
MutexOwned ==
  /\ owner = IF monitor = "held" THEN "monitor"
             ELSE IF recv = "held" THEN "recv" ELSE "none"
  /\ ~(monitor = "held" /\ recv = "held")

TypeOK == Switches /\ flags \subseteq Flag /\ Places /\ MutexOwned

(* The constructor leaves readfrom_stopped uninitialised. *)
Init ==
  /\ stop = FALSE /\ tainted = FALSE /\ calib = FALSE /\ owner = "none"
  /\ monitor = "loop" /\ handler \in {"none", "idle"} /\ recv = "loop"
  /\ refresh = "loop" /\ trigger = "loop" /\ user = "run"
  /\ flags \in SUBSET {"readfrom"}
  /\ sock = TRUE /\ late = FALSE

(* A signal on tainted_cond wakes the refresh thread if it sleeps, and is  *)
(* lost otherwise.                                                         *)
Signal == refresh' = IF refresh = "asleep" THEN "woken" ELSE refresh

-----------------------------------------------------------------------------
(* The monitor thread *)

(* A round, or the calibration of the counter.  Without AEX Notify a long  *)
(* gap between two readings of the TSC taints, outside the mutex.          *)
MonitorRound ==
  /\ monitor = "loop" /\ handler # "lock" /\ ~stop
  /\ calib' \in BOOLEAN
  /\ tainted' \in {tainted, handler = "none" \/ tainted}
  /\ UNCHANGED <<stop, owner, monitor, handler, recv, refresh, trigger, user,
                 flags, sock, late>>

SelfTaint ==
  /\ monitor = "loop" /\ handler # "lock" /\ ~stop
  /\ monitor' = "lock"
  /\ UNCHANGED <<stop, tainted, calib, owner, handler, recv, refresh, trigger,
                 user, flags, sock, late>>

(* Mutant: the monitor taints its node without the mutex. *)
SelfTaintAnyhow ==
  /\ monitor = "lock" /\ handler # "lock"
  /\ monitor' = "held" /\ owner' = "monitor"
  /\ UNCHANGED <<stop, tainted, calib, handler, recv, refresh, trigger, user,
                 flags, sock, late>>

SelfTaintLock ==
  /\ monitor = "lock" /\ handler # "lock" /\ owner = "none"
  /\ monitor' = "held" /\ owner' = "monitor"
  /\ UNCHANGED <<stop, tainted, calib, handler, recv, refresh, trigger, user,
                 flags, sock, late>>

SelfTaintUnlock ==
  /\ monitor = "held" /\ handler # "lock"
  /\ monitor' = "loop" /\ owner' = "none"
  /\ tainted' = TRUE
  /\ Signal
  /\ UNCHANGED <<stop, calib, handler, recv, trigger, user, flags, sock, late>>

MonitorEnd ==
  /\ monitor = "loop" /\ handler # "lock" /\ stop
  /\ monitor' = "done" /\ flags' = flags \cup {"monitor"}
  /\ UNCHANGED <<stop, tainted, calib, owner, handler, recv, refresh, trigger,
                 user, sock, late>>

(* An AEX interrupts the monitor thread wherever it is: the handler sets   *)
(* tainted, then takes the mutex, signals and lets the thread go on.       *)
Aex ==
  /\ monitor # "done" /\ handler = "idle"
  /\ handler' = "lock" /\ tainted' = TRUE
  /\ UNCHANGED <<stop, calib, owner, monitor, recv, refresh, trigger, user,
                 flags, sock, late>>

AexSignal ==
  /\ handler = "lock" /\ owner = "none"
  /\ handler' = "idle"
  /\ Signal
  /\ UNCHANGED <<stop, tainted, calib, owner, monitor, recv, trigger, user,
                 flags, sock, late>>

Monitor ==
  \/ MonitorRound \/ SelfTaint \/ SelfTaintLock \/ SelfTaintUnlock
  \/ MonitorEnd \/ Aex \/ AexSignal

-----------------------------------------------------------------------------
(* The receive thread *)

RecvLoop ==
  /\ recv = "loop"
  /\ IF stop THEN recv' = "done" /\ flags' = flags \cup {"readfrom"}
             ELSE recv' = "recv" /\ UNCHANGED flags
  /\ UNCHANGED <<stop, tainted, calib, owner, monitor, handler, refresh,
                 trigger, user, sock, late>>

(* The 100 ms are over, or a message that does not touch the mutex came    *)
(* in; or an answer U.  The socket is gone, closed by stop_tasks or by a   *)
(* thread that replaces it: the loop returns at once, without the flag, or *)
(* ends on the result of a send, with it.                                  *)
Recv ==
  /\ recv = "recv"
  /\ \/ sock /\ recv' \in {"loop", "lock"} /\ UNCHANGED flags
     \/ recv' = "done" /\ flags' \in {flags, flags \cup {"readfrom"}}
  /\ UNCHANGED <<stop, tainted, calib, owner, monitor, handler, refresh,
                 trigger, user, sock, late>>

RecvLock ==
  /\ recv = "lock" /\ owner = "none"
  /\ recv' = "held" /\ owner' = "recv"
  /\ UNCHANGED <<stop, tainted, calib, monitor, handler, refresh, trigger,
                 user, flags, sock, late>>

(* Mutant: a return between lock and unlock. *)
RecvReturn ==
  /\ recv = "held"
  /\ recv' = "loop"
  /\ tainted' \in {tainted, FALSE}
  /\ UNCHANGED <<stop, calib, owner, monitor, handler, refresh, trigger, user,
                 flags, sock, late>>

RecvUnlock ==
  /\ recv = "held"
  /\ recv' = "loop" /\ owner' = "none"
  /\ tainted' \in {tainted, FALSE}
  /\ UNCHANGED <<stop, calib, monitor, handler, refresh, trigger, user, flags,
                 sock, late>>

Receive == RecvLoop \/ Recv \/ RecvLock \/ RecvUnlock

-----------------------------------------------------------------------------
(* The refresh thread and the untaint trigger *)

RefreshLoop ==
  /\ refresh = "loop"
  /\ IF stop THEN refresh' = "done" /\ flags' = flags \cup {"refresh"}
             ELSE refresh' = "lock" /\ UNCHANGED flags
  /\ UNCHANGED <<stop, tainted, calib, owner, monitor, handler, recv, trigger,
                 user, sock, late>>

RefreshWait ==
  /\ refresh = "lock" /\ owner = "none"
  /\ refresh' = "asleep"
  /\ late' = (user \notin {"run", "tasks", "signal"})
  /\ UNCHANGED <<stop, tainted, calib, owner, monitor, handler, recv, trigger,
                 user, flags, sock>>

RefreshWoken ==
  /\ refresh = "woken" /\ owner = "none"
  /\ IF stop THEN refresh' = "done" /\ flags' = flags \cup {"refresh"}
             ELSE /\ refresh' = IF tainted /\ calib THEN "round" ELSE "loop"
                  /\ UNCHANGED flags
  /\ UNCHANGED <<stop, tainted, calib, owner, monitor, handler, recv, trigger,
                 user, sock, late>>

RefreshRound ==
  /\ refresh = "round"
  /\ refresh' = "loop"
  /\ UNCHANGED <<stop, tainted, calib, owner, monitor, handler, recv, trigger,
                 user, flags, sock, late>>

Refresh == RefreshLoop \/ RefreshWait \/ RefreshWoken \/ RefreshRound

TriggerLoop ==
  /\ trigger = "loop"
  /\ IF stop THEN trigger' = "done" /\ flags' = flags \cup {"trigger"}
             ELSE trigger' = "lock" /\ UNCHANGED flags
  /\ UNCHANGED <<stop, tainted, calib, owner, monitor, handler, recv, refresh,
                 user, sock, late>>

TriggerSignal ==
  /\ trigger = "lock" /\ owner = "none"
  /\ trigger' = "loop"
  /\ IF tainted THEN Signal ELSE UNCHANGED refresh
  /\ UNCHANGED <<stop, tainted, calib, owner, monitor, handler, recv, user,
                 flags, sock, late>>

Trigger == TriggerLoop \/ TriggerSignal

-----------------------------------------------------------------------------
(* The destroying thread: stop_tasks, then the joins, then the enclave *)

StopTasks ==
  /\ user = "run"
  /\ user' = "tasks" /\ stop' = TRUE
  /\ UNCHANGED <<tainted, calib, owner, monitor, handler, recv, refresh,
                 trigger, flags, sock, late>>

(* Mutant: stop_tasks waits for both, as its message says. *)
BothStopped == {"monitor", "readfrom"} \subseteq flags

OneThreadStopped == {"monitor", "readfrom"} \cap flags # {}

StopAwaited ==
  /\ user = "tasks" /\ OneThreadStopped
  /\ user' = "signal"
  /\ UNCHANGED <<stop, tainted, calib, owner, monitor, handler, recv, refresh,
                 trigger, flags, sock, late>>

(* Mutant: refresh is not signalled. *)
StopSilently ==
  /\ user = "signal" /\ owner = "none"
  /\ user' = "rest"
  /\ UNCHANGED <<stop, tainted, calib, owner, monitor, handler, recv, refresh,
                 trigger, flags, sock, late>>

StopSignal ==
  /\ user = "signal" /\ owner = "none"
  /\ user' = "rest"
  /\ Signal
  /\ UNCHANGED <<stop, tainted, calib, owner, monitor, handler, recv, trigger,
                 flags, sock, late>>

StopRest ==
  /\ user = "rest" /\ {"refresh", "trigger"} \cap flags # {}
  /\ user' = "close"
  /\ UNCHANGED <<stop, tainted, calib, owner, monitor, handler, recv, refresh,
                 trigger, flags, sock, late>>

StopClose ==
  /\ user = "close"
  /\ user' = "join" /\ sock' = FALSE
  /\ UNCHANGED <<stop, tainted, calib, owner, monitor, handler, recv, refresh,
                 trigger, flags, late>>

AllDone ==
  monitor = "done" /\ recv = "done" /\ refresh = "done" /\ trigger = "done"

Destroy ==
  /\ user = "join" /\ AllDone
  /\ user' = "destroyed"
  /\ UNCHANGED <<stop, tainted, calib, owner, monitor, handler, recv, refresh,
                 trigger, flags, sock, late>>

User ==
  \/ StopTasks \/ StopAwaited \/ StopSignal \/ StopRest \/ StopClose
  \/ Destroy

Next == Monitor \/ Receive \/ Refresh \/ Trigger \/ User

Spec == Init /\ [][Next]_vars

(* Every thread is scheduled, and the monitor thread gets on between two   *)
(* AEX; an AEX, a self-taint and the decision to destroy the node are      *)
(* never due.                                                              *)
Fairness ==
  /\ SF_vars(SelfTaintLock \/ SelfTaintUnlock \/ MonitorEnd)
  /\ WF_vars(AexSignal)
  /\ WF_vars(Receive) /\ WF_vars(Refresh) /\ WF_vars(Trigger)
  /\ WF_vars(User /\ ~StopTasks)

FairSpec == Spec /\ Fairness
-----------------------------------------------------------------------------
(* What each thread needs to go on; an AEX is never due.                   *)
Free == owner = "none"

MonitorMoves ==
  \/ handler = "lock" /\ Free
  \/ /\ handler # "lock"
     /\ monitor \in {"loop", "held"} \/ (monitor = "lock" /\ Free)
ReceiveMoves == recv \in {"loop", "recv", "held"} \/ (recv = "lock" /\ Free)
RefreshMoves ==
  refresh \in {"loop", "round"} \/ (refresh \in {"lock", "woken"} /\ Free)
TriggerMoves == trigger = "loop" \/ (trigger = "lock" /\ Free)
UserMoves ==
  \/ user = "tasks" /\ OneThreadStopped
  \/ user = "signal" /\ Free
  \/ user = "rest" /\ {"refresh", "trigger"} \cap flags # {}
  \/ user = "close"
  \/ user = "join" /\ AllDone

SelfLocked == handler = "lock" /\ monitor = "held"
Overslept == refresh = "asleep" /\ late

(* From the beginning of stop_tasks to the end of the destruction some     *)
(* thread can go on, although flags, the mutex, a signal and the joins are *)
(* waited for, unless the monitor thread has locked itself out (134, 979)  *)
(* or the refresh thread has gone to sleep after the one signal (216, 320).*)
NeverStuck ==
  user \notin {"run", "destroyed"} =>
    \/ MonitorMoves \/ ReceiveMoves \/ RefreshMoves \/ TriggerMoves
    \/ UserMoves \/ SelfLocked \/ Overslept

(* stop_tasks returns, although it waits for two pairs of threads and for  *)
(* the mutex; with AEX Notify, unless the handler, on the monitor thread,  *)
(* waits for the mutex that this thread holds (lines 134 and 979).         *)
StopReturnsUnlessSelfLocked ==
  (user = "tasks") ~> (user \in {"join", "destroyed"} \/ SelfLocked)

(* A node whose destruction began is destroyed, unless the monitor thread  *)
(* locked itself out, or the refresh thread looked at stop before it was   *)
(* set and went to sleep after the one signal of stop_tasks (line 320).    *)
DestroyedUnlessOverslept ==
  (user = "tasks") ~> (user = "destroyed" \/ late \/ SelfLocked)

(* "Threads joined." (Node.cpp 288): a node whose destruction began is     *)
(* destroyed, the monitor thread's self-lock aside.                        *)
Destroyed == (user = "tasks") ~> (user = "destroyed" \/ SelfLocked)
=============================================================================
