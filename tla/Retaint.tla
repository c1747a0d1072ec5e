------------------------------ MODULE Retaint ------------------------------
(***************************************************************************)
(* An interruption while the node is being untainted (ENode.cpp).  The AEX *)
(* handler, or the monitor thread, sets tainted and counts the AEX; the    *)
(* receive thread clears tainted in a later step than it decides to; the   *)
(* refresh thread repeats its round of requests while the count moves.     *)
(* tainted and total_aex_count are written outside tainted_mutex, so each  *)
(* access is a step.                                                       *)
(*                                                                         *)
(* Untaint has the messages and the decision, Shutdown the end of the      *)
(* threads.  The count matters only as moved: it differs from the value    *)
(* that refresh has read.  shadow_tsc_update, a simulated attack, is left  *)
(* out.                                                                    *)
(***************************************************************************)
VARIABLES
  stop,        \* ENode::stop
  calib,       \* ENode::calib_count
  tainted,     \* ENode::tainted
  moved,       \* total_aex_count # mem_total_aex_count
  notify,      \* the build has AEX Notify
  owner,       \* the holder of tainted_mutex, or "none"
  monitor,     \* where the monitor thread is, but for its handler
  handler,     \* where the AEX handler is, on the monitor thread
  recv,        \* where the receive thread is in the handler of U
  refresh,     \* where the refresh thread is
  user,        \* where the thread that calls stop_tasks is
  due          \* history: since the last taint no round has begun, and the
               \* receive thread has not decided to untaint

vars == <<stop, calib, tainted, moved, notify, owner, monitor, handler, recv,
          refresh, user, due>>

(* In the loop of requests: the count is read, T is sent, answers are      *)
(* awaited, the count is compared.                                         *)
Requesting == {"read", "wait", "test"}

TypeOK ==
  /\ stop \in BOOLEAN /\ calib \in BOOLEAN /\ tainted \in BOOLEAN
  /\ moved \in BOOLEAN /\ notify \in BOOLEAN /\ due \in BOOLEAN
  /\ monitor \in {"run", "taint", "lock", "held"}
  /\ handler \in {"idle", "count", "lock"} /\ (handler # "idle" => notify)
  /\ recv \in {"idle", "held", "clear", "unlock"}
  /\ refresh \in {"loop", "lock", "asleep", "woken", "done"} \cup Requesting
  /\ user \in {"run", "signal", "end"}
  /\ owner = IF monitor = "held" THEN "monitor"
             ELSE IF recv # "idle" THEN "recv" ELSE "none"
  /\ ~(monitor = "held" /\ recv # "idle")

Init ==
  /\ stop = FALSE /\ calib = FALSE /\ tainted = FALSE /\ moved = FALSE
  /\ notify \in BOOLEAN /\ owner = "none"
  /\ monitor = "run" /\ handler = "idle" /\ recv = "idle"
  /\ refresh = "loop" /\ user = "run" /\ due = FALSE

(* A signal wakes the refresh thread if it waits, and is lost otherwise. *)
Signal == refresh' = IF refresh = "asleep" THEN "woken" ELSE refresh

-----------------------------------------------------------------------------
(* The AEX handler, on the monitor thread *)

Aex ==
  /\ notify /\ handler = "idle"
  /\ handler' = "count" /\ tainted' = TRUE /\ due' = TRUE
  /\ UNCHANGED <<stop, calib, moved, notify, owner, monitor, recv, refresh,
                 user>>

AexCount ==
  /\ handler = "count"
  /\ handler' = "lock" /\ moved' = TRUE
  /\ UNCHANGED <<stop, calib, tainted, notify, owner, monitor, recv, refresh,
                 user, due>>

AexSignal ==
  /\ handler = "lock" /\ owner = "none"
  /\ handler' = "idle" /\ Signal
  /\ UNCHANGED <<stop, calib, tainted, moved, notify, owner, monitor, recv,
                 user, due>>

(* The monitor thread *)

Running(at) == monitor = at /\ handler = "idle"

(* Without AEX Notify it counts a gap in the TSC, then taints: no signal. *)
GapCount ==
  /\ Running("run") /\ ~notify /\ ~stop
  /\ monitor' = "taint" /\ moved' = TRUE
  /\ UNCHANGED <<stop, calib, tainted, notify, owner, handler, recv, refresh,
                 user, due>>

GapTaint ==
  /\ Running("taint")
  /\ monitor' = "run" /\ tainted' = TRUE /\ due' = TRUE
  /\ UNCHANGED <<stop, calib, moved, notify, owner, handler, recv, refresh,
                 user>>

(* Too many rounds without an AEX: the node taints itself. *)
SelfTaint ==
  /\ Running("run") /\ ~stop
  /\ monitor' = "lock" /\ moved' = TRUE
  /\ UNCHANGED <<stop, calib, tainted, notify, owner, handler, recv, refresh,
                 user, due>>

(* Mutant: the node is tainted without the mutex. *)
SelfTaintAnyhow ==
  /\ Running("lock")
  /\ monitor' = "held" /\ owner' = "monitor"
  /\ tainted' = TRUE /\ due' = TRUE
  /\ UNCHANGED <<stop, calib, moved, notify, handler, recv, refresh, user>>

SelfTaintLock ==
  /\ Running("lock") /\ owner = "none"
  /\ monitor' = "held" /\ owner' = "monitor"
  /\ tainted' = TRUE /\ due' = TRUE
  /\ UNCHANGED <<stop, calib, moved, notify, handler, recv, refresh, user>>

SelfTaintUnlock ==
  /\ Running("held")
  /\ monitor' = "run" /\ owner' = "none" /\ Signal
  /\ UNCHANGED <<stop, calib, tainted, moved, notify, handler, recv, user, due>>

(* The counter is found off, or is calibrated. *)
Calibrate ==
  /\ Running("run") /\ ~stop
  /\ calib' \in BOOLEAN
  /\ UNCHANGED <<stop, tainted, moved, notify, owner, monitor, handler, recv,
                 refresh, user, due>>

Monitor ==
  \/ Aex \/ AexCount \/ AexSignal \/ GapCount \/ GapTaint
  \/ SelfTaint \/ SelfTaintLock \/ SelfTaintUnlock \/ Calibrate

-----------------------------------------------------------------------------
(* The receive thread: an answer U *)

RecvLock ==
  /\ recv = "idle" /\ owner = "none" /\ ~stop
  /\ recv' = "held" /\ owner' = "recv"
  /\ UNCHANGED <<stop, calib, tainted, moved, notify, monitor, handler,
                 refresh, user, due>>

(* The answer may be to any round: which ones suffice is in Untaint. *)
RecvDecide ==
  /\ recv = "held"
  /\ \/ recv' = "clear" /\ due' = FALSE
     \/ recv' = "unlock" /\ UNCHANGED due
  /\ UNCHANGED <<stop, calib, tainted, moved, notify, owner, monitor, handler,
                 refresh, user>>

RecvClear ==
  /\ recv = "clear"
  /\ recv' = "unlock" /\ tainted' = FALSE
  /\ UNCHANGED <<stop, calib, moved, notify, owner, monitor, handler, refresh,
                 user, due>>

RecvUnlock ==
  /\ recv = "unlock"
  /\ recv' = "idle" /\ owner' = "none"
  /\ UNCHANGED <<stop, calib, tainted, moved, notify, monitor, handler,
                 refresh, user, due>>

Receive == RecvLock \/ RecvDecide \/ RecvClear \/ RecvUnlock

-----------------------------------------------------------------------------
(* The refresh thread and the untaint trigger *)

RefreshGoes(from, to) ==
  /\ refresh = from /\ refresh' \in to
  /\ UNCHANGED <<stop, calib, tainted, notify, owner, monitor, handler, recv,
                 user>>

RefreshLoop ==
  RefreshGoes("loop", IF stop THEN {"done"} ELSE {"lock"})
    /\ UNCHANGED <<moved, due>>

RefreshWait ==
  /\ owner = "none"
  /\ RefreshGoes("lock", {"asleep"}) /\ UNCHANGED <<moved, due>>

RefreshWoken ==
  /\ owner = "none"
  /\ RefreshGoes("woken", IF stop THEN {"done"}
                          ELSE IF tainted /\ calib THEN {"read"} ELSE {"loop"})
  /\ UNCHANGED <<moved, due>>

(* The count is read before the requests are sent. *)
RefreshRead ==
  /\ RefreshGoes("read", {"wait"})
  /\ moved' = FALSE /\ due' = FALSE

(* For 10 ms at the longest: shorter once the node is untainted or stopped. *)
RefreshWaited ==
  RefreshGoes("wait", {"test"}) /\ UNCHANGED <<moved, due>>

(* Mutant: one round of requests is enough. *)
RefreshOnce ==
  RefreshGoes("test", {"loop"}) /\ UNCHANGED <<moved, due>>

RefreshTest ==
  RefreshGoes("test", IF moved /\ ~stop THEN {"read"} ELSE {"loop"})
    /\ UNCHANGED <<moved, due>>

Refresh ==
  \/ RefreshLoop \/ RefreshWait \/ RefreshWoken
  \/ RefreshRead \/ RefreshWaited \/ RefreshTest

(* Mutant: the trigger relies on the signals of those who taint. *)
TriggerNothing ==
  /\ owner = "none" /\ ~stop
  /\ UNCHANGED vars

(* Once a second. *)
TriggerSignal ==
  /\ owner = "none" /\ ~stop
  /\ IF tainted THEN Signal ELSE UNCHANGED refresh
  /\ UNCHANGED <<stop, calib, tainted, moved, notify, owner, monitor, handler,
                 recv, user, due>>

-----------------------------------------------------------------------------
(* stop_tasks *)

Stop ==
  /\ user = "run"
  /\ user' = "signal" /\ stop' = TRUE
  /\ UNCHANGED <<calib, tainted, moved, notify, owner, monitor, handler, recv,
                 refresh, due>>

StopSignal ==
  /\ user = "signal" /\ owner = "none"
  /\ user' = "end" /\ Signal
  /\ UNCHANGED <<stop, calib, tainted, moved, notify, owner, monitor, handler,
                 recv, due>>

Next == Monitor \/ Receive \/ Refresh \/ TriggerSignal \/ Stop \/ StopSignal

Spec == Init /\ [][Next]_vars

(* Every thread is scheduled and gets the mutex, which the others hold for *)
(* a moment; an interruption is never due.                                 *)
Fairness ==
  /\ WF_vars(AexCount) /\ SF_vars(AexSignal)
  /\ SF_vars(GapTaint) /\ SF_vars(SelfTaintLock) /\ SF_vars(SelfTaintUnlock)
  /\ WF_vars(RecvDecide \/ RecvClear \/ RecvUnlock)
  /\ SF_vars(Refresh) /\ SF_vars(TriggerSignal)

FairSpec == Spec /\ Fairness
-----------------------------------------------------------------------------
(* An AEX between the decision to untaint and its step (720, 722) has its  *)
(* taint cleared.  With AEX Notify the count repairs that while refresh is *)
(* in its loop (238), since the handler taints before it counts: when the  *)
(* loop ends, no AEX is left without taint, round and decision, but one    *)
(* that its handler is about to count (133).                               *)
LoopEndsAnswered ==
  [][notify /\ refresh = "test" /\ refresh' = "loop" /\ ~stop /\ due =>
       tainted \/ handler = "count"]_vars

(* The handler waits for the mutex that the thread it interrupted holds. *)
SelfLocked == handler = "lock" /\ monitor = "held"

(* A tainted node asks its siblings, or has been untainted, although       *)
(* signals are lost while refresh is not waiting, and an AEX found from    *)
(* the TSC is not signalled at all: the trigger repeats the signal.        *)
TaintIsAnswered ==
  (due /\ tainted) ~> (~due \/ ~tainted \/ ~calib \/ stop \/ SelfLocked)
=============================================================================
