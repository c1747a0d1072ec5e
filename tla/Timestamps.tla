----------------------------- MODULE Timestamps -----------------------------
(***************************************************************************)
(* How a node tells the time (get_timestamp, ENode.cpp).  The monitor      *)
(* thread keeps the counter tsc up to date; a call turns the ticks since   *)
(* tsc_ref into nanoseconds, adds them to ts_ref and moves both references *)
(* up.  No lock protects the three: the client's thread, and the monitor,  *)
(* receive and refresh threads, which stamp their messages, read and write *)
(* them in any interleaving, and step_clock, on the receive thread, writes *)
(* ts_ref too.  Every access to a shared reference is a step of its own.   *)
(*                                                                         *)
(* tsc and tsc_ref count ticks, timestamps nanoseconds; tsc_freq is Freq   *)
(* ticks per nanosecond (how it changes is TimeSync's matter).  The node   *)
(* is not one of those that simulate a manipulated TSC (tsc_offset is 0),  *)
(* but the TSC of its processor may go back.                               *)
(***************************************************************************)
EXTENDS Integers

CONSTANTS
  Caller,    \* the threads that call get_timestamp
  Client,    \* those that call get_timestamp(false)
  Receive,   \* the receive thread, which also steps the clock
  Offsets,   \* what step_clock may add
  Freq,      \* tsc_freq: ticks per nanosecond
  MaxTsc,    \* bound: ticks
  MaxBacks,  \* bound: times that TSC goes back
  MaxSteps   \* bound: steps of the clock

ASSUME CallerAssumption ==
  Client \subseteq Caller /\ Receive \in Caller \ Client
ASSUME OffsetAssumption == Offsets \subseteq Int
ASSUME FreqAssumption == Freq \in Nat \ {0}
ASSUME BoundAssumption ==
  MaxTsc \in Nat /\ MaxBacks \in Nat /\ MaxSteps \in Nat

VARIABLES
  tsc, tscRef, tsRef,  \* tsc, tsc_ref, ts_ref
  gate,      \* what clients wait for: "ready" when calib_count,
             \* TA_CONSISTENT_STATE and not tainted, "stop" from
             \* ENode::stop on, "shut" otherwise
  pc,        \* where each caller is; "idle" outside of get_timestamp
  mem,       \* mem[c]: mem_tsc of the call of c
  ts,        \* ts[c]: timestamp, the result of the call
  got,       \* got[c]: the value of tsc that c read last
  backs,     \* times that TSC has gone back so far
  steps,     \* steps of the clock so far
  clean,     \* history: no call overlapped another since the last timestamp
             \* returned, and no training moved the clock back
  last,      \* history: that timestamp, while clean
  back,      \* history: TSC went back, past tsc_ref or during a call, and no
             \* client has found it past tsc_ref since (line 1294)
  raced,     \* history: a call has overlapped another, or a step
  slack,     \* history: what calls may lose in conversions and in between
             \* their two readings of tsc, in ticks
  stepped    \* history: sum of the steps of the clock

refs == <<tsc, tscRef, tsRef>>
locals == <<pc, mem, ts, got>>
counts == <<backs, steps>>
history == <<last, clean, back, raced, slack, stepped>>
vars == <<refs, gate, locals, counts, history>>

Place == {"idle", "wait", "ts", "tsc", "dt", "load", "ref", "put", "step"}

(* A thread between its first and its last access to the references. *)
Inside(c) == pc[c] \in {"tsc", "dt", "load", "ref", "put", "step"}
Alone(c) == \A d \in Caller \ {c} : ~Inside(d)

(* The state is well typed, and tsc_ref is a reading of tsc (line 1297),   *)
(* whatever the threads do.                                                *)
TypeOK ==
  /\ tsc \in 0..MaxTsc /\ tscRef \in 0..MaxTsc /\ tsRef \in Int
  /\ gate \in {"shut", "ready", "stop"}
  /\ pc \in [Caller -> Place]
  /\ mem \in [Caller -> 0..MaxTsc] /\ got \in [Caller -> 0..MaxTsc]
  /\ ts \in [Caller -> Int]
  /\ backs \in 0..MaxBacks /\ steps \in 0..MaxSteps
  /\ last \in Int /\ slack \in Nat /\ stepped \in Int
  /\ clean \in BOOLEAN /\ back \in BOOLEAN /\ raced \in BOOLEAN

Init ==
  /\ tsc = 0 /\ tscRef = 0 /\ tsRef = 0
  /\ gate = "shut"
  /\ pc = [c \in Caller |-> "idle"]
  /\ mem = [c \in Caller |-> 0] /\ got = [c \in Caller |-> 0]
  /\ ts = [c \in Caller |-> 0]
  /\ backs = 0 /\ steps = 0 /\ last = 0 /\ slack = 0 /\ stepped = 0
  /\ clean = TRUE /\ back = FALSE /\ raced = FALSE

-----------------------------------------------------------------------------
(* The surroundings: the loop of the monitor thread writes tsc, and so     *)
(* does the AEX handler, on whatever thread the exit interrupts; taints,   *)
(* answers of siblings and of the authority, and calibration come and go.  *)

Tick ==
  /\ tsc < MaxTsc
  /\ tsc' = tsc + 1
  /\ UNCHANGED <<tscRef, tsRef, gate, locals, counts, history>>

(* TSC goes back and is stored before it is noticed (lines 1006, 1033), or *)
(* the monitor's loop, interrupted before its store, resumes with a        *)
(* reading older than the AEX handler's (lines 954 and 146).               *)
TscGoesBack ==
  /\ backs < MaxBacks /\ backs' = backs + 1
  /\ \E t \in 0..MaxTsc : t < tsc /\ tsc' = t
  /\ back' = (back \/ tsc' < tscRef \/ \E c \in Caller : Inside(c))
  /\ UNCHANGED <<tscRef, tsRef, gate, locals, steps, last, clean, raced,
                 slack, stepped>>

ReadyChanges ==
  /\ gate # "stop"
  /\ gate' = IF gate = "shut" THEN "ready" ELSE "shut"
  /\ UNCHANGED <<refs, locals, counts, history>>

Stop ==
  /\ gate # "stop" /\ gate' = "stop"
  /\ UNCHANGED <<refs, locals, counts, history>>

-----------------------------------------------------------------------------
(* get_timestamp *)

(* A client's call, up to the loop; the calls of others do not wait (Forced). *)
Call(c) ==
  /\ pc[c] = "idle" /\ c \in Client
  /\ mem' = [mem EXCEPT ![c] = tsc]
  /\ pc' = [pc EXCEPT ![c] = "wait"]
  /\ UNCHANGED <<refs, gate, ts, got, counts, history>>

(* What a client that goes on has found out, for `back`. *)
Found == back' = (back /\ (gate = "stop" \/ \E d \in Caller : Inside(d)))

(* Mutant: mem_tsc is read again in every round of the loop. *)
WaitedAgain(c) ==
  /\ pc[c] = "wait"
  /\ mem' = [mem EXCEPT ![c] = tsc]
  /\ gate = "stop" \/ (gate = "ready" /\ mem'[c] # tsc /\ tscRef <= tsc)
  /\ pc' = [pc EXCEPT ![c] = "ts"]
  /\ Found
  /\ UNCHANGED <<refs, gate, ts, got, counts, last, clean, raced, slack,
                 stepped>>

(* Mutant: the loop does not wait for tsc to get past tsc_ref. *)
WaitedBefore(c) ==
  /\ pc[c] = "wait"
  /\ gate = "stop" \/ (gate = "ready" /\ mem[c] # tsc)
  /\ mem' = [mem EXCEPT ![c] = 0]
  /\ pc' = [pc EXCEPT ![c] = "ts"]
  /\ Found
  /\ UNCHANGED <<refs, gate, ts, got, counts, last, clean, raced, slack,
                 stepped>>

(* A client waits for a clock that can be trusted, that has moved, and that *)
(* is not behind its reference.                                             *)
Waited(c) ==
  /\ pc[c] = "wait"
  /\ gate = "stop" \/ (gate = "ready" /\ mem[c] # tsc /\ tscRef <= tsc)
  /\ mem' = [mem EXCEPT ![c] = 0]
  /\ pc' = [pc EXCEPT ![c] = "ts"]
  /\ Found
  /\ UNCHANGED <<refs, gate, ts, got, counts, last, clean, raced, slack,
                 stepped>>

(* Until calls overlap, what they may lose and the steps are summed up. *)
Sum(loss, d) ==
  /\ slack' = IF raced' THEN 0 ELSE slack + loss
  /\ stepped' = IF raced' THEN 0 ELSE stepped + d

(* A window opens, of a call or a step by d; it overlaps every other one    *)
(* that is open.                                                            *)
Enter(c, d, backwards) ==
  /\ raced' = (raced \/ ~Alone(c))
  /\ Sum(0, d)
  /\ clean' = (clean /\ Alone(c) /\ ~backwards)
  /\ last' = IF clean' THEN last ELSE 0

ReadTs(c) ==
  /\ ts' = [ts EXCEPT ![c] = tsRef]
  /\ pc' = [pc EXCEPT ![c] = "tsc"]
  /\ Enter(c, 0, FALSE)
  /\ UNCHANGED <<refs, gate, mem, got, counts, back>>

Forced(c) == pc[c] = "idle" /\ c \notin Client /\ ReadTs(c)
GoOn(c) == pc[c] = "ts" /\ ReadTs(c)

ReadTsc(c) ==
  /\ pc[c] = "tsc"
  /\ got' = [got EXCEPT ![c] = tsc]
  /\ pc' = [pc EXCEPT ![c] = "dt"]
  /\ UNCHANGED <<refs, gate, mem, ts, counts, history>>

Abs(x) == IF x < 0 THEN -x ELSE x

(* (long long)(ticks / tsc_freq): rounded towards 0. *)
Nanoseconds(ticks) ==
  IF ticks < 0 THEN -((-ticks) \div Freq) ELSE ticks \div Freq

Ticks(ns) == Freq * ns

(* The ticks that the rounding of one call may cost. *)
Rounding(ticks) == IF Abs(ticks) < Freq THEN Abs(ticks) ELSE Freq - 1

(* Mutant: the ticks of the whole run are added. *)
AddFromZero(c) ==
  /\ pc[c] = "dt"
  /\ ts' = [ts EXCEPT ![c] = @ + Nanoseconds(got[c])]
  /\ pc' = [pc EXCEPT ![c] = "load"]
  /\ UNCHANGED <<refs, gate, mem, got, counts, last, clean, back, raced>>
  /\ Sum(Rounding(got[c] - tscRef), 0)

(* total_nsec, added to timestamp, which nobody else sees. *)
Add(c) ==
  /\ pc[c] = "dt"
  /\ ts' = [ts EXCEPT ![c] = @ + Nanoseconds(got[c] - tscRef)]
  /\ pc' = [pc EXCEPT ![c] = "load"]
  /\ UNCHANGED <<refs, gate, mem, got, counts, last, clean, back, raced>>
  /\ Sum(Rounding(got[c] - tscRef), 0)

(* tsc is read again for tsc_ref: what it moved since ReadTsc is lost. *)
LoadTsc(c) ==
  /\ pc[c] = "load"
  /\ got' = [got EXCEPT ![c] = tsc]
  /\ pc' = [pc EXCEPT ![c] = "ref"]
  /\ UNCHANGED <<refs, gate, mem, ts, counts, last, clean, back, raced>>
  /\ Sum(Abs(tsc - got[c]), 0)

(* Mutant: tsc_ref is moved on instead of moved up to tsc. *)
AddTscRef(c) ==
  /\ pc[c] = "ref"
  /\ tscRef' = tscRef + got[c] /\ got' = [got EXCEPT ![c] = 0]
  /\ pc' = [pc EXCEPT ![c] = "put"]
  /\ UNCHANGED <<tsc, tsRef, gate, mem, ts, counts, history>>

WriteTscRef(c) ==
  /\ pc[c] = "ref"
  /\ tscRef' = got[c] /\ got' = [got EXCEPT ![c] = 0]
  /\ pc' = [pc EXCEPT ![c] = "put"]
  /\ UNCHANGED <<tsc, tsRef, gate, mem, ts, counts, history>>

WriteTs(c) ==
  /\ pc[c] = "put"
  /\ tsRef' = ts[c]
  /\ pc' = [pc EXCEPT ![c] = "idle"]
  /\ ts' = [ts EXCEPT ![c] = 0]
  /\ clean' = Alone(c)
  /\ last' = IF clean' THEN ts[c] ELSE 0
  /\ UNCHANGED <<tsc, tscRef, gate, mem, got, counts, back, raced, slack,
                 stepped>>

GetTimestamp(c) ==
  \/ Waited(c) \/ GoOn(c) \/ ReadTsc(c) \/ Add(c) \/ LoadTsc(c)
  \/ WriteTscRef(c) \/ WriteTs(c)

-----------------------------------------------------------------------------
(* step_clock, on the receive thread: ts_ref += clock_offset *)

StepRead(d, backwards) ==
  /\ pc[Receive] = "idle" /\ steps < MaxSteps
  /\ ts' = [ts EXCEPT ![Receive] = tsRef + d]
  /\ pc' = [pc EXCEPT ![Receive] = "step"]
  /\ steps' = steps + 1
  /\ Enter(Receive, d, backwards)
  /\ UNCHANGED <<refs, gate, mem, got, backs, back>>

(* In SYNC and SPIK only forwards: discipline_clock steps by offsets above *)
(* 0, and SPIK steps by offsets above the floor.                           *)
Step(d) == d > 0 /\ StepRead(d, FALSE)

(* A training, at a time of its own, begins and ends with a step either way. *)
TrainingStep(d) == StepRead(d, d < 0)

StepWrite ==
  /\ pc[Receive] = "step"
  /\ tsRef' = ts[Receive]
  /\ ts' = [ts EXCEPT ![Receive] = 0]
  /\ pc' = [pc EXCEPT ![Receive] = "idle"]
  /\ UNCHANGED <<tsc, tscRef, gate, mem, got, counts, history>>

-----------------------------------------------------------------------------
Next ==
  \/ Tick \/ TscGoesBack \/ ReadyChanges \/ Stop
  \/ \E c \in Caller : Call(c) \/ Forced(c) \/ GetTimestamp(c)
  \/ \E d \in Offsets : Step(d) \/ TrainingStep(d)
  \/ StepWrite

Spec == Init /\ [][Next]_vars

(* The monitor thread measures on, and every call gets on. *)
Fairness ==
  /\ WF_vars(Tick) /\ WF_vars(StepWrite)
  /\ \A c \in Caller : WF_vars(GetTimestamp(c))

FairSpec == Spec /\ Fairness
-----------------------------------------------------------------------------
(* A timestamp is not earlier than the one returned before it, whichever   *)
(* thread obtained that one, unless two calls overlapped since then        *)
(* (lines 1295 to 1299), a training stepped the clock back (1218), or TSC  *)
(* went back since a client last found it past tsc_ref: to wait for that   *)
(* (1294) protects a client from any earlier fall of TSC.                  *)
NeverGoesBack ==
  [][\A c \in Caller : WriteTs(c) /\ clean /\ ~back => ts[c] >= last]_vars

(* Between calls every tick up to tsc_ref is in ts_ref exactly once, with  *)
(* the steps of the clock, but for less than a nanosecond of every call    *)
(* that found ticks to convert (lines 1296 and 1297) and for what tsc      *)
(* moved between the two readings of one call, as long as no calls overlap. *)
TicksCountedOnce ==
  ~raced /\ (\A c \in Caller : ~Inside(c))
    => Abs(Ticks(tsRef - stepped) - tscRef) <= slack

(* A call returns, as long as tsc still moves on from what the call has    *)
(* seen, once the node stays ready or is stopped, also after TSC went back. *)
CallsReturn ==
  \A c \in Caller :
    <>[](gate # "shut")
      => ((pc[c] # "idle" /\ mem[c] # MaxTsc) ~> pc[c] = "idle")
=============================================================================
