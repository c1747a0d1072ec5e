# A verification of TriHaRd's time service in TLA+

TriHaRd runs *time service nodes*: each keeps a clock inside an enclave, from
the TSC, a *time authority* and a few *sibling* nodes. This directory holds TLA+
modules of that program, the TLC configurations that check them on small
instances, and theorems that TLAPS checks for every instance. All paths below
are relative to `src/trihard/`; lines are those of `node/Enclave/ENode.cpp`
unless another file is named.

## The system

A node (`Node`, outside the enclave; `ENode`, inside) runs four threads, started
by the constructor of `Node`:

| thread | function | what it does |
|---|---|---|
| monitor | `monitor`, `monitor_rdtsc`, `calibrate`, `ntp` | counts loop turns per round to notice interruptions (AEX) and a changed TSC; asks the time authority; the AEX handler interrupts it |
| receive | `loop_recvfrom`, `handle_message` | takes the messages S (sibling), T (tainted), U (untainting) and D (drift) |
| refresh | `refresh`, `sendTaintedMessages` | sleeps on `tainted_cond`; sends a numbered round of T to all siblings |
| trigger | `untaint_trigger` | signals `tainted_cond` every second while the node is tainted |

and threads of clients, which call `get_timestamp`. The program
(`user/main.cpp`) creates nodes, links them, lets them run and destroys them
one by one. They interact

* by datagrams: S, T, U between nodes, D with the authority;
* by shared memory without a lock: `tsc`, `ts_ref`, `tsc_ref`, `node_state`,
  `clock_state`, `calib_count`, `siblings`, `total_aex_count`;
* by `tainted_mutex` with `tainted_cond`, and two read-write locks
  (`stop_rwlock`, `socket_rwlock`).

Inventory, component by component:

| component | state | operations | what is hard | what makes it correct |
|---|---|---|---|---|
| Untainting protocol | `siblings`, `tainted`, `total_aex_count`, `tainted_msg_count`, per sibling the register `last_ts_is_consistent`, `views_as_consistent` | `add_sibling`, handlers of S, T, U, AEX, self-taint, rounds of T | lost, late and repeated answers; rounds mixed; nodes waiting for each other; an AEX while the node is being untainted | a taint is cleared only on the answers, of one round, and the views of all siblings but one; it is cleared when they agree; with AEX Notify the loop of requests does not end with an AEX unanswered |
| Clock discipline | `node_state`, `clock_state`, `clock_offset`, `calib_count`, `poll_exponent`, static counters | handler of D, `select_clock`, `ntp`, `calibrate`, discalibration | two threads write `node_state` and `calib_count` | training is completed once begun and precedes the first timestamp; a retraining is not undone by an answer to a later request; the node returns to SYNC |
| Threads and shutdown | `stop`, the `_stopped` flags, `tainted_mutex`, `tainted_cond`, `sock` | the four threads, the AEX handler, `stop_tasks`, `~Node` | lost wake-ups, a handler that locks, flags awaited in pairs | stopping and destruction end: no deadlock beyond the ones named below |
| Timestamps | `ts_ref`, `tsc_ref`, `tsc` | `get_timestamp`, `step_clock`, `discipline_clock` | unlocked read-modify-write by four threads; a TSC that goes back; a conversion that truncates | unless calls overlap or a training steps back, time does not go back once a client has found `tsc` past `tsc_ref`; ticks count once but for what the conversions lose; calls return |
| Time arithmetic | none | `timespec.h` | fields of different signs, carries | results are right and in normal form; comparison compares values |
| Socket | `sock`, `socket_rwlock` | `setup_socket`, `sendMessage`, `loop_recvfrom`, `add_sibling`, `stop_tasks` | error returns and retries under a lock, accesses outside it, two threads that replace the socket | lock and unlock are paired; no descriptor is lost; the node receives until it is stopped, but for the named failures |
| Time authority | receive buffer, threads, `sendMutex` | `time_authority/server.cpp` | the buffer is shared with the answering threads; clocks that are stepped while an answer is under way; the server's exit | an answer goes to its sender; the offset computed from it errs by half the time of the exchange at most from the mean of the two clocks it was measured with |
| Node manager and entry points | maps from ports to nodes, threads of nodes, `siblings` | `get_instance`, `destroy_instance`, `Node`, ecalls, `main` | registration by two threads; waiting for clients | no call into a node that is gone; nodes know each other; the program ends unless a node hangs |
| Socket forwarding | none | `sgx_socket` | none: wrappers around system calls | as results in `Socket` |
| Others | | encryption and `Libsodium` (vendored), `AEXTest` (another program), scripts | | |

## The modules

| module | models | checked by | proved in |
|---|---|---|---|
| `PeerTrust` | what untainting promises, without messages | as `KeepsPromise` | |
| `Untaint` | the untainting protocol; implements `PeerTrust` | `MCUntaint` | `UntaintProofs` |
| `Retaint` | one node's untainting and the AEX, step by step | itself | `RetaintProofs` |
| `Shutdown` | threads, mutex, condition variable, stopping, destruction | itself | `ShutdownProofs` |
| `TimeSync` | the discipline of a node's clock | `MCTimeSync` | `TimeSyncProofs` |
| `Timestamps` | `get_timestamp` and the steps of the clock, access by access | `MCTimestamps` | `TimestampsProofs` |
| `Timespec` | `timespec.h` | `MCTimespec` | `TimeAuthorityProofs` |
| `TimeAuthority` | the authority's threads and buffer, and the exchange with nodes | `MCTimeAuthority` | `TimeAuthorityProofs` |
| `Socket` | the socket and its lock | itself | `SocketProofs` |
| `NodeManager` | the program, its nodes and clients, the vector of siblings | `MCNodeManager` | `NodeManagerProofs` |

The modules cut the system where threads and messages meet. What one module
treats as a step or an input another has in detail: `Untaint` takes a handler as
one step, which `Retaint` splits; `TimeSync` takes an offset as an input, whose
error `TimeAuthority` bounds; `NodeManager` takes the readiness of a node as an
input, which `Untaint` and `TimeSync` decide, and a thread that hangs, whose ways
`Shutdown` and `Socket` have; `Shutdown` and `NodeManager` take a
receive as a step, which `Socket` splits.

### Untaint

`sibs`, `tainted`, `asked` (`tainted_msg_count`), `peer[n][m]` (the object `Peer` that n
keeps for m) and `taOK` (`clock_state`) are the program's variables per node; `net` is
the set of datagrams in flight. `refreshing` says that the refresh thread is in its loop
of requests, `pending` that it has a round to send: the loop begins, or
`mem_total_aex_count != total_aex_count`. `vouched` is a history variable: who answered
which round while in agreement with the authority.

`AddSibling`, `HandleS`, `HandleT`, `HandleU` and `HandleD` are the functions and cases
of `handle_message`; `Taint` is an AEX or the self-taint of the monitor; `RefreshWoken`,
`RefreshRound` and `RefreshEnd` are the wake-up, a round and the end of the loop of
`refresh`: the taint is looked at under the mutex, and the round is sent after the mutex
is released, when the node may be untainted already. `HandleU` follows lines 690 to 724:
`Record` writes the register unless the answer is `Replayed`; `Consistent` and `Viewing`
are the two counts; `Enough` is the test that clears the taint. Whether an offset is
below the threshold (692) is an input, since the clocks are not in this model.

Abstractions: a handler is one step, although an AEX can set `tainted` during
the handler of U; one round's datagrams leave in one step; the vector of
siblings is a set, so that a sibling registered twice by two threads is out of
sight (both are in other modules: `Retaint`, `NodeManager`); a message of unexpected
length is ignored by the code and absent here;
the test of `calib_count` before a round (223) only delays it.

### Shutdown

The positions of the threads, with the two critical sections an AEX can hit
(the monitor's self-taint, the handler of U) as two steps each. The AEX handler
is a position of its own on the monitor thread, which does not go on while the
handler waits. `handler = "none"` is a build without AEX Notify; both builds are
initial states. A signal wakes the refresh thread only if it is asleep.
`readfrom_stopped` may start TRUE, since the constructor does not initialise it. The
receive thread may end before the stop, for the socket may be gone: at the check of line
462, without its flag, or on the result of a send (455), with it.
The program is taken as the debug build (the Makefile's default, `-O0`): waiting
for a flag reads it again. Clients' threads are in `NodeManager`, `socket_rwlock`
is in `Socket`.

### TimeSync

One node; an offset to the authority is an input in microseconds. The monitor
thread calibrates (`StartCalibration`, `EndCalibration`), counts seconds and asks
(`Second`), and notices a changed TSC (`Discalibrate` then `BackToFreq`: two
writes, two steps; `TscGoesBack` in the build without AEX Notify). The receive
thread runs `Measure`, `Spike`, `Classify` and `SelectClock` as separate steps, for
each reads or writes what the monitor may write in between; `BackToSync` is the
write of `node_state` at the end of a spike. `pollCount`, `pass` and `enterFreq`
are the static variables of `ntp` and `select_clock`. `WriteFreq` is the monitor's write
of FREQ: it leaves `pass_count` alone, so that a spike it cuts short passes its time on
to the training (`cut`). `freqDone`, `counted`, `cut` and `asked` are history: a
training has ended, the seconds that the one under way has counted, whether a spike's
time is among them, and whether FREQ was there when the last answer was measured. The
correction of `tsc_freq` is floating-point arithmetic that decides nothing here.

### Timestamps

A call of `get_timestamp` is a sequence of accesses: `Call` and `Waited` (the loop of
line 1294) for a client, whose `GoOn` follows it; `Forced` for the others, who do not
wait; then `ReadTsc`, `Add`, `LoadTsc`, `WriteTscRef`, `WriteTs`. The expression of line
1296 and the one of line 1297 read `tsc` one after the other, and the monitor thread may
write it in between. Ticks are not nanoseconds: `Freq` of them are one, and
`Nanoseconds` truncates towards 0, as the conversion to `long long` does, while
`tsc_ref` moves up in full. `TscGoesBack` stores a smaller `tsc`: the TSC of the
processor went back, which the code notices only after the store (1006, 1033), or the
monitor's store (957) overtakes that of the AEX handler (146). `StepRead` and
`StepWrite` are `ts_ref+=clock_offset`; `Step` is a step outside a training, which is
forward only, `TrainingStep` one at either end of a training. `gate` stands for
`calib_count`, `clock_state` and `tainted`, which change at any time, and for `stop`.
`mem` is `mem_tsc`: a client waits for the counter to change, and for `tsc` to be no
less than `tsc_ref`. The history variables say what the two properties except: `raced`
and `clean` that calls overlapped (or a training stepped back), `back` that TSC went
back and no client has found it past `tsc_ref` since, `slack` how many ticks conversions
and double readings may have cost. `tsc_offset` is 0 (an experiment changes it).

### Timespec

The operators fill the fields (`Raw`, `Halved`), and `standardize` is its two
loops, a step per turn (`OpSpec`). `Standard` is its result in one step, used by `Less`
(`operator<`); that the loops compute it is the theorem `LoopsDivide`. Of the operators
on doubles only the division by 2 is modelled, which the handlers of U and D use
and which is exact. Fields are integers: with 64 bits no result of the program
is near overflow.

### TimeAuthority

The authority's main thread receives into its one buffer (`Receive`: `recvfrom` begins
to write; `Start`: it has returned, and a thread is started with the length and the
sender's address by value and the buffer by address). `handleMsg` is split at each
access to what is shared: `ReadBuff` and `Decrypt` for the buffer, `StampRec` and
`StampXmt` for the clock, `Lock` and `Send` for `sendMutex`. Decryption is
authenticated: a buffer that was written while it was read does not decrypt, and the
thread returns. The simulated delays are time passing between two steps. `Exit` is a
failing `recvfrom` (`server.cpp` 152 to 156): the process ends, whatever its threads are
at.

`Ask` and `HandleD` are the node's side. The clock of node n is ahead of the authority's
by `ahead[n]`, at first `Skew[n]`, which `Drift` and `StepClock` change at any time: also
between a request and its answer, or between two copies of one answer. After `HandleD`
the offset is used by `StepClock` (line 1221) or not (`LeaveClock`: the states that
discipline by frequency, or wait). The division by two at line 772 rounds either way
(`Halves`), as the timespec's fields decide.

### Socket

`sock`, the descriptors that are open, the one bound to the port, and
`socket_rwlock` as the SDK's lock: a holder for writing, a number of readers, and an
unlock that does not ask who calls it. Whether the lock detects a thread that asks for
what it holds is left open (`detects`). Each thread goes through the places of
`sendMessage`, `setup_socket`, `loop_recvfrom`, `add_sibling` and the end of
`stop_tasks`; each call of the lock, the system and each assignment to `sock` is a
step. `Fails` is an early return of `setup_socket`, which leaves the lock held;
`Resend` is a further turn of the loop of `sendMessage`, which does not lock again;
`RecvClose` and `RecvForget` are outside the lock. A call on a descriptor that is not
open fails; on one that is open it may succeed, time out or fail. Where an answer finds
no socket `handle_message` returns SOCKET_INEXISTENT, which ends the receive loop
(`NoSocket`; 512, 629, 857, 455); the other threads ignore it. With `Trouble` the
system may refuse a socket or its port. `failed`, `unheld` and `both` are history:
a lock left behind, a send without the lock, two replacements at once.

### Retaint

One node. `Aex`, `AexCount` and `AexSignal` are the steps of the handler, `GapCount`
and `GapTaint` those of a build without AEX Notify, `SelfTaint` and the two that
follow the self-taint. `RecvLock` to `RecvUnlock` are the handler of U, with the
decision apart from the write; whether an answer suffices is an input. `moved` stands
for `mem_total_aex_count!=total_aex_count`. `due` is history: since the last taint no
round has begun and the receive thread has not decided.

### NodeManager

`Script` is `main` as a sequence of operations, one node and one operation at a time;
`at` and `step` are the program's place in it. `Create` is `get_instance` with the
constructor and `ecall_init`, which fails with the enclave; `AddSibling`, `AddAppend`
and `AddSend` are `add_sibling`, `HandleS` and `HandleSAppend` the handler of S: a
search and an extension of the vector are two steps, and when the other thread extends
it in between the extension may overwrite its element (`Extend`). `Start` and `Spawn`
start a client, in the builds that measure after waiting for a timestamp (`bench`);
`Destroy` to `Delete` are the destructor: `Stop` sets the flag, `StopReturns` is the
return of `stop_tasks`, `Join` waits for the client and the four threads. `recv` is the
receive thread; `rest` has the nodes whose monitor, refresh and trigger threads have not
all ended. What keeps a thread from ending is in `Shutdown` and `Socket`; here it only
happens: `Stick` is a lock that is never released (the monitor thread's self-lock, a
failed `setup_socket`), `Oversleep` a refresh thread that slept past the signal. A thread
or a `stop_tasks` of a stuck node may wait for ever, a sleeping refresh thread keeps the
join of its node waiting for certain.

## The runs

| run | bounds | shows |
|---|---|---|
| `untaint` | a star of 3 nodes and a link of one to itself, 2, 1 and 0 rounds, 2 datagrams, with loss, duplication and reordering | `EvidenceIsVouched`, `OnlySentRounds`, `RoundsNeverGoBack` |
| `untaint_progress` | the star, 2, 2 and 0 rounds, clocks that agree, no loss, fair threads | `SupportedUntaints`; `KeepsPromise`: the protocol implements `PeerTrust`; `SecondRoundNeeded` |
| `retaint` | none: the state is finite | `LoopEndsAnswered`, `TaintIsAnswered` |
| `shutdown` | none: the state is finite | mutual exclusion, `NeverStuck`, `StopReturnsUnlessSelfLocked`, `DestroyedUnlessOverslept` |
| `shutdown_overslept` | the same | violated: the join waits for ever |
| `sync` | 5 offsets, one on each side of every threshold; poll intervals of 2 s and 8 s, `StepOut` 20 s, 2 answers in flight | `ServesAfterTraining`, `TrainingNotAbandoned`, `TrainedInFull`, `RetrainingKept`, `ReachesSync` |
| `timestamps` | a client and the receive thread, 2 ticks to a nanosecond, `tsc` up to 2, which goes back once, one step of the clock by -1 or 1 | `TicksCountedOnce`, `NeverGoesBack`, `CallsReturn` |
| `timespec` | 45 times, squared, by the modelled operators; a second of 10 ns | `Exact` |
| `authority` | 2 nodes with clocks 3 apart, which move once (a drift by 1 or a step), one request each, 2 datagrams received, 1 unit of time | `AnswersItsSender`, `OffsetWithinDelay`, `AllEnd` |
| `socket` | receive, refresh and main thread, 3 descriptors, a system that refuses sockets | `LeftLockedByFailureOnly`, `ReadersCounted`, `NoneLost`, `ReceivesUntilStopped`, `StopReturns` |
| `socket_recreated` | the same, a system that refuses nothing | violated: two threads that replace the socket leave the lock held |
| `nodes` | 2 nodes of the program, one elsewhere, and the first node's own address; both kinds of build; one node that hangs | `RegisteredOnce`, `NodeOutlivesCalls`, `Linked`, `ProgramEnds` |

Why the bounds suffice to see the cases: with 2 rounds per node an answer to the first
can arrive after one to the second; two datagrams in flight are the least with
reordering; three nodes are the least with a threshold (all siblings but one) above
zero. `KeepsPromise` and `SecondRoundNeeded` are asked of the run without loss, where
both ends of a link have rounds enough to view each other as consistent, so that a node
with two siblings is untainted; with 2, 1 and 0 rounds none is. That the network may
lose what it likes is in their theorems. A poll interval that grows as in the program (2
then 8 for 4 then 64) and a `StepOut` of several intervals, of either length, let a
discalibration, a spike and a duplicate answer hit a training at every point, and a
spike that is cut short shorten the next one. With two ticks to a nanosecond a reading
of 1 is truncated to nothing and one of 2 is not; the counter moves within a call and
between calls, and falls at each of these points. Two callers are the least that
overlap. A second of 10 ns makes every carry of up to three turns happen. Two datagrams
are the least for the buffer to be overwritten under a thread, and for an answer to
another node's request; one unit of time and one move of a clock can fall on the way to
the authority or on the way back. Three descriptors are one open, one lost and one to
come. Two nodes are the least that register with each other; one that hangs is enough to
stop the program. The theorems hold without these bounds. `CHECK_DEADLOCK FALSE` is set
where bounded rounds, a destroyed node, the end of the program or a stopped thread end
the run.

### Fairness

* `Untaint`: the trigger wakes the refresh thread every second while the node is
  tainted, so its steps, enabled again and again, happen (strong fairness, for
  the bound on datagrams disables them at times); the receive thread takes what
  arrives (weak). `Steady` restricts the run to clocks that stay in agreement,
  which is the case the property is about. The network of this run loses nothing.
* `Retaint`: every thread is scheduled and gets `tainted_mutex`, which is free again
  and again, in the end (strong). An AEX, a gap or a self-taint is never due.
* `Shutdown`: every thread is scheduled. The monitor thread advances between
  two AEX (strong, as each AEX disables it for a while). No AEX, self-taint or
  destruction is ever due.
* `TimeSync`: both threads run; of requests sent again and again some are
  answered (strong). A discalibration is never due.
* `Timestamps`: the monitor thread measures on, calls get on (weak). Whether the
  node stays ready is a hypothesis of `CallsReturn`.
* `TimeAuthority`: the started threads are scheduled (weak) and get `sendMutex`
  (strong). No request, answer or receipt is due: messages may be lost.
* `Socket`: every thread is scheduled, and gets the lock when it is free again and
  again (strong); a send, a registration or a stop is never due.
* `NodeManager`: every thread is scheduled, and main; but not for certain those of a stuck
  node, nor main while there is one. That the receive thread ends before the stop is not
  due. Who spins in `get_timestamp` sees a node serve that does so again and again
  (strong). The end of `sleep` is not due, which is why `ProgramEnds` says that main gets
  to its sleep or to its end again and again: once to the sleep and, if that ever ends, to
  the end.

## Findings

Each is a run expected to fail; PROJECT.json quotes the lines.

1. A refresh thread that reads `stop` before it is set and sleeps after the one signal
   of `stop_tasks` sleeps for ever, and the join with it (216, 320):
   `shutdown_overslept`. Once the monitor thread and the trigger have ended nothing
   wakes it any more, in any instance (`OversleptForGood`).
2. The receive thread replaces a failed socket without the lock (475 to 477). When a
   sender does so too, the sender's descriptor can be lost while it has the port;
   the next `bind` fails and `setup_socket` returns with the lock held (442). The log
   says "Socket recreated." all the same (478, 543): `socket_recreated`. Where the system
   refuses nothing this is the only way to such a failure (`FailsByTwoOnly`).

Observations that appear as conditions of properties, or beside them:

* The genuine answer to a node's round 0 is logged as replayed and not recorded, because
  registers start at 0 and the test is strict (690, 697). `SecondRoundNeeded` says what
  follows: a node with two siblings or more is never untainted by its first round.
* With AEX Notify, an AEX in the monitor's critical section waits for the mutex of the
  thread it interrupted (134, 979 to 982); `stop_tasks` waits, too
  (`StopReturnsUnlessSelfLocked`, `SelfLocked` in `TaintIsAnswered`). It does so for
  ever: the node stays tainted (`TaintedForGood`) and is never destroyed
  (`SelfLockedForGood`).
* `stop_tasks` goes on when one thread of each pair has stopped (316, 322), whatever
  its log says.
* A training of `STEP_OUT_THRESHOLD_S` counted seconds lasts a poll interval less, as
  the first answer counts, too (1166).
* `LoopEndsAnswered` holds with AEX Notify only: without it the AEX is counted (1013)
  before the node is tainted (1015), and the loop of requests may end between a count
  it has seen and the taint. The trigger repairs that within a second
  (`TaintIsAnswered`).
* An answer to an older round can clear a taint set after it was sent (690 to 722
  compare rounds with each other, not with the AEX). An AEX whose taint is cleared while
  the refresh thread is outside its loop leaves nothing behind: the taint is gone, and
  `TaintIsAnswered` takes it for answered.
* The monitor's FREQ (991) leaves `pass_count` alone. A training that begins where a
  spike was cut short counts the spike's time (1148, then 1166) and is the shorter for
  it: the condition `cut` of `TrainedInFull`.
* The same FREQ is lost when the receive thread, which looked at `node_state` before it,
  writes SPIK or SYNC after it (775, 1152, 1160): the node is then calibrated but not
  trained anew. `RetrainingKept` says that only an answer measured before does so.
* A TSC that has gone back is stored before it is noticed (1006 to 1039), and the
  monitor's store can undo that of the AEX handler (954 to 957, 146). A call that does not
  wait then adds a negative time; a client's waits until `tsc` has passed `tsc_ref`
  again (1294). Hence `back` in `NeverGoesBack`.
* Each call that finds ticks to convert loses less than a nanosecond (1296 truncates,
  1297 moves `tsc_ref` up in full), and what `tsc` moved between its two readings:
  `slack` in `TicksCountedOnce`. The clock of a node that is asked often is slow.
* The authority ends when it fails to receive once, whatever requests its threads are
  answering (`server.cpp` 152 to 156): `exited` in `AllEnd`.
* Two siblings that register with each other from two threads can end up twice in
  the vector (1257 to 1262, 563 to 565), or one of them is overwritten: the condition
  `raced` of `RegisteredOnce`. The threshold `siblings.size()-1` then leaves less room for
  a sibling that does not answer.
* Overlapping calls of `get_timestamp` can count ticks twice or not at all, and return
  a time before one already returned (1295 to 1299); one that overlaps a step of
  the clock can lose that step: the conditions `clean` and `raced`.
* A receive thread that looks while a sender replaces the socket ends for good (462), and
  so does one whose answer finds no socket (512, 629, 857, then 455).

## What is proved

TLAPS checks the following for all values of the constants, under the named
assumptions of the modules (finite `Node`, `Links` a set of pairs of nodes,
bounds natural numbers, a `Billion` that is even and positive, finite `Sender`,
a poll interval of whole seconds that does not shrink, as with 2 and 6 of line 256 and
`ENode.h` 178).

* `UntaintProofs`. The invariant `IInv` joins the typing with what messages and
  registers say: a T or U in flight is about a sent round; a U in flight was vouched for
  by its sender; a favourable register is of a round that was vouched for.
  `EvidenceIsVouched` alone is not inductive: it needs the same of the messages that
  become registers, and `OnlySentRounds` the same of T, whose number comes back in U.
  From it: `Typing`, `SentRounds`, `Evidence`, `Monotone` (an action property),
  `FirstRoundIdle` and `Implements`: each action maps to one of `PeerTrust` or to a
  stutter. `FirstRoundIdle` rests on `FirstUnrecorded`, that a favourable register is of
  a later round than 0, and on that with two siblings one of them at least must be
  counted as consistent. The only hard case of `Implements` is `HandleU`: the siblings
  counted as consistent share one round, the latest, and are the witness of `Answered`.
* `ShutdownProofs`. `TypeOK`, whose last part says that the mutex belongs to the thread
  in a critical section, with `DestroyedLast` (the destructor joins first); together
  inductive. `NoOtherDeadlock`, which states `NeverStuck`, is the safety half of the two
  liveness properties: in every state from the beginning of `stop_tasks` to the
  destruction some thread can go on, in either build, but where the monitor thread has
  locked itself out (`SelfLocked`) or the refresh thread slept past the signal
  (`Overslept`). The guards are written out, since ENABLED is beyond the prover. It
  needs that a thread that ends sets its flag (`Flagged`), and that who sleeps after the
  signal went to sleep after it (`SleptInLate`). `SelfLockedForGood` and
  `OversleptForGood` say that these two exceptions are ends and not delays: each, once
  it holds, holds for ever, and `destroyed` is never reached. The second needs `Past`:
  after the last signal main does not come back to it, and a handler that waits for the
  mutex runs on a monitor thread that has not ended.
* `RetaintProofs`. `MutexHeld`, and `EndsAnswered`, an action property. Its invariant
  `Remembered` is what the order of the handler's two writes (taint, then count) is for:
  while the refresh thread waits for answers or compares the count, a taint that the
  count does not show is about to be counted, or is in force with nobody about to clear
  it. `LoopEndsAnswered` alone speaks of neither the wait nor of who clears, and is not
  inductive. `TaintedForGood`: a monitor thread that has locked itself out holds the
  mutex with the taint set (`HeldTainted`), so that the receive thread, which alone
  clears it, never gets there.
* `TimeSyncProofs`. The invariant adds what a pending write of `node_state` implies
  (outside a training; after `pass_count` was reset) and that nothing leaves the
  initial state before the first training ends. From it `TrainedFirst` and
  `TrainingKept`. `NoTrainingCutShort` needs in addition that outside a spike
  `pass_count` is what the training under way has counted, unless one was cut short;
  `RetrainingNotLost` that an answer measured in FREQ writes neither SPIK nor SYNC,
  unless it ends a training. `WellTyped` bounds `poll_count`, which the monitor
  thread compares with the interval for equality while the receive thread changes the
  interval: it only ever grows, so the count cannot pass it.
* `TimestampsProofs`. For each place of a call, while calls have not overlapped, what
  the local values are in terms of the references: the sum that `TicksCountedOnce`
  states between calls is carried, up to `slack`, through every access; that truncation
  costs no more than `Rounding` is a lemma on `\div`. `NoneGoesBack` needs besides
  that the references are not below the time returned last, and that without `back`
  whoever is between his readings has found `tsc` no less than `tsc_ref`. `WellTyped`
  says with the types that `tsc_ref` is a reading of `tsc`, whatever the threads do.
* `TimeAuthorityProofs`. What a thread holds was received no earlier than its own
  datagram; its two stamps lie between the request's sending and now, in this order.
  From the latter `ErrorBounded`: the offset against the mean of two clocks, that of
  whoever sent the request when it was sent and the node's own when the answer came,
  errs by the difference of the two delays, wherever clocks moved in between.
  `StepsCorrect` is what the code is for: where the answer is to the node's own request
  and its clock has not moved since, a step by the offset leaves it within half the time
  of the exchange of the authority's clock. The same module has `Timespec`, with which
  that offset is computed. The loops of `standardize` keep the value, which the raw
  result has (`Arithmetic`). The provers know nothing of `\div` and `%` with a divisor
  that is not a literal, so that there is a remainder is proved first, as the least
  natural number that differs from the value by a multiple (`Least`, `Divides`,
  `Quotient`); then the loops' result, which is in normal form and has the right value,
  is the quotient and the remainder (`LoopsDivide`). Times in normal form are compared
  by fields as by value (`NormalOrder`), from which `LessIsOrder` for any operands.
  `OffsetComputed` joins the two modules: the expression of lines 687 and 772, evaluated
  operator by operator, is in normal form and one of the two roundings (`Halves`) among
  which `HandleD` chooses.
* `SocketProofs`. Every action is one of five ways to treat the lock and one of four to
  treat the descriptors (`NextSteps`, `FdSteps`), so that the invariants are proved per
  way. `LockInv`: the threads in reading places are at least as many as the lock counts,
  and as many while `unheld` and `failed` are false; the owner is the thread in a
  writing place. `FdInv`: without `both` at most one thread is replacing, and in the
  places between closing and opening nothing is open. Repeated sends make an unlock take
  off a reader of another thread: that the count still never exceeds the number of
  threads (`WellTyped`) needs that an unlock by a thread in a reading place lowers both.
  `RoadInv`: where `sock` is 0 a thread is about to set a socket up, or the node is
  stopped, or a failure has been; from it `ReceivesOn`, for the receive thread ends
  where it finds no socket, at its own check or at that of `sendMessage`. `NoLockLeft`
  is the safety half of `StopReturns`: but after a failed setup, whenever the lock is
  taken some thread is between the two calls of the lock, so that nobody waits for a
  thread that has gone. `FailsByTwoOnly`, for a system that refuses nothing: without
  `both` nothing has the port when a socket is to be bound (`Fresh`), so that the bind
  succeeds and no failure is left.
* `NodeManagerProofs`. A node is deleted by the program's thread only where its own
  threads and its client have been joined, and a joined thread does not start again
  (`LifeInv`): from it `CallsEndFirst`. `RegInv`: whom a thread has searched is still
  missing while the vector has the length it had then (`Missing`); an extension by
  the other thread changes the length, and is recorded in `raced`. From it `OnceOnly`.
  `WellTyped` says with the types that no node is among its own siblings: its own
  address may be given, and is filtered by line 1257, S comes from others. `Order` and
  `Layout` describe `Script` for any number of nodes (which operations come before
  which), and are what two further theorems rest on:
  * `JoinsEnd` (`AwaitedAreTold`): main joins only threads that were started and told to
    stop, so that of the joins only one with a node that hangs may not end;
  * `IntroducedOrLost` (`Introduced`): once main has introduced n to m, n knows m, and m
    knows n, is about to, or S is under way or lost, unless the threads of one of the two
    overlapped: the safety half of `Linked`. Its invariant `IntroInv` follows the message
    from the vector it is sent for to the vector it extends: main adds whom it searched
    (`Searched`, `Added`), a later node that a vector was extended with was sent S or is
    about to be (`Answered`), and S is sent to later nodes only (`Upwards`), so that a
    node that was extended by S has not to be told in turn.

Only model-checked: the liveness properties `SupportedUntaints`, `TaintIsAnswered`,
`StopReturnsUnlessSelfLocked`, `DestroyedUnlessOverslept`, `ReachesSync`, `CallsReturn`,
`AllEnd`, `StopReturns`, `Linked` and `ProgramEnds`, as TLAPS does not treat liveness
under fairness. For the stopping of a node, the socket and the program the theorems
above exclude the standstills that would refute them; that each thread gets on in the end
is TLC's. Every invariant and every other action property of a run is a theorem.

## Not modelled

* `Libsodium` and the encryption around it: vendored, pure functions, and most of the
  lines of this repository's C code; together with the headers of a C library under
  `sgx_socket/include` they are the reason why the map, which covers the service's
  code to a large part, names a small share of all lines. What the service relies on,
  that what decrypts was encrypted as a whole, is in `TimeAuthority` and `Socket`.
* Floating-point arithmetic: the correction of `tsc_freq` (`discipline_clock`, the end
  of a training) and the operators of `timespec.h` on doubles. TLC has no such numbers,
  and no property here depends on the value of the frequency.
* The simulated TSC offset (`shadow_tsc_update`) and the authority's asked-for sleep,
  which are parts of experiments; the sleep is time passing in `TimeAuthority`.
* `AEXTest`: a measuring program that shares neither code nor state with the service.
* Printing, plotting and deployment scripts, the affinity of threads, the enclave's
  launch token: input and output without a decision of the service.
* A composition of all modules. Each pair of components that shares state is in one
  module; their product is beyond TLC's reach, and the inputs left open in one
  module allow whatever the other does.
