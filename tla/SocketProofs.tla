---------------------------- MODULE SocketProofs ----------------------------
(***************************************************************************)
(* For every finite set of sending threads and every number of descriptors *)
(* the state of Socket is well formed, socket_rwlock is left locked by     *)
(* failures only, it counts its readers, no descriptor is lost but by two  *)
(* replacements of the socket at once, and the receive thread ends early   *)
(* only where it meets one of these or a sender that replaces the socket.  *)
(* Where the system refuses nothing, setup_socket fails only after two     *)
(* threads replaced the socket at once.                                    *)
(***************************************************************************)
EXTENDS Socket, FiniteSetTheorems, TLAPS

Holders == {t \in Thread : pc[t] \in Reading}
Free == Place \ (Reading \cup Writing)

(* What is left of TypeOK without the bound on readers. *)
Kinds ==
  /\ readers \in Nat /\ owner \in Thread \cup {Nobody}
  /\ pc \in [Thread -> Place]

Flags ==
  /\ detects \in BOOLEAN /\ stop \in BOOLEAN
  /\ failed \in BOOLEAN /\ unheld \in BOOLEAN /\ both \in BOOLEAN

(* Unlocking without holding can only lower the count. *)
NotMore == readers <= Cardinality(Holders)

NoneBesideOwner == owner # Nobody => readers = 0

OwnerWrites == ~failed => \A t \in Thread : owner = t <=> pc[t] \in Writing

LockInv == Kinds /\ NotMore /\ NoneBesideOwner /\ OwnerWrites /\ ReadersCounted

-----------------------------------------------------------------------------
(* The steps of Socket, as the lock sees them. *)

Moves(t, From, To) ==
  pc[t] \in From /\ \E p \in To : pc' = [pc EXCEPT ![t] = p]

Locks(t) ==
  \/ Moves(t, Free, Reading) /\ Rdlock(t)
  \/ Moves(t, Free, Writing) /\ Wrlock(t)

Unlocks(t) == Moves(t, Reading \cup Writing, Free) /\ Unlock(t)

Stays(t) ==
  /\ UNCHANGED lock
  /\ Moves(t, Reading, Reading) \/ Moves(t, Writing, Writing)
       \/ Moves(t, Free, Free)

LeavesLocked(t) == Moves(t, Writing, Free) /\ UNCHANGED lock /\ failed'

SendsUnheld(t) == Moves(t, Free, Reading) /\ UNCHANGED lock /\ unheld'

(* A history that is set stays set. *)
Remembers == (failed => failed') /\ (unheld => unheld')

LockStep ==
  /\ Remembers
  /\ \E t \in Thread :
       Locks(t) \/ Unlocks(t) \/ Stays(t) \/ LeavesLocked(t) \/ SendsUnheld(t)

(* Each action of a thread is one of these steps. *)
LEMMA SendSteps ==
  ASSUME NEW t \in Sender \cup {"receive"}, SendMessage(t)
  PROVE  LockStep
<1> USE DEF LockStep, Remembers, Calls, Goto, Moves, Free, Place, SendPlace,
            SetupPlace, RecvPlace, MainPlace, Reading, Writing, Back,
            NoSocket
<1> t \in Thread
  BY DEF Thread
<1>1. CASE SendRdlock(t)
  BY <1>1 DEF SendRdlock, Locks
<1>2. CASE SendCheck(t)
  BY <1>2 DEF SendCheck, Unlocks, Stays
<1>3. CASE Sendto(t)
  BY <1>3 DEF Sendto, Stays
<1>4. CASE SendUnlock(t)
  BY <1>4 DEF SendUnlock, Unlocks
<1>5. CASE Resend(t)
  BY <1>5 DEF Resend, Stays, SendsUnheld
<1>6. CASE SendWrlock(t)
  BY <1>6 DEF SendWrlock, Locks
<1>7. CASE SendClose(t)
  BY <1>7 DEF SendClose, Stays
<1>8. CASE SendClosed(t)
  BY <1>8 DEF SendClosed, Unlocks
<1> QED
  BY <1>1, <1>2, <1>3, <1>4, <1>5, <1>6, <1>7, <1>8 DEF SendMessage

LEMMA SetupSteps ==
  ASSUME NEW t \in Thread, SetupSocket(t)
  PROVE  LockStep
<1> USE DEF LockStep, Remembers, Calls, Goto, Moves, Free, Place, SendPlace,
            SetupPlace, RecvPlace, MainPlace, Reading, Writing, Back, Fails
<1>1. CASE SetupWrlock(t)
  BY <1>1 DEF SetupWrlock, Locks
<1>2. CASE SocketCall(t)
  BY <1>2 DEF SocketCall, Stays, LeavesLocked
<1>3. CASE Bind(t)
  BY <1>3 DEF Bind, Stays, LeavesLocked
<1>4. CASE SetupUnlock(t)
  <2>1. Back(t) \in Free
    BY Zenon
  <2>2. Moves(t, Reading \cup Writing, Free)
    BY <1>4, <2>1 DEF SetupUnlock
  <2> QED
    BY <1>4, <2>2 DEF SetupUnlock, Unlocks
<1> QED
  BY <1>1, <1>2, <1>3, <1>4 DEF SetupSocket

LEMMA OtherSteps ==
  ASSUME LoopRecvfrom \/ Main \/ \E t \in Sender \cup {"receive"} : StartThread(t)
  PROVE  LockStep
<1> USE DEF LockStep, Remembers, Calls, Goto, Moves, Free, Place, SendPlace,
            SetupPlace, RecvPlace, MainPlace, Reading, Writing, Back
<1> "receive" \in Thread /\ "main" \in Thread
  BY DEF Thread
<1>1. CASE RecvRdlock
  BY <1>1 DEF RecvRdlock, Locks, Stays
<1>2. CASE RecvCheck
  BY <1>2 DEF RecvCheck, Unlocks, Stays
<1>3. CASE Recvfrom \/ RecvClose \/ RecvForget \/ Handled
  BY <1>3 DEF Recvfrom, RecvClose, RecvForget, Handled, Stays
<1>4. CASE RecvUnlock
  BY <1>4 DEF RecvUnlock, Unlocks
<1>5. CASE AddSend \/ AddClose \/ Stop \/ StopClose
  BY <1>5 DEF AddSend, AddClose, Stop, StopClose, Stays
<1>6. CASE AddWrlock \/ StopWrlock
  BY <1>6 DEF AddWrlock, StopWrlock, Locks
<1>7. CASE AddUnlock \/ StopUnlock
  BY <1>7 DEF AddUnlock, StopUnlock, Unlocks
<1>8. ASSUME NEW t \in Sender \cup {"receive"}, StartThread(t)
      PROVE  LockStep
  <2> t \in Thread
    BY DEF Thread
  <2> QED
    BY <1>8 DEF StartThread, Stays
<1> QED
  BY <1>1, <1>2, <1>3, <1>4, <1>5, <1>6, <1>7, <1>8 DEF LoopRecvfrom, Main

(* Every step of Socket changes the lock in one of these ways, or not. *)
LEMMA NextSteps ==
  ASSUME [Next]_vars
  PROVE  LockStep \/ UNCHANGED vars
  BY SendSteps, SetupSteps, OtherSteps DEF Next

-----------------------------------------------------------------------------
(* How many threads read, before and after a step. *)

LEMMA HoldersFinite ==
  /\ IsFiniteSet(Thread) /\ IsFiniteSet(Holders)
  /\ Cardinality(Holders) \in Nat /\ Cardinality(Thread) \in Nat
  /\ Cardinality(Holders) <= Cardinality(Thread)
<1>1. IsFiniteSet(Sender \cup {"receive"})
  BY SenderAssumption, FS_AddElement
<1>2. IsFiniteSet((Sender \cup {"receive"}) \cup {"main"})
  BY <1>1, FS_AddElement
<1>3. Thread = (Sender \cup {"receive"}) \cup {"main"}
  BY DEF Thread
<1>4. IsFiniteSet(Thread)
  BY <1>2, <1>3
<1>5. Holders \in SUBSET Thread
  BY DEF Holders
<1> QED
  BY <1>4, <1>5, FS_Subset, FS_CardinalityType

LEMMA OneMore ==
  ASSUME Kinds, NEW t \in Thread, Moves(t, Free, Reading)
  PROVE  Cardinality(Holders)' = Cardinality(Holders) + 1
<1>1. Holders' = Holders \cup {t} /\ t \notin Holders
  BY DEF Kinds, Moves, Holders, Free
<1> QED
  BY <1>1, HoldersFinite, FS_AddElement

LEMMA OneLess ==
  ASSUME Kinds, NEW t \in Thread, Moves(t, Reading, Free)
  PROVE  Cardinality(Holders)' = Cardinality(Holders) - 1
<1>1. Holders' = Holders \ {t} /\ t \in Holders
  BY DEF Kinds, Moves, Holders, Free
<1> QED
  BY <1>1, HoldersFinite, FS_RemoveElement

LEMMA AsMany ==
  ASSUME Kinds, NEW t \in Thread,
         \/ Moves(t, Reading, Reading)
         \/ Moves(t, Free \cup Writing, Free \cup Writing)
  PROVE  Holders' = Holders
<1>1. Reading \cap (Free \cup Writing) = {}
  BY DEF Free, Reading, Writing
<1> QED
  BY <1>1 DEF Kinds, Moves, Holders

LEMMA StillPlaces ==
  ASSUME Kinds, LockStep
  PROVE  pc' \in [Thread -> Place]
<1>1. /\ Reading \subseteq Place /\ Writing \subseteq Place
      /\ Free \subseteq Place
  BY DEF Reading, Writing, Free, Place, SendPlace, SetupPlace, RecvPlace,
         MainPlace
<1> QED
  BY <1>1 DEF Kinds, LockStep, Locks, Unlocks, Stays, LeavesLocked,
              SendsUnheld, Moves

-----------------------------------------------------------------------------
(* Each way of changing the lock keeps the invariant. *)

LEMMA LocksKeep ==
  ASSUME LockInv, Remembers, pc' \in [Thread -> Place],
         NEW t \in Thread, Locks(t)
  PROVE  LockInv'
<1> USE DEF LockInv, Kinds
<1>1. Reading \cap Writing = {} /\ Free \cap Writing = {} /\ Free \cap Reading = {}
  BY DEF Free, Reading, Writing
<1>2. pc[t] \in Free /\ (~failed => owner # t)
  BY <1>1 DEF Locks, Moves, OwnerWrites
<1>3. CASE Moves(t, Free, Reading) /\ Rdlock(t)
  <2>1. Cardinality(Holders)' = Cardinality(Holders) + 1
    BY <1>3, OneMore
  <2>2. \A u \in Thread : pc'[u] \in Writing <=> pc[u] \in Writing
    BY <1>1, <1>2, <1>3 DEF Moves
  <2>3. owner' = owner /\ (~failed => owner = Nobody /\ readers' = readers + 1)
        /\ readers' \in {readers, readers + 1}
        /\ (readers' = readers + 1 => owner = Nobody)
    <3>1. CASE owner = Nobody /\ readers' = readers + 1 /\ owner' = owner
      BY <3>1
    <3>2. CASE Own(t)
      BY <3>2, <1>2 DEF Own, lock
    <3> QED
      BY <1>3, <3>1, <3>2 DEF Rdlock
  <2> QED
    BY <2>1, <2>2, <2>3, HoldersFinite
       DEF NotMore, NoneBesideOwner, OwnerWrites, ReadersCounted, Remembers,
           Holders
<1>4. CASE Moves(t, Free, Writing) /\ Wrlock(t)
  <2>1. Holders' = Holders
    BY <1>1, <1>4, AsMany DEF Moves
  <2>2. \A u \in Thread : pc'[u] \in Writing <=> pc[u] \in Writing \/ u = t
    BY <1>1, <1>2, <1>4 DEF Moves
  <2>3. readers' = readers /\ owner' = t /\ t # Nobody
        /\ (owner # t => owner = Nobody /\ readers = 0)
    BY <1>4, NobodyAssumption DEF Wrlock, Own, lock
  <2>4. ~failed => owner = Nobody
    BY <1>2, <2>3
  <2> QED
    BY <2>1, <2>2, <2>3, <2>4, NobodyAssumption
       DEF NotMore, NoneBesideOwner, OwnerWrites, ReadersCounted, Remembers,
           Holders
<1> QED
  BY <1>3, <1>4 DEF Locks

LEMMA UnlocksKeep ==
  ASSUME LockInv, Remembers, pc' \in [Thread -> Place],
         NEW t \in Thread, Unlocks(t)
  PROVE  LockInv'
<1> USE DEF LockInv, Kinds
<1>1. Reading \cap Writing = {} /\ Free \cap Writing = {} /\ Free \cap Reading = {}
  BY DEF Free, Reading, Writing
<1>2. /\ owner' = IF owner = t THEN Nobody ELSE owner
      /\ readers' = IF owner # t /\ readers > 0 THEN readers - 1 ELSE readers
  BY DEF Unlocks, Unlock
<1>3. \A u \in Thread : pc'[u] \in Writing <=> pc[u] \in Writing /\ u # t
  BY <1>1 DEF Unlocks, Moves
<1>4. OwnerWrites'
  BY <1>2, <1>3, NobodyAssumption DEF OwnerWrites, Remembers
<1>5. CASE pc[t] \in Reading
  <2>1. Cardinality(Holders)' = Cardinality(Holders) - 1
    BY <1>1, <1>5, OneLess DEF Unlocks, Moves
  <2>2. ~failed => owner # t
    BY <1>1, <1>5 DEF OwnerWrites
  <2>3. Cardinality(Holders) >= 1
    <3>1. Holders # {}
      BY <1>5 DEF Holders
    <3> QED
      BY <3>1, HoldersFinite, FS_EmptySet
  <2>4. NotMore' /\ NoneBesideOwner' /\ readers' \in Nat
    <3>1. t # Nobody
      BY NobodyAssumption
    <3>2. readers' \in Nat /\ readers' <= Cardinality(Holders) - 1
      BY <1>2, <2>3, <3>1, HoldersFinite DEF NotMore, NoneBesideOwner
    <3>3. NotMore'
      BY <2>1, <3>2 DEF NotMore
    <3>4. NoneBesideOwner'
      BY <1>2 DEF NoneBesideOwner
    <3> QED
      BY <3>2, <3>3, <3>4
  <2>5. ReadersCounted'
    BY <1>2, <2>1, <2>2, <2>3, HoldersFinite DEF ReadersCounted, Remembers, Holders
  <2> QED
    BY <1>2, <1>4, <2>4, <2>5
<1>6. CASE pc[t] \in Writing
  <2>1. Holders' = Holders
    BY <1>1, <1>6, AsMany DEF Unlocks, Moves
  <2>2. ~failed => owner = t
    BY <1>6 DEF OwnerWrites
  <2>3. NotMore' /\ NoneBesideOwner' /\ readers' \in Nat
    <3>1. Cardinality(Holders)' = Cardinality(Holders)
      BY <2>1
    <3>2. readers' \in Nat /\ readers' <= readers
      BY <1>2
    <3>3. NotMore'
      BY <3>1, <3>2, HoldersFinite DEF NotMore
    <3>4. NoneBesideOwner'
      BY <1>2 DEF NoneBesideOwner
    <3> QED
      BY <3>2, <3>3, <3>4
  <2>4. ReadersCounted'
    BY <1>2, <2>1, <2>2, HoldersFinite DEF ReadersCounted, Remembers, Holders,
       NoneBesideOwner
  <2> QED
    BY <1>2, <1>4, <2>3, <2>4
<1> QED
  BY <1>5, <1>6 DEF Unlocks, Moves

LEMMA OthersKeep ==
  ASSUME LockInv, Remembers, pc' \in [Thread -> Place], NEW t \in Thread,
         Stays(t) \/ LeavesLocked(t) \/ SendsUnheld(t)
  PROVE  LockInv'
<1> USE DEF LockInv, Kinds
<1>1. Reading \cap Writing = {} /\ Free \cap Writing = {} /\ Free \cap Reading = {}
  BY DEF Free, Reading, Writing
<1>2. owner' = owner /\ readers' = readers
  BY DEF Stays, LeavesLocked, SendsUnheld, lock
<1>3. CASE Stays(t)
  <2>1. Holders' = Holders
    BY <1>1, <1>3, AsMany DEF Stays, Moves
  <2>2. \A u \in Thread : pc'[u] \in Writing <=> pc[u] \in Writing
    BY <1>1, <1>3 DEF Stays, Moves
  <2> QED
    BY <1>2, <2>1, <2>2 DEF NotMore, NoneBesideOwner, OwnerWrites,
       ReadersCounted, Remembers, Holders
<1>4. CASE LeavesLocked(t)
  <2>1. Holders' = Holders
    BY <1>1, <1>4, AsMany DEF LeavesLocked, Moves
  <2> QED
    BY <1>2, <1>4, <2>1 DEF NotMore, NoneBesideOwner, OwnerWrites,
       ReadersCounted, LeavesLocked
<1>5. CASE SendsUnheld(t)
  <2>1. Cardinality(Holders)' = Cardinality(Holders) + 1
    BY <1>5, OneMore DEF SendsUnheld
  <2>2. \A u \in Thread : pc'[u] \in Writing <=> pc[u] \in Writing
    BY <1>1, <1>5 DEF SendsUnheld, Moves
  <2>3. NotMore' /\ NoneBesideOwner' /\ OwnerWrites'
    BY <1>2, <2>1, <2>2, HoldersFinite
       DEF NotMore, NoneBesideOwner, OwnerWrites, Remembers
  <2>4. ReadersCounted'
    BY <1>5 DEF SendsUnheld, ReadersCounted
  <2> QED
    BY <1>2, <2>3, <2>4
<1> QED
  BY <1>3, <1>4, <1>5

LEMMA LockInvKept ==
  ASSUME LockInv, [Next]_vars
  PROVE  LockInv'
<1>1. CASE LockStep
  <2>1. pc' \in [Thread -> Place]
    BY <1>1, StillPlaces DEF LockInv
  <2> QED
    BY <1>1, <2>1, LocksKeep, UnlocksKeep, OthersKeep DEF LockStep
<1>2. CASE UNCHANGED vars
  BY <1>2 DEF vars, lock, history, LockInv, Kinds, NotMore, NoneBesideOwner,
              OwnerWrites, ReadersCounted, Holders
<1> QED
  BY <1>1, <1>2, NextSteps

LEMMA LockInvInit == Init => LockInv
<1> SUFFICES ASSUME Init PROVE LockInv
  OBVIOUS
<1>1. Holders = {}
  BY DEF Init, Holders, Reading, SetupPlace
<1>2. Cardinality(Holders) = 0
  BY <1>1, FS_EmptySet
<1>3. \A t \in Thread : pc[t] \in Place /\ pc[t] \notin Writing
  BY DEF Init, Writing, Place, SendPlace, SetupPlace, RecvPlace, MainPlace
<1> QED
  BY <1>2, <1>3, NobodyAssumption
     DEF Init, LockInv, Kinds, NotMore, NoneBesideOwner, OwnerWrites,
         ReadersCounted, Holders

-----------------------------------------------------------------------------
(* socket_rwlock is left locked for writing only by setup_socket failing.  *)
THEOREM LeftByFailure == Spec => []LeftLockedByFailureOnly
<1>1. LockInv => LeftLockedByFailureOnly
  BY DEF LockInv, OwnerWrites, LeftLockedByFailureOnly
<1> QED
  BY <1>1, LockInvInit, LockInvKept, PTL DEF Spec

(* Unless a send was repeated or the lock was left behind, it counts those *)
(* who read, and nobody reads while another replaces the socket.           *)
THEOREM Counted == Spec => []ReadersCounted
<1>1. LockInv => ReadersCounted
  BY DEF LockInv
<1> QED
  BY <1>1, LockInvInit, LockInvKept, PTL DEF Spec

(* A thread that waits for the lock waits for one that holds it: one that   *)
(* is between the two calls of the lock, where none waits.                  *)
LockComesFree ==
  ~failed /\ (owner # Nobody \/ readers > 0) =>
    \E t \in Thread : pc[t] \in Reading \cup Writing

(* For any number of senders no thread waits for socket_rwlock while nobody *)
(* is to unlock it, but after a failed setup_socket: the lock never counts  *)
(* a reader that has gone, and never keeps an owner that has.               *)
THEOREM NoLockLeft == Spec => []LockComesFree
<1>1. ASSUME LockInv, ~failed, owner # Nobody
      PROVE  \E t \in Thread : pc[t] \in Reading \cup Writing
  BY <1>1 DEF LockInv, Kinds, OwnerWrites
<1>2. ASSUME LockInv, readers > 0
      PROVE  \E t \in Thread : pc[t] \in Reading \cup Writing
  <2>1. Holders # {}
    BY <1>2, HoldersFinite, FS_EmptySet DEF LockInv, Kinds, NotMore
  <2> QED
    BY <2>1 DEF Holders
<1>3. LockInv => LockComesFree
  BY <1>1, <1>2 DEF LockComesFree
<1> QED
  BY <1>3, LockInvInit, LockInvKept, PTL DEF Spec

-----------------------------------------------------------------------------
(* The descriptors.  A thread in one of these places has closed the socket, *)
(* and nobody else opens one unless two replace it at once.                *)
Closed == {"closed", "setup", "socket", "recvForget"}

Descriptors ==
  /\ sock \in 0 .. MaxFd /\ open \subseteq 1 .. MaxFd
  /\ bound \in open \cup {0}

OneReplaces ==
  both \/ \A t, u \in Thread : pc[t] \in Replacing /\ pc[u] \in Replacing => t = u

Emptied == both \/ \A t \in Thread : pc[t] \in Closed => open = {}

FdInv == Kinds /\ Flags /\ Descriptors /\ OneReplaces /\ Emptied /\ NoneLost

(* The steps of Socket, as the descriptors see them. *)
KeepsFds(from, to) ==
  (to \in Closed => from \in Closed) /\ UNCHANGED <<sock, open>>
  /\ bound' \in {bound} \cup (open \cap {sock})

Closes == Close /\ sock' \in {sock, 0}

Forgets(from) ==
  /\ from \in Closed /\ sock' = 0 /\ UNCHANGED <<open, bound>>

Opens(from, to) ==
  /\ from \in Closed /\ to \notin Closed /\ UNCHANGED bound
  /\ sock' \in 1 .. MaxFd /\ open' = open \cup {sock'}

FlagStep == detects' = detects /\ stop' \in BOOLEAN /\ failed' \in BOOLEAN
            /\ unheld' \in BOOLEAN

FdStep ==
  /\ Flags => FlagStep
  /\ \E t \in Thread, from, to \in Place :
       /\ Goto(t, from, to)
       /\ \/ KeepsFds(from, to) \/ Closes \/ Forgets(from)
          \/ Opens(from, to)

LEMMA SendFdSteps ==
  ASSUME NEW t \in Sender \cup {"receive"}, SendMessage(t)
  PROVE  FdStep
<1> USE DEF FdStep, FlagStep, Flags, Calls, Place, SendPlace, SetupPlace,
            RecvPlace, MainPlace, Closed, Back, NoSocket, KeepsFds, fds, lock
<1> t \in Thread
  BY DEF Thread
<1>1. CASE SendRdlock(t)
  BY <1>1 DEF SendRdlock, Rdlock, Own
<1>2. CASE SendCheck(t)
  BY <1>2 DEF SendCheck, Unlock
<1>3. CASE Sendto(t)
  BY <1>3 DEF Sendto
<1>4. CASE SendUnlock(t)
  BY <1>4 DEF SendUnlock, Unlock
<1>5. CASE Resend(t)
  <2>1. CASE stop /\ Calls(t, "resend", Back(t)) /\ UNCHANGED unheld
    BY <1>5, <2>1 DEF Resend
  <2>2. ASSUME NEW place \in {"sent", "sendAgain", "sendFailed"},
               Goto(t, "resend", place), unheld' = TRUE, UNCHANGED failed
        PROVE  FdStep
    BY <1>5, <2>2 DEF Resend
  <2> QED
    BY <1>5, <2>1, <2>2 DEF Resend
<1>6. CASE SendWrlock(t)
  BY <1>6 DEF SendWrlock, Wrlock, Own
<1>7. CASE SendClose(t)
  BY <1>7 DEF SendClose, CloseSock, Closes
<1>8. CASE SendClosed(t)
  BY <1>8 DEF SendClosed, Unlock
<1> QED
  BY <1>1, <1>2, <1>3, <1>4, <1>5, <1>6, <1>7, <1>8 DEF SendMessage

LEMMA SetupFdSteps ==
  ASSUME NEW t \in Thread, SetupSocket(t)
  PROVE  FdStep
<1> USE DEF FdStep, FlagStep, Flags, Calls, Place, SendPlace, SetupPlace,
            RecvPlace, MainPlace, Closed, Fails, KeepsFds, fds, lock
<1> Back(t) \in {"recv", "idle"}
  BY DEF Back
<1>1. CASE SetupWrlock(t)
  BY <1>1 DEF SetupWrlock, Wrlock, Own
<1>2. CASE SocketCall(t)
  <2>1. UNCHANGED <<bound, lock, stop>>
    BY <1>2 DEF SocketCall
  <2>2. ASSUME sock' \in (1 .. MaxFd) \ open, open' = open \cup {sock'},
               Calls(t, "socket", "bind")
        PROVE  FdStep
    <3>1. Opens("socket", "bind")
      BY <2>1, <2>2 DEF Opens
    <3> QED
      BY <2>1, <2>2, <3>1
  <2>3. ASSUME sock' = 0, UNCHANGED open, Fails(t, "socket")
        PROVE  FdStep
    <3>1. Forgets("socket")
      BY <2>1, <2>3 DEF Forgets
    <3> QED
      BY <2>1, <2>3, <3>1
  <2> QED
    BY <1>2, <2>2, <2>3 DEF SocketCall
<1>3. CASE Bind(t)
  <2>1. UNCHANGED <<sock, lock, stop>>
    BY <1>3 DEF Bind
  <2>2. ASSUME sock \in open, bound' = sock, Calls(t, "bind", "unlock"),
               UNCHANGED open
        PROVE  FdStep
    <3>1. KeepsFds("bind", "unlock")
      BY <2>1, <2>2
    <3> QED
      BY <2>1, <2>2, <3>1
  <2>3. ASSUME Close, Fails(t, "bind")
        PROVE  FdStep
    <3>1. Closes
      BY <2>1, <2>3 DEF Closes
    <3> QED
      BY <2>1, <2>3, <3>1
  <2> QED
    BY <1>3, <2>2, <2>3 DEF Bind
<1>4. CASE SetupUnlock(t)
  BY <1>4 DEF SetupUnlock, Unlock
<1> QED
  BY <1>1, <1>2, <1>3, <1>4 DEF SetupSocket

LEMMA OtherFdSteps ==
  ASSUME LoopRecvfrom \/ Main \/ \E t \in Sender \cup {"receive"} : StartThread(t)
  PROVE  FdStep
<1> USE DEF FdStep, FlagStep, Flags, Calls, Place, SendPlace, SetupPlace,
            RecvPlace, MainPlace, Closed, KeepsFds, fds, lock
<1> "receive" \in Thread /\ "main" \in Thread
  BY DEF Thread
<1>1. CASE RecvRdlock
  BY <1>1 DEF RecvRdlock, Rdlock, Own
<1>2. CASE RecvCheck
  BY <1>2 DEF RecvCheck, Unlock
<1>3. CASE Recvfrom \/ Handled
  BY <1>3 DEF Recvfrom, Handled
<1>4. CASE RecvUnlock
  BY <1>4 DEF RecvUnlock, Unlock
<1>5. CASE RecvClose
  BY <1>5 DEF RecvClose, Closes
<1>6. CASE RecvForget
  BY <1>6 DEF RecvForget, Forgets
<1>7. CASE AddSend \/ Stop
  <2>1. CASE AddSend
    BY <2>1 DEF AddSend
  <2>2. CASE Stop
    BY <2>2 DEF Stop
  <2> QED
    BY <1>7, <2>1, <2>2
<1>8. CASE AddWrlock \/ StopWrlock
  BY <1>8 DEF AddWrlock, StopWrlock, Wrlock, Own
<1>9. CASE AddClose \/ StopClose
  BY <1>9 DEF AddClose, StopClose, CloseSock, Closes
<1>10. CASE AddUnlock \/ StopUnlock
  BY <1>10 DEF AddUnlock, StopUnlock, Unlock
<1>11. ASSUME NEW t \in Sender \cup {"receive"}, StartThread(t)
       PROVE  FdStep
  <2> t \in Thread /\ Back(t) \in {"recv", "idle"}
    BY DEF Thread, Back
  <2> QED
    BY <1>11 DEF StartThread
<1> QED
  BY <1>1, <1>2, <1>3, <1>4, <1>5, <1>6, <1>7, <1>8, <1>9, <1>10, <1>11
     DEF LoopRecvfrom, Main

LEMMA FdSteps ==
  ASSUME [Next]_vars
  PROVE  FdStep \/ UNCHANGED vars
  BY SendFdSteps, SetupFdSteps, OtherFdSteps DEF Next

LEMMA FdInvKept ==
  ASSUME FdInv, Kinds', [Next]_vars
  PROVE  FdInv'
<1> USE DEF FdInv
<1>1. CASE UNCHANGED vars
  BY <1>1 DEF vars, fds, lock, history, Kinds, Flags, Descriptors, OneReplaces,
              Emptied, NoneLost
<1>2. ASSUME NEW t \in Thread, NEW from \in Place, NEW to \in Place,
             Goto(t, from, to), FlagStep,
             \/ KeepsFds(from, to) \/ Closes \/ Forgets(from)
             \/ Opens(from, to)
      PROVE  FdInv'
  <2>1. /\ pc[t] = from /\ pc'[t] = to
        /\ \A u \in Thread \ {t} : pc'[u] = pc[u]
        /\ both => both'
    BY <1>2 DEF Goto, Kinds
  <2>2. to \in Replacing /\ ~both' => \A u \in Thread \ {t} : pc[u] \notin Replacing
    BY <1>2 DEF Goto
  <2>3. Flags'
    <3>1. both' \in BOOLEAN
      BY <1>2 DEF Goto, Flags
    <3> QED
      BY <1>2, <3>1 DEF FlagStep, Flags
  <2>4. Descriptors'
    <3> USE BoundAssumption DEF Descriptors
    <3>1. CASE KeepsFds(from, to)
      BY <3>1 DEF KeepsFds
    <3>2. CASE Closes
      BY <3>2 DEF Closes, Close
    <3>3. CASE Forgets(from)
      BY <3>3 DEF Forgets
    <3>4. CASE Opens(from, to)
      BY <3>4 DEF Opens
    <3> QED
      BY <1>2, <3>1, <3>2, <3>3, <3>4
  <2>5. OneReplaces'
    BY <2>1, <2>2 DEF OneReplaces
  <2>6. ~both' => \A u \in Thread \ {t} : pc[t] \in Closed => pc[u] \notin Closed
    BY <2>1 DEF OneReplaces, Closed, Replacing, SetupPlace
  <2>7. from \in Closed /\ ~both' => open = {}
    BY <2>1 DEF Emptied
  <2>8. Emptied' /\ NoneLost'
    <3>1. CASE KeepsFds(from, to)
      BY <3>1, <2>1, <2>7 DEF KeepsFds, Emptied, NoneLost
    <3>2. CASE Closes
      <4>1. ~both' => open' = {}
        BY <3>2, <2>1 DEF Closes, Close, NoneLost
      <4> QED
        BY <4>1 DEF Emptied, NoneLost
    <3>3. CASE Forgets(from)
      BY <3>3, <2>1, <2>7 DEF Forgets, Emptied, NoneLost
    <3>4. CASE Opens(from, to)
      BY <3>4, <2>1, <2>6, <2>7 DEF Opens, Emptied, NoneLost
    <3> QED
      BY <1>2, <3>1, <3>2, <3>3, <3>4
  <2> QED
    BY <2>3, <2>4, <2>5, <2>8
<1> QED
  BY <1>1, <1>2, FdSteps DEF FdStep

LEMMA FdInvInit == Init => FdInv
<1> SUFFICES ASSUME Init PROVE FdInv
  OBVIOUS
<1>1. Kinds
  BY LockInvInit DEF LockInv
<1>2. Flags /\ Emptied /\ NoneLost
  BY DEF Init, Flags, Emptied, NoneLost
<1>3. Descriptors
  BY BoundAssumption DEF Init, Descriptors
<1>4. OneReplaces
  <2>1. \A t \in Thread : pc[t] \in Replacing => t = "main"
    BY DEF Init, Replacing, SetupPlace
  <2> QED
    BY <2>1 DEF OneReplaces
<1> QED
  BY <1>1, <1>2, <1>3, <1>4 DEF FdInv

Whole == LockInv /\ FdInv

LEMMA WholeKept == Spec => []Whole
<1>1. Init => Whole
  BY LockInvInit, FdInvInit DEF Whole
<1>2. Whole /\ [Next]_vars => Whole'
  BY LockInvKept, FdInvKept DEF Whole, LockInv
<1> QED
  BY <1>1, <1>2, PTL DEF Spec

(* The state is well formed; the lock counts at most every thread once.    *)
THEOREM WellTyped == Spec => []TypeOK
<1>1. Whole => TypeOK
  <2> SUFFICES ASSUME Whole PROVE TypeOK
    OBVIOUS
  <2>1. readers \in 0 .. Cardinality(Thread)
    BY HoldersFinite DEF Whole, LockInv, Kinds, NotMore
  <2> QED
    BY <2>1 DEF Whole, FdInv, Kinds, Flags, Descriptors, TypeOK
<1> QED
  BY <1>1, WholeKept, PTL

(* An open descriptor is the one that sock names, unless two threads have  *)
(* replaced the socket at once.                                            *)
THEOREM NoDescriptorLost == Spec => []NoneLost
<1>1. Whole => NoneLost
  BY DEF Whole, FdInv
<1> QED
  BY <1>1, WholeKept, PTL

-----------------------------------------------------------------------------
(* Where the receive thread may find no socket.  Without a socket a thread *)
(* is about to set one up, or the node is stopped, or one was not to be    *)
(* had.                                                                    *)
Without == {"closed", "setup", "socket"}
Stopping == {"stop", "stopClose", "stopUnlock"}

Missed == sock = 0 => failed \/ stop \/ \E t \in Thread : pc[t] \in Without
StopSet == \A t \in Thread : pc[t] \in Stopping => stop
Alone == pc["main"] \in SetupPlace => \A t \in Thread \ {"main"} : pc[t] = "new"

RoadInv == Kinds /\ Missed /\ StopSet /\ Alone

(* The steps of Socket, as the one who waits for a socket sees them. *)
RoadStep(t, from, to) ==
  /\ sock' = 0 => failed' \/ to \in Without \cup Stopping
                    \/ (sock = 0 /\ from \notin Without)
  /\ to \in Stopping => stop' \/ from \in Stopping
  /\ t = "main" /\ to \in SetupPlace => from \in SetupPlace
  /\ pc["main"] \in SetupPlace => from # "new"
  /\ t = "receive" /\ to = "end" =>
       stop \/ (from \in {"recvCheck", "sendCheck"} /\ sock = 0)

OnItsWay ==
  /\ failed => failed'
  /\ stop => stop'
  /\ \E t \in Thread, from, to \in Place :
       Goto(t, from, to) /\ RoadStep(t, from, to)

LEMMA SendRoads ==
  ASSUME Descriptors, NEW t \in Sender \cup {"receive"}, SendMessage(t)
  PROVE  OnItsWay
<1> USE DEF OnItsWay, RoadStep, Calls, Place, SendPlace, SetupPlace, RecvPlace,
            MainPlace, Without, Stopping, fds, lock
<1> t \in Thread /\ t # "main" /\ Back(t) \in {"recv", "idle"}
  BY SenderAssumption DEF Thread, Back
<1> /\ NoSocket(t) \in {"end", "idle"}
    /\ t = "receive" <=> NoSocket(t) = "end"
  BY DEF NoSocket
<1>1. CASE SendRdlock(t)
  BY <1>1 DEF SendRdlock
<1>2. CASE SendCheck(t)
  BY <1>2 DEF SendCheck
<1>3. CASE Sendto(t)
  BY <1>3 DEF Sendto
<1>4. CASE SendUnlock(t)
  BY <1>4 DEF SendUnlock
<1>5. CASE Resend(t)
  <2>1. CASE stop /\ Calls(t, "resend", Back(t)) /\ UNCHANGED unheld
    BY <1>5, <2>1 DEF Resend
  <2>2. ASSUME NEW place \in {"sent", "sendAgain", "sendFailed"},
               Goto(t, "resend", place), UNCHANGED failed
        PROVE  OnItsWay
    BY <1>5, <2>2 DEF Resend
  <2> QED
    BY <1>5, <2>1, <2>2 DEF Resend
<1>6. CASE SendWrlock(t)
  BY <1>6 DEF SendWrlock
<1>7. CASE SendClose(t)
  BY <1>7 DEF SendClose
<1>8. CASE SendClosed(t)
  BY <1>8 DEF SendClosed
<1> QED
  BY <1>1, <1>2, <1>3, <1>4, <1>5, <1>6, <1>7, <1>8 DEF SendMessage

LEMMA SetupRoads ==
  ASSUME Descriptors, NEW t \in Thread, SetupSocket(t)
  PROVE  OnItsWay
<1> USE DEF OnItsWay, RoadStep, Calls, Place, SendPlace, SetupPlace, RecvPlace,
            MainPlace, Without, Stopping, Fails, fds, lock
<1> Back(t) \in {"recv", "idle"}
  BY DEF Back
<1>1. CASE SetupWrlock(t)
  BY <1>1 DEF SetupWrlock
<1>2. CASE SocketCall(t)
  <2>1. UNCHANGED stop /\ (failed => failed')
    BY <1>2 DEF SocketCall
  <2>2. CASE sock' \in (1 .. MaxFd) \ open /\ Calls(t, "socket", "bind")
    <3>1. sock' # 0
      BY <2>2, BoundAssumption
    <3> QED
      BY <2>1, <2>2, <3>1
  <2>3. CASE Fails(t, "socket")
    BY <2>1, <2>3
  <2> QED
    BY <1>2, <2>2, <2>3 DEF SocketCall
<1>3. CASE Bind(t)
  <2>1. UNCHANGED <<sock, lock, stop>> /\ (failed => failed')
    BY <1>3 DEF Bind
  <2>2. CASE Calls(t, "bind", "unlock")
    BY <2>1, <2>2
  <2>3. CASE Fails(t, "bind")
    BY <2>1, <2>3
  <2> QED
    BY <1>3, <2>2, <2>3 DEF Bind
<1>4. CASE SetupUnlock(t)
  BY <1>4 DEF SetupUnlock
<1> QED
  BY <1>1, <1>2, <1>3, <1>4 DEF SetupSocket

LEMMA OtherRoads ==
  ASSUME LoopRecvfrom \/ Main \/ \E t \in Sender \cup {"receive"} : StartThread(t)
  PROVE  OnItsWay
<1> USE DEF OnItsWay, RoadStep, Calls, Place, SendPlace, SetupPlace, RecvPlace,
            MainPlace, Without, Stopping, fds, lock
<1> "receive" \in Thread /\ "main" \in Thread
  BY DEF Thread
<1>1. CASE RecvRdlock
  BY <1>1 DEF RecvRdlock
<1>2. CASE RecvCheck
  BY <1>2 DEF RecvCheck
<1>3. CASE Recvfrom \/ Handled
  BY <1>3 DEF Recvfrom, Handled
<1>4. CASE RecvUnlock
  BY <1>4 DEF RecvUnlock
<1>5. CASE RecvClose
  BY <1>5 DEF RecvClose
<1>6. CASE RecvForget
  BY <1>6 DEF RecvForget
<1>7. CASE AddSend \/ AddWrlock \/ AddClose \/ AddUnlock
  <2>1. CASE AddSend
    BY <2>1 DEF AddSend
  <2>2. CASE AddWrlock \/ AddClose \/ AddUnlock
    BY <2>2 DEF AddWrlock, AddClose, AddUnlock
  <2> QED
    BY <1>7, <2>1, <2>2
<1>8. CASE Stop \/ StopWrlock \/ StopUnlock
  BY <1>8 DEF Stop, StopWrlock, StopUnlock
<1>9. CASE StopClose
  BY <1>9 DEF StopClose
<1>10. ASSUME NEW t \in Sender \cup {"receive"}, StartThread(t)
       PROVE  OnItsWay
  <2> t \in Thread /\ t # "main" /\ Back(t) \in {"recv", "idle"}
    BY SenderAssumption DEF Thread, Back
  <2> QED
    BY <1>10 DEF StartThread
<1> QED
  BY <1>1, <1>2, <1>3, <1>4, <1>5, <1>6, <1>7, <1>8, <1>9, <1>10
     DEF LoopRecvfrom, Main

LEMMA Roads ==
  ASSUME Descriptors, [Next]_vars
  PROVE  OnItsWay \/ UNCHANGED vars
  BY SendRoads, SetupRoads, OtherRoads DEF Next

LEMMA RoadInvKept ==
  ASSUME RoadInv, Descriptors, Kinds', [Next]_vars
  PROVE  RoadInv'
<1> USE DEF RoadInv
<1>1. CASE UNCHANGED vars
  BY <1>1 DEF vars, fds, lock, history, Missed, StopSet, Alone
<1>2. ASSUME NEW t \in Thread, NEW from \in Place, NEW to \in Place,
             Goto(t, from, to), RoadStep(t, from, to),
             failed => failed', stop => stop'
      PROVE  RoadInv'
  <2>1. /\ pc[t] = from /\ pc'[t] = to
        /\ \A u \in Thread \ {t} : pc'[u] = pc[u]
    BY <1>2 DEF Goto, Kinds
  <2>2. StopSet'
    BY <1>2, <2>1 DEF StopSet, RoadStep
  <2>3. Missed'
    <3> SUFFICES ASSUME sock' = 0, ~failed', ~stop'
                 PROVE  \E u \in Thread : pc'[u] \in Without
      BY DEF Missed
    <3>1. to \notin Stopping
      BY <2>1, <2>2 DEF StopSet
    <3>2. CASE to \in Without
      BY <2>1, <3>2
    <3>3. CASE sock = 0 /\ from \notin Without
      <4>1. PICK u \in Thread : pc[u] \in Without
        BY <1>2, <3>3 DEF Missed
      <4>2. u # t
        BY <2>1, <3>3, <4>1
      <4> QED
        BY <2>1, <4>1, <4>2
    <3> QED
      BY <1>2, <3>1, <3>2, <3>3 DEF RoadStep
  <2>4. Alone'
    <3>1. "main" \in Thread
      BY DEF Thread
    <3>2. pc'["main"] \in SetupPlace => pc["main"] \in SetupPlace
      BY <1>2, <2>1, <3>1 DEF RoadStep
    <3>3. pc["main"] \in SetupPlace /\ t # "main" => FALSE
      BY <1>2, <2>1 DEF Alone, RoadStep
    <3> QED
      BY <2>1, <3>2, <3>3 DEF Alone
  <2> QED
    BY <2>2, <2>3, <2>4
<1> QED
  BY <1>1, <1>2, Roads DEF OnItsWay

LEMMA RoadInvInit == Init => RoadInv
<1> SUFFICES ASSUME Init PROVE RoadInv
  OBVIOUS
<1>1. Kinds
  BY LockInvInit DEF LockInv
<1>2. pc["main"] = "setup" /\ "main" \in Thread
  BY DEF Init, Thread
<1>3. Missed
  BY <1>2 DEF Missed, Without
<1>4. StopSet /\ Alone
  BY DEF Init, StopSet, Stopping, Alone
<1> QED
  BY <1>1, <1>3, <1>4 DEF RoadInv

(* The receive thread ends before the node is stopped, by its own test of  *)
(* sock or by that of a send of its own, only when it finds a sender       *)
(* between its old and its new socket, or after a failure.                 *)
THEOREM ReceivesOn == Spec => ReceivesUntilStopped
<1> DEFINE Cause == failed \/ both \/ unheld \/ \E t \in Sender : pc[t] = "setup"
           GoesOn == pc["receive"] # "end" /\ pc'["receive"] = "end" /\ ~stop => Cause
<1>1. Whole /\ RoadInv /\ [Next]_vars => GoesOn
  <2> SUFFICES ASSUME Whole, RoadInv, [Next]_vars, pc["receive"] # "end",
                      pc'["receive"] = "end", ~stop, ~failed, ~unheld
               PROVE  \E t \in Sender : pc[t] = "setup"
    OBVIOUS
  <2> USE DEF Whole, LockInv
  <2>0. "receive" \in Thread /\ Descriptors
    BY DEF Thread, FdInv
  <2>1. pc' # pc
    OBVIOUS
  <2>2. PICK t \in Thread, from \in Place, to \in Place :
          Goto(t, from, to) /\ RoadStep(t, from, to)
    BY <2>0, <2>1, Roads DEF OnItsWay, vars
  <2>3. t = "receive" /\ pc[t] = from /\ to = "end"
    BY <2>0, <2>2 DEF Goto, Kinds
  <2>4. pc["receive"] \in {"recvCheck", "sendCheck"} /\ sock = 0
    BY <2>2, <2>3 DEF RoadStep
  <2>5. owner = Nobody
    <3>1. "receive" \in Holders
      BY <2>0, <2>4 DEF Holders, Reading
    <3>2. Cardinality(Holders) # 0
      BY <3>1, HoldersFinite, FS_EmptySet
    <3> QED
      BY <3>2 DEF ReadersCounted, Holders
  <2>6. \A u \in Thread : pc[u] \notin Writing
    BY <2>5, NobodyAssumption DEF OwnerWrites
  <2>7. PICK u \in Thread : pc[u] \in Without
    BY <2>4 DEF RoadInv, Missed
  <2>8. pc[u] = "setup"
    BY <2>6, <2>7 DEF Without, Writing
  <2>9. u # "main" /\ u # "receive"
    BY <2>0, <2>4, <2>8 DEF RoadInv, Alone, SetupPlace
  <2> QED
    BY <2>8, <2>9 DEF Thread
<1>2. Init => RoadInv
  BY RoadInvInit
<1>3. Whole /\ RoadInv /\ [Next]_vars /\ Whole' => RoadInv'
  BY RoadInvKept DEF Whole, FdInv
<1>4. GoesOn => [pc["receive"] # "end" /\ pc'["receive"] = "end" /\ ~stop =>
                   Cause]_vars
  OBVIOUS
<1> QED
  BY <1>1, <1>2, <1>3, <1>4, WholeKept, PTL DEF Spec, ReceivesUntilStopped

-----------------------------------------------------------------------------
(* Why setup_socket fails where the system refuses nothing.  A thread that *)
(* has a new descriptor finds the port free, as the old one is closed and  *)
(* nobody else is at the descriptors.                                      *)
Fresh ==
  failed \/ both \/
    \A t \in Thread : pc[t] = "bind" => bound = 0 /\ sock \in open

(* "Socket recreated." (478, 543) is right, unless two threads replaced    *)
(* the socket at once.                                                     *)
RecreatedUnlessBoth == ~Trouble /\ ~both => ~failed

PortInv == Fresh /\ RecreatedUnlessBoth

(* The steps of Socket, as the one who is to bind sees them. *)
PortStep(from, to) ==
  /\ \/ UNCHANGED fds /\ to # "bind"
     \/ from \in Replacing \cup Writing /\ to # "bind"
     \/ /\ from = "socket" /\ UNCHANGED bound /\ sock' \in open'
  /\ failed' => failed \/ Trouble \/ (from = "bind" /\ bound # 0)

AtPort ==
  /\ failed => failed'
  /\ \E t \in Thread, from, to \in Place :
       Goto(t, from, to) /\ PortStep(from, to)

LEMMA SendAtPort ==
  ASSUME NEW t \in Sender \cup {"receive"}, SendMessage(t)
  PROVE  AtPort
<1> USE DEF AtPort, PortStep, Calls, Place, SendPlace, SetupPlace, RecvPlace,
            MainPlace, Replacing, Writing, fds
<1> t \in Thread /\ Back(t) \in {"recv", "idle"}
  BY DEF Thread, Back
<1> NoSocket(t) \in {"end", "idle"}
  BY DEF NoSocket
<1>1. CASE SendRdlock(t)
  BY <1>1 DEF SendRdlock
<1>2. CASE SendCheck(t)
  BY <1>2 DEF SendCheck
<1>3. CASE Sendto(t)
  BY <1>3 DEF Sendto
<1>4. CASE SendUnlock(t)
  BY <1>4 DEF SendUnlock
<1>5. CASE Resend(t)
  <2>1. CASE stop /\ Calls(t, "resend", Back(t)) /\ UNCHANGED unheld
    BY <1>5, <2>1 DEF Resend
  <2>2. ASSUME NEW place \in {"sent", "sendAgain", "sendFailed"},
               Goto(t, "resend", place), UNCHANGED failed
        PROVE  AtPort
    BY <1>5, <2>2 DEF Resend
  <2> QED
    BY <1>5, <2>1, <2>2 DEF Resend
<1>6. CASE SendWrlock(t)
  BY <1>6 DEF SendWrlock
<1>7. CASE SendClose(t)
  BY <1>7 DEF SendClose
<1>8. CASE SendClosed(t)
  BY <1>8 DEF SendClosed
<1> QED
  BY <1>1, <1>2, <1>3, <1>4, <1>5, <1>6, <1>7, <1>8 DEF SendMessage

LEMMA SetupAtPort ==
  ASSUME NEW t \in Thread, SetupSocket(t)
  PROVE  AtPort
<1> USE DEF AtPort, PortStep, Calls, Place, SendPlace, SetupPlace, RecvPlace,
            MainPlace, Replacing, Writing, Fails, fds
<1> Back(t) \in {"recv", "idle"}
  BY DEF Back
<1>1. CASE SetupWrlock(t)
  BY <1>1 DEF SetupWrlock
<1>2. CASE SocketCall(t)
  <2>1. UNCHANGED bound
    BY <1>2 DEF SocketCall
  <2>2. CASE open' = open \cup {sock'} /\ Calls(t, "socket", "bind")
    BY <2>1, <2>2
  <2>3. CASE Trouble /\ Fails(t, "socket")
    BY <2>3
  <2> QED
    BY <1>2, <2>2, <2>3 DEF SocketCall
<1>3. CASE Bind(t)
  <2>1. CASE Calls(t, "bind", "unlock")
    BY <2>1
  <2>2. CASE (Trouble \/ bound # 0) /\ Fails(t, "bind")
    BY <2>2
  <2> QED
    BY <1>3, <2>1, <2>2 DEF Bind
<1>4. CASE SetupUnlock(t)
  BY <1>4 DEF SetupUnlock
<1> QED
  BY <1>1, <1>2, <1>3, <1>4 DEF SetupSocket

LEMMA OtherAtPort ==
  ASSUME LoopRecvfrom \/ Main \/ \E t \in Sender \cup {"receive"} : StartThread(t)
  PROVE  AtPort
<1> USE DEF AtPort, PortStep, Calls, Place, SendPlace, SetupPlace, RecvPlace,
            MainPlace, Replacing, Writing, fds
<1> "receive" \in Thread /\ "main" \in Thread
  BY DEF Thread
<1>1. CASE RecvRdlock
  BY <1>1 DEF RecvRdlock
<1>2. CASE RecvCheck
  BY <1>2 DEF RecvCheck
<1>3. CASE Recvfrom \/ Handled
  BY <1>3 DEF Recvfrom, Handled
<1>4. CASE RecvUnlock
  BY <1>4 DEF RecvUnlock
<1>5. CASE RecvClose \/ RecvForget
  BY <1>5 DEF RecvClose, RecvForget
<1>6. CASE AddSend
  BY <1>6 DEF AddSend
<1>7. CASE AddWrlock \/ AddClose \/ AddUnlock
  BY <1>7 DEF AddWrlock, AddClose, AddUnlock
<1>8. CASE Stop \/ StopWrlock \/ StopClose \/ StopUnlock
  BY <1>8 DEF Stop, StopWrlock, StopClose, StopUnlock
<1>9. ASSUME NEW t \in Sender \cup {"receive"}, StartThread(t)
      PROVE  AtPort
  <2> t \in Thread /\ Back(t) \in {"recv", "idle"}
    BY DEF Thread, Back
  <2> QED
    BY <1>9 DEF StartThread
<1> QED
  BY <1>1, <1>2, <1>3, <1>4, <1>5, <1>6, <1>7, <1>8, <1>9 DEF LoopRecvfrom, Main

LEMMA PortSteps ==
  ASSUME [Next]_vars
  PROVE  AtPort \/ UNCHANGED vars
  BY SendAtPort, SetupAtPort, OtherAtPort DEF Next

LEMMA PortInvKept ==
  ASSUME PortInv, Whole, [Next]_vars
  PROVE  PortInv'
<1> USE DEF PortInv, Whole, LockInv, FdInv
<1>1. CASE UNCHANGED vars
  BY <1>1 DEF vars, fds, history, Fresh, RecreatedUnlessBoth
<1>2. ASSUME NEW t \in Thread, NEW from \in Place, NEW to \in Place,
             Goto(t, from, to), PortStep(from, to), failed => failed'
      PROVE  PortInv'
  <2>1. /\ pc[t] = from /\ pc'[t] = to
        /\ \A u \in Thread \ {t} : pc'[u] = pc[u]
        /\ both => both'
    BY <1>2 DEF Goto, Kinds
  <2>2. Fresh'
    <3> SUFFICES ASSUME ~failed', ~both', NEW u \in Thread, pc'[u] = "bind"
                 PROVE  bound' = 0 /\ sock' \in open'
      BY DEF Fresh
    <3>1. ~failed /\ ~both
      BY <1>2, <2>1
    <3>2. CASE UNCHANGED fds /\ to # "bind"
      BY <2>1, <3>1, <3>2 DEF Fresh, fds
    <3>3. CASE from \in Replacing \cup Writing /\ to # "bind"
      <4>1. u # t /\ pc[u] = "bind"
        BY <2>1, <3>3
      <4>2. from \notin Replacing
        BY <2>1, <3>1, <4>1 DEF OneReplaces, Replacing, SetupPlace
      <4>3. from \notin Writing
        BY <2>1, <3>1, <4>1 DEF OwnerWrites, Writing
      <4> QED
        BY <3>3, <4>2, <4>3
    <3>4. CASE from = "socket" /\ UNCHANGED bound /\ sock' \in open'
      <4>1. open = {}
        BY <2>1, <3>1, <3>4 DEF Emptied, Closed
      <4> QED
        BY <3>4, <4>1 DEF Descriptors
    <3> QED
      BY <1>2, <3>2, <3>3, <3>4 DEF PortStep
  <2>3. RecreatedUnlessBoth'
    BY <1>2, <2>1 DEF RecreatedUnlessBoth, PortStep, Fresh
  <2> QED
    BY <2>2, <2>3
<1> QED
  BY <1>1, <1>2, PortSteps DEF AtPort

(* A system that refuses nothing lets setup_socket fail, and with it the   *)
(* lock be left behind, only when two threads replace the socket at once:  *)
(* the run that finds such a failure shows the only way to it.             *)
THEOREM FailsByTwoOnly == Spec => []RecreatedUnlessBoth
<1>1. Init => PortInv
  BY DEF Init, PortInv, Fresh, RecreatedUnlessBoth
<1>2. Whole /\ PortInv /\ [Next]_vars => PortInv'
  BY PortInvKept
<1>3. PortInv => RecreatedUnlessBoth
  BY DEF PortInv
<1> QED
  BY <1>1, <1>2, <1>3, WholeKept, PTL DEF Spec
=============================================================================
