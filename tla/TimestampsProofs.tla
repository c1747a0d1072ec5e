-------------------------- MODULE TimestampsProofs --------------------------
(***************************************************************************)
(* What Timestamps promises, for any callers, offsets, rate of the counter *)
(* and bounds.                                                             *)
(***************************************************************************)
EXTENDS Timestamps, WellFoundedInduction, TLAPS

-----------------------------------------------------------------------------
(* The conversion of line 1296. *)

LEMMA TicksAdd ==
  ASSUME NEW x \in Int, NEW y \in Int
  PROVE  /\ Ticks(x) \in Int /\ Ticks(x + y) = Ticks(x) + Ticks(y)
         /\ Ticks(-x) = -Ticks(x) /\ Ticks(0) = 0 /\ Ticks(1) = Freq
  BY FreqAssumption DEF Ticks

(* Every set of numbers has a least one. *)
LEMMA Least ==
  ASSUME NEW S \in SUBSET Nat, S # {}
  PROVE  \E n \in S : \A m \in S : n <= m
<1>1. \E n \in S : \A m \in S : ~(<<m, n>> \in OpToRel(<, Nat))
  BY NatLessThanWellFounded, WFMin, Zenon
<1>2. \A n, m \in Nat : <<m, n>> \in OpToRel(<, Nat) <=> m < n
  BY DEF OpToRel
<1>3. \E n \in S : \A m \in S : ~(m < n)
  BY <1>1, <1>2, Zenon
<1> QED
  BY <1>3

(* What is left of x ticks by the whole nanoseconds in them. *)
LEMMA Left ==
  ASSUME NEW x \in Nat
  PROVE  \E q \in Nat : x - Ticks(q) \in 0 .. Freq - 1
<1> DEFINE S == {n \in Nat : \E q \in Nat : n = x - Ticks(q)}
<1>1. x \in S
  <2>1. x = x - Ticks(0) BY TicksAdd
  <2> QED BY <2>1
<1>2. PICK n \in S : \A m \in S : n <= m
  <2>1. S \in SUBSET Nat /\ S # {} BY <1>1
  <2> HIDE DEF S
  <2> QED BY <2>1, Least
<1>3. PICK q \in Nat : n = x - Ticks(q)
  BY <1>2
<1>4. n < Freq
  <2>1. SUFFICES ASSUME n >= Freq PROVE FALSE
    BY <1>2, FreqAssumption
  <2>2. n - Freq = x - Ticks(q + 1) /\ q + 1 \in Nat
    <3>1. q \in Int /\ 1 \in Int BY <1>3
    <3>2. Ticks(q) \in Int /\ Ticks(q + 1) = Ticks(q) + Freq BY <3>1, TicksAdd
    <3> QED BY <1>3, <3>2, FreqAssumption
  <2>3. n - Freq \in S
    BY <1>2, <2>1, <2>2, FreqAssumption
  <2> QED
    BY <1>2, <2>3, FreqAssumption
<1> QED
  BY <1>2, <1>3, <1>4, FreqAssumption

LEMMA Quotient ==
  ASSUME NEW b \in Int, b > 0, NEW x \in Int,
         NEW q \in Int, NEW r \in 0 .. b - 1, x = b * q + r
  PROVE  x \div b = q
  BY SMT

(* Whole nanoseconds: at most Freq - 1 ticks of x are left out, and none is *)
(* made up.                                                                 *)
LEMMA Whole ==
  ASSUME NEW x \in Nat
  PROVE  /\ x \div Freq \in Nat
         /\ x - Ticks(x \div Freq) \in 0 .. Freq - 1
         /\ Ticks(x \div Freq) \in 0 .. x
<1>1. PICK q \in Nat : x - Ticks(q) \in 0 .. Freq - 1
  BY Left
<1>2. Ticks(q) \in Nat
  BY FreqAssumption DEF Ticks
<1>3. x = Freq * q + (x - Ticks(q))
  BY <1>2 DEF Ticks
<1>4. x \div Freq = q
  BY <1>1, <1>3, Quotient, FreqAssumption
<1> QED
  BY <1>1, <1>2, <1>4, FreqAssumption

LEMMA Converted ==
  ASSUME NEW x \in Int
  PROVE  /\ Nanoseconds(x) \in Int
         /\ x >= 0 => Nanoseconds(x) >= 0
         /\ Rounding(x) \in Nat
         /\ Ticks(Nanoseconds(x)) \in Int
         /\ Abs(Ticks(Nanoseconds(x)) - x) <= Rounding(x)
<1>1. CASE x >= 0
  <2>1. x \in Nat BY <1>1
  <2> DEFINE q == x \div Freq
  <2>2. q \in Nat /\ x - Ticks(q) \in 0 .. Freq - 1 /\ Ticks(q) \in 0 .. x
    BY <2>1, Whole
  <2>3. Nanoseconds(x) = q BY <1>1 DEF Nanoseconds
  <2> HIDE DEF q
  <2> QED BY <1>1, <2>2, <2>3, FreqAssumption DEF Rounding, Abs
<1>2. CASE x < 0
  <2>1. -x \in Nat BY <1>2
  <2> DEFINE q == (-x) \div Freq
  <2>2. q \in Nat /\ (-x) - Ticks(q) \in 0 .. Freq - 1 /\ Ticks(q) \in 0 .. -x
    BY <2>1, Whole
  <2>3. Nanoseconds(x) = -q BY <1>2 DEF Nanoseconds
  <2> HIDE DEF q
  <2>4. Ticks(Nanoseconds(x)) = -Ticks(q) BY <2>2, <2>3, TicksAdd
  <2> QED BY <1>2, <2>2, <2>3, <2>4, FreqAssumption DEF Rounding, Abs
<1> QED BY <1>1, <1>2

-----------------------------------------------------------------------------
(* The time t, reached at reading r of the counter, is right but for slack. *)
Balanced(t, r) == Abs(Ticks(t - stepped) - r) <= slack

(* At most one caller is between its first and its last access. *)
Solo == \A c, d \in Caller : Inside(c) /\ Inside(d) => c = d

(* What a caller that nobody overlaps has in hand. *)
Accounted(c) ==
  /\ pc[c] \in {"tsc", "dt"} => ts[c] = tsRef /\ Balanced(tsRef, tscRef)
  /\ pc[c] \in {"load", "ref"} => Balanced(ts[c], got[c])
  /\ pc[c] \in {"put", "step"} => Balanced(ts[c], tscRef)

Unraced ==
  ~raced =>
    /\ Solo
    /\ \A c \in Caller : Accounted(c)
    /\ (\A c \in Caller : ~Inside(c)) => Balanced(tsRef, tscRef)

(* Unless TSC went back, the counter is past every reading of it. *)
Forwards ==
  ~back =>
    /\ tscRef <= tsc
    /\ \A c \in Caller : pc[c] \in {"dt", "load", "ref"} => got[c] <= tsc

NotBehind(c) ==
  /\ pc[c] \in {"tsc", "dt", "step"} => last <= ts[c]
  /\ ~back /\ Inside(c) => last <= ts[c]
  /\ ~back /\ pc[c] = "dt" => tscRef <= got[c]

Clean ==
  clean =>
    /\ Solo
    /\ \A c \in Caller : NotBehind(c)
    /\ (\A c \in Caller : ~Inside(c)) => last <= tsRef

IInv == TypeOK /\ Forwards /\ Unraced /\ Clean

Assumptions == CallerAssumption /\ OffsetAssumption /\ BoundAssumption

(* The state is well typed at the start, and nothing is inside. *)
LEMMA InitInv == Init => IInv
<1> SUFFICES ASSUME Init PROVE IInv
  OBVIOUS
<1>1. TypeOK
  <2>1. /\ tsc \in 0..MaxTsc /\ tscRef \in 0..MaxTsc /\ tsRef \in Int
        /\ backs \in 0..MaxBacks /\ steps \in 0..MaxSteps
        /\ last \in Int /\ slack \in Nat /\ stepped \in Int
    BY BoundAssumption DEF Init
  <2>2. /\ pc \in [Caller -> Place] /\ gate \in {"shut", "ready", "stop"}
        /\ mem \in [Caller -> 0..MaxTsc] /\ got \in [Caller -> 0..MaxTsc]
        /\ ts \in [Caller -> Int]
    BY BoundAssumption DEF Init, Place
  <2>3. /\ clean \in BOOLEAN /\ back \in BOOLEAN /\ raced \in BOOLEAN
    BY Zenon DEF Init
  <2> QED BY <2>1, <2>2, <2>3 DEF TypeOK
<1>2. \A c \in Caller : pc[c] = "idle"
  BY DEF Init
<1>3. Forwards
  BY <1>2 DEF Init, Forwards
<1>4. Unraced
  <2>1. Balanced(tsRef, tscRef)
    <3>1. tsRef - stepped = 0 /\ tscRef = 0 /\ slack = 0 BY DEF Init
    <3>2. Ticks(0) = 0 BY TicksAdd
    <3> QED BY <3>1, <3>2 DEF Balanced, Abs
  <2> QED BY <1>2, <2>1 DEF Unraced, Solo, Accounted, Inside
<1>5. Clean
  <2>1. last = 0 /\ tsRef = 0 BY DEF Init
  <2>2. last <= tsRef BY <2>1
  <2> QED BY <1>2, <2>2 DEF Clean, Solo, NotBehind, Inside
<1> QED BY <1>1, <1>3, <1>4, <1>5 DEF IInv

(* Types survive a step. *)
LEMMA TypeStep == TypeOK /\ [Next]_vars => TypeOK'
<1> SUFFICES ASSUME TypeOK, [Next]_vars PROVE TypeOK'
  OBVIOUS
<1> USE CallerAssumption, OffsetAssumption, BoundAssumption
     DEF TypeOK, Place, refs, locals, counts, history
<1>a. ASSUME NEW loss \in Nat, NEW d \in Int, Sum(loss, d)
      PROVE  slack' \in Nat /\ stepped' \in Int
  BY <1>a DEF Sum
<1>b. ASSUME NEW c \in Caller, NEW d \in Int, NEW w \in BOOLEAN, Enter(c, d, w)
      PROVE  /\ slack' \in Nat /\ stepped' \in Int /\ last' \in Int
             /\ raced' \in BOOLEAN /\ clean' \in BOOLEAN
  BY <1>a, <1>b DEF Enter, Alone
<1>c. ASSUME NEW c \in Caller, ReadTs(c) PROVE TypeOK'
  <2>1. Enter(c, 0, FALSE) BY <1>c DEF ReadTs
  <2>2. /\ slack' \in Nat /\ stepped' \in Int /\ last' \in Int
        /\ raced' \in BOOLEAN /\ clean' \in BOOLEAN
    <3>1. 0 \in Int /\ FALSE \in BOOLEAN OBVIOUS
    <3> QED BY <1>b, <2>1, <3>1, Zenon
  <2> QED BY <1>c, <2>2 DEF ReadTs
<1>d. ASSUME NEW d \in Offsets, NEW w \in BOOLEAN, StepRead(d, w) PROVE TypeOK'
  <2>1. Enter(Receive, d, w) BY <1>d DEF StepRead
  <2>2. /\ slack' \in Nat /\ stepped' \in Int /\ last' \in Int
        /\ raced' \in BOOLEAN /\ clean' \in BOOLEAN
    BY <1>b, <2>1
  <2> QED BY <1>d, <2>2 DEF StepRead
<1>1. CASE Tick BY <1>1 DEF Tick
<1>2. CASE TscGoesBack BY <1>2 DEF TscGoesBack, Inside
<1>3. CASE ReadyChanges BY <1>3 DEF ReadyChanges
<1>4. CASE Stop BY <1>4 DEF Stop
<1>5. ASSUME NEW c \in Caller, Call(c) PROVE TypeOK'
  BY <1>5 DEF Call
<1>6. ASSUME NEW c \in Caller, Forced(c) PROVE TypeOK'
  BY <1>c, <1>6 DEF Forced
<1>7. ASSUME NEW c \in Caller, GetTimestamp(c) PROVE TypeOK'
  <2>1. CASE Waited(c) BY <2>1 DEF Waited, Found
  <2>2. CASE GoOn(c) BY <1>c, <2>2 DEF GoOn
  <2>3. CASE ReadTsc(c) BY <2>3 DEF ReadTsc
  <2>4. CASE Add(c)
    <3>1. got[c] - tscRef \in Int OBVIOUS
    <3>2. /\ Nanoseconds(got[c] - tscRef) \in Int
          /\ Rounding(got[c] - tscRef) \in Nat
      BY <3>1, Converted
    <3>3. slack' \in Nat /\ stepped' \in Int
      BY <1>a, <2>4, <3>2 DEF Add
    <3> QED BY <2>4, <3>2, <3>3 DEF Add
  <2>5. CASE LoadTsc(c)
    <3>1. Abs(tsc - got[c]) \in Nat BY DEF Abs
    <3>2. slack' \in Nat /\ stepped' \in Int
      BY <1>a, <2>5, <3>1 DEF LoadTsc
    <3> QED BY <2>5, <3>2 DEF LoadTsc
  <2>6. CASE WriteTscRef(c) BY <2>6 DEF WriteTscRef
  <2>7. CASE WriteTs(c) BY <2>7 DEF WriteTs, Alone, Inside
  <2> QED BY <1>7, <2>1, <2>2, <2>3, <2>4, <2>5, <2>6, <2>7 DEF GetTimestamp
<1>8. ASSUME NEW d \in Offsets, Step(d) PROVE TypeOK'
  BY <1>d, <1>8 DEF Step
<1>9. ASSUME NEW d \in Offsets, TrainingStep(d) PROVE TypeOK'
  <2>1. (d < 0) \in BOOLEAN OBVIOUS
  <2>2. StepRead(d, d < 0) BY <1>9 DEF TrainingStep
  <2> QED BY <1>d, <2>1, <2>2, Zenon
<1>10. CASE StepWrite BY <1>10 DEF StepWrite
<1>11. CASE UNCHANGED vars BY <1>11 DEF vars
<1> QED BY <1>1, <1>2, <1>3, <1>4, <1>5, <1>6, <1>7, <1>8, <1>9, <1>10, <1>11
        DEF Next

-----------------------------------------------------------------------------
(* What a step does, action by action, in the terms of the invariants. *)

(* A window opens where no other is open, or the overlap is noted. *)
LEMMA Opens ==
  ASSUME TypeOK, NEW c \in Caller, NEW d \in Int, NEW w \in BOOLEAN,
         Enter(c, d, w), ~Inside(c)
  PROVE  /\ (~raced)' => /\ ~raced /\ \A e \in Caller : ~Inside(e)
                         /\ slack' = slack /\ stepped' = stepped + d
         /\ clean' => /\ clean /\ \A e \in Caller : ~Inside(e)
                      /\ ~w /\ last' = last
<1>1. Alone(c) => \A e \in Caller : ~Inside(e)
  BY DEF Alone
<1>2. (~raced)' => ~raced /\ Alone(c)
  BY Zenon DEF Enter
<1>3. (~raced)' => slack' = slack /\ stepped' = stepped + d
  BY DEF Enter, Sum, TypeOK
<1>4. clean' => clean /\ Alone(c) /\ ~w
  BY Zenon DEF Enter
<1>5. clean' => last' = last
  BY DEF Enter
<1> QED BY <1>1, <1>2, <1>3, <1>4, <1>5

(* A call whose first access nobody overlaps is accounted for. *)
LEMMA ReadKeeps ==
  ASSUME TypeOK, NEW c \in Caller, ReadTs(c), ~Inside(c)
  PROVE  (Unraced => Unraced') /\ (Clean => Clean')
<1>1. /\ pc' = [pc EXCEPT ![c] = "tsc"] /\ ts' = [ts EXCEPT ![c] = tsRef]
      /\ UNCHANGED <<tsRef, tscRef, got, back>>
  BY DEF ReadTs, refs
<1>2. Enter(c, 0, FALSE) BY DEF ReadTs
<1>3. /\ (~raced)' => /\ ~raced /\ \A e \in Caller : ~Inside(e)
                      /\ slack' = slack /\ stepped' = stepped
      /\ clean' => /\ clean /\ \A e \in Caller : ~Inside(e)
                   /\ last' = last
  <2>1. 0 \in Int /\ FALSE \in BOOLEAN /\ stepped + 0 = stepped BY DEF TypeOK
  <2> QED BY <1>2, <2>1, Opens
<1>4. /\ \A e \in Caller : e # c => pc'[e] = pc[e]
      /\ pc'[c] = "tsc" /\ ts'[c] = tsRef
  BY <1>1 DEF TypeOK
<1>5. Inside(c)' BY <1>4 DEF Inside
<1>6. ASSUME \A e \in Caller : ~Inside(e)
      PROVE  \A e \in Caller : Inside(e)' => e = c
  BY <1>4, <1>6 DEF Inside
<1>7. ASSUME Unraced, (~raced)' PROVE Solo' /\ \A e \in Caller : Accounted(e)'
  <2>1. \A e \in Caller : Inside(e)' => e = c BY <1>3, <1>6, <1>7
  <2>2. Balanced(tsRef, tscRef)' BY <1>1, <1>3, <1>7 DEF Unraced, Balanced
  <2>3. Accounted(c)' BY <1>1, <1>4, <2>2 DEF Accounted
  <2>4. \A e \in Caller : e # c => Accounted(e)' BY <2>1 DEF Accounted, Inside
  <2> QED BY <2>1, <2>3, <2>4 DEF Solo
<1>8. ASSUME Clean, clean' PROVE Solo' /\ \A e \in Caller : NotBehind(e)'
  <2>1. \A e \in Caller : Inside(e)' => e = c BY <1>3, <1>6, <1>8
  <2>2. last' <= tsRef BY <1>3, <1>8 DEF Clean
  <2>3. NotBehind(c)' BY <1>4, <2>2 DEF NotBehind
  <2>4. \A e \in Caller : e # c => NotBehind(e)' BY <2>1 DEF NotBehind, Inside
  <2> QED BY <2>1, <2>3, <2>4 DEF Solo
<1> QED BY <1>5, <1>7, <1>8 DEF Unraced, Clean

(* A step of the clock that overlaps no call is accounted for, and one     *)
(* forwards leaves the next timestamp past the last.                       *)
LEMMA StepKeeps ==
  ASSUME TypeOK, NEW d \in Int, NEW w \in BOOLEAN, StepRead(d, w), d < 0 => w
  PROVE  (Unraced => Unraced') /\ (Clean => Clean')
<1>1. /\ pc[Receive] = "idle" /\ Receive \in Caller
      /\ pc' = [pc EXCEPT ![Receive] = "step"]
      /\ ts' = [ts EXCEPT ![Receive] = tsRef + d]
      /\ UNCHANGED <<tsRef, tscRef, got, back>>
  BY CallerAssumption DEF StepRead, refs
<1>2. ~Inside(Receive) /\ Enter(Receive, d, w)
  BY <1>1 DEF StepRead, Inside
<1>3. /\ (~raced)' => /\ ~raced /\ \A e \in Caller : ~Inside(e)
                      /\ slack' = slack /\ stepped' = stepped + d
      /\ clean' => /\ clean /\ \A e \in Caller : ~Inside(e)
                   /\ ~w /\ last' = last
  BY <1>1, <1>2, Opens
<1>4. /\ \A e \in Caller : e # Receive => pc'[e] = pc[e]
      /\ pc'[Receive] = "step" /\ ts'[Receive] = tsRef + d
  BY <1>1 DEF TypeOK
<1>5. Inside(Receive)' BY <1>4 DEF Inside
<1>6. ASSUME \A e \in Caller : ~Inside(e)
      PROVE  \A e \in Caller : Inside(e)' => e = Receive
  BY <1>4, <1>6 DEF Inside
<1>7. ASSUME Unraced, (~raced)' PROVE Solo' /\ \A e \in Caller : Accounted(e)'
  <2>1. \A e \in Caller : Inside(e)' => e = Receive BY <1>3, <1>6, <1>7
  <2>2. Balanced(tsRef, tscRef) BY <1>3, <1>7 DEF Unraced
  <2>3. (tsRef + d) - stepped' = tsRef - stepped BY <1>3, <1>7 DEF TypeOK
  <2>4. Balanced(ts[Receive], tscRef)'
    BY <1>1, <1>3, <1>4, <1>7, <2>2, <2>3 DEF Balanced
  <2>5. Accounted(Receive)' BY <1>4, <2>4 DEF Accounted
  <2>6. \A e \in Caller : e # Receive => Accounted(e)'
    BY <2>1 DEF Accounted, Inside
  <2> QED BY <2>1, <2>5, <2>6 DEF Solo
<1>8. ASSUME Clean, clean' PROVE Solo' /\ \A e \in Caller : NotBehind(e)'
  <2>1. \A e \in Caller : Inside(e)' => e = Receive BY <1>3, <1>6, <1>8
  <2>2. last' <= tsRef + d
    <3>1. clean /\ (\A e \in Caller : ~Inside(e)) /\ last' = last
      BY <1>3, <1>8
    <3>2. last <= tsRef BY <3>1, <1>8, Zenon DEF Clean
    <3>3. ~(d < 0)
      <4>1. ~w BY <1>3, <1>8, Zenon
      <4> QED BY <4>1
    <3> QED BY <3>1, <3>2, <3>3 DEF TypeOK
  <2>3. NotBehind(Receive)' BY <1>4, <2>2 DEF NotBehind
  <2>4. \A e \in Caller : e # Receive => NotBehind(e)'
    BY <2>1 DEF NotBehind, Inside
  <2> QED BY <2>1, <2>3, <2>4 DEF Solo
<1> QED BY <1>1, <1>5, <1>7, <1>8 DEF Unraced, Clean

(* A client that finds tsc past tsc_ref, with nobody inside, can go on. *)
LEMMA WaitedKeeps ==
  ASSUME TypeOK, Forwards, Unraced, Clean, NEW c \in Caller, Waited(c)
  PROVE  Forwards' /\ Unraced' /\ Clean'
<1>1. /\ pc[c] = "wait" /\ pc' = [pc EXCEPT ![c] = "ts"]
      /\ UNCHANGED <<tsc, tscRef, tsRef, ts, got, last, clean, raced, slack,
                     stepped>>
  BY DEF Waited, refs
<1>2. /\ \A e \in Caller : e # c => pc'[e] = pc[e]
      /\ pc'[c] = "ts"
  BY <1>1 DEF TypeOK
<1>3. \A e \in Caller : Inside(e)' <=> Inside(e)
  BY <1>1, <1>2 DEF Inside
<1>4. \/ back' = back
      \/ back /\ ~back' /\ tscRef <= tsc /\ \A e \in Caller : ~Inside(e)
  BY DEF Waited, Found, TypeOK
<1>5. Forwards'
  BY <1>1, <1>2, <1>4 DEF Forwards, Inside
<1>6. Unraced'
  BY <1>1, <1>2, <1>3 DEF Unraced, Solo, Accounted, Balanced
<1>7. Clean'
  BY <1>1, <1>2, <1>3, <1>4 DEF Clean, Solo, NotBehind, Inside
<1> QED BY <1>5, <1>6, <1>7

(* The ticks of a call are added once, rounded to whole nanoseconds. *)
LEMMA AddKeeps ==
  ASSUME TypeOK, Unraced, Clean, NEW c \in Caller, Add(c)
  PROVE  Unraced' /\ Clean'
<1> DEFINE x == got[c] - tscRef
<1>1. /\ pc[c] = "dt" /\ pc' = [pc EXCEPT ![c] = "load"]
      /\ ts' = [ts EXCEPT ![c] = @ + Nanoseconds(x)]
      /\ UNCHANGED <<tsRef, tscRef, got, last, clean, back, raced>>
      /\ Sum(Rounding(x), 0)
  BY DEF Add, refs
<1>2. x \in Int BY DEF TypeOK
<1>3. /\ Nanoseconds(x) \in Int /\ (x >= 0 => Nanoseconds(x) >= 0)
      /\ Rounding(x) \in Nat /\ Ticks(Nanoseconds(x)) \in Int
      /\ Abs(Ticks(Nanoseconds(x)) - x) <= Rounding(x)
  BY <1>2, Converted
<1>4. /\ \A e \in Caller : e # c => pc'[e] = pc[e] /\ ts'[e] = ts[e]
      /\ pc'[c] = "load" /\ ts'[c] = ts[c] + Nanoseconds(x)
  BY <1>1 DEF TypeOK
<1>5. \A e \in Caller : Inside(e)' <=> Inside(e)
  BY <1>1, <1>4 DEF Inside
<1>6. Inside(c) BY <1>1 DEF Inside
<1>7. ASSUME ~raced PROVE Solo' /\ \A e \in Caller : Accounted(e)'
  <2>1. Solo /\ Accounted(c) BY <1>7 DEF Unraced
  <2>2. \A e \in Caller : Inside(e) => e = c BY <1>6, <2>1 DEF Solo
  <2>3. slack' = slack + Rounding(x) /\ stepped' = stepped
    BY <1>1, <1>7 DEF Sum, TypeOK
  <2>4. Abs(Ticks(ts[c] - stepped) - tscRef) <= slack
    BY <1>1, <2>1 DEF Accounted, Balanced
  <2>5. /\ ts[c] - stepped \in Int
        /\ ts'[c] - stepped' = (ts[c] - stepped) + Nanoseconds(x)
    BY <1>3, <1>4, <2>3 DEF TypeOK
  <2>6. /\ Ticks(ts'[c] - stepped')
             = Ticks(ts[c] - stepped) + Ticks(Nanoseconds(x))
        /\ Ticks(ts[c] - stepped) \in Int
    BY <1>3, <2>5, TicksAdd
  <2>7. Abs(Ticks(ts'[c] - stepped') - got[c]) <= slack'
    BY <1>3, <2>3, <2>4, <2>6 DEF Abs, TypeOK
  <2>8. Accounted(c)'
    BY <1>1, <1>4, <2>7 DEF Accounted, Balanced
  <2>9. \A e \in Caller : e # c => Accounted(e)'
    BY <1>5, <2>2 DEF Accounted, Inside
  <2> QED BY <1>5, <2>1, <2>8, <2>9 DEF Solo
<1>8. Unraced' BY <1>1, <1>5, <1>6, <1>7 DEF Unraced
<1>9. ASSUME clean PROVE Solo' /\ \A e \in Caller : NotBehind(e)'
  <2>1. Solo /\ NotBehind(c) BY <1>9 DEF Clean
  <2>2. \A e \in Caller : Inside(e) => e = c BY <1>6, <2>1 DEF Solo
  <2>3. last <= ts[c] /\ (~back => x >= 0) BY <1>1, <2>1 DEF NotBehind, TypeOK
  <2>4. ~back => last <= ts'[c] BY <1>3, <1>4, <2>3 DEF TypeOK
  <2>5. NotBehind(c)' BY <1>1, <1>4, <2>4 DEF NotBehind
  <2>6. \A e \in Caller : e # c => NotBehind(e)'
    BY <1>5, <2>2 DEF NotBehind, Inside
  <2> QED BY <1>5, <2>1, <2>5, <2>6 DEF Solo
<1>10. Clean' BY <1>1, <1>5, <1>6, <1>9 DEF Clean
<1> QED BY <1>8, <1>10

(* What tsc moved by since it was read is within slack. *)
LEMMA LoadKeeps ==
  ASSUME TypeOK, Unraced, Clean, NEW c \in Caller, LoadTsc(c)
  PROVE  Unraced' /\ Clean'
<1>1. /\ pc[c] = "load" /\ pc' = [pc EXCEPT ![c] = "ref"]
      /\ got' = [got EXCEPT ![c] = tsc]
      /\ UNCHANGED <<tsRef, tscRef, ts, last, clean, back, raced>>
      /\ Sum(Abs(tsc - got[c]), 0)
  BY DEF LoadTsc, refs
<1>2. /\ \A e \in Caller : e # c => pc'[e] = pc[e] /\ got'[e] = got[e]
      /\ pc'[c] = "ref" /\ got'[c] = tsc
  BY <1>1 DEF TypeOK
<1>3. \A e \in Caller : Inside(e)' <=> Inside(e)
  BY <1>1, <1>2 DEF Inside
<1>4. Inside(c) BY <1>1 DEF Inside
<1>5. ASSUME ~raced PROVE Solo' /\ \A e \in Caller : Accounted(e)'
  <2>1. Solo /\ Accounted(c) BY <1>5 DEF Unraced
  <2>2. \A e \in Caller : Inside(e) => e = c BY <1>4, <2>1 DEF Solo
  <2>3. slack' = slack + Abs(tsc - got[c]) /\ stepped' = stepped
    BY <1>1, <1>5 DEF Sum, TypeOK
  <2>4. Abs(Ticks(ts[c] - stepped) - got[c]) <= slack
    BY <1>1, <2>1 DEF Accounted, Balanced
  <2>5. ts[c] - stepped \in Int BY DEF TypeOK
  <2>6. Ticks(ts[c] - stepped) \in Int BY <2>5, TicksAdd
  <2>7. Abs(Ticks(ts[c] - stepped) - tsc) <= slack'
    BY <2>3, <2>4, <2>6 DEF Abs, TypeOK
  <2>8. Accounted(c)'
    BY <1>1, <1>2, <2>3, <2>7 DEF Accounted, Balanced
  <2>9. \A e \in Caller : e # c => Accounted(e)'
    BY <1>3, <2>2 DEF Accounted, Inside
  <2> QED BY <1>3, <2>1, <2>8, <2>9 DEF Solo
<1>6. Unraced' BY <1>1, <1>3, <1>4, <1>5 DEF Unraced
<1>7. Clean' BY <1>1, <1>2, <1>3 DEF Clean, Solo, NotBehind, Inside
<1> QED BY <1>6, <1>7

LEMMA StoreKeeps ==
  ASSUME TypeOK, Unraced, Clean, NEW c \in Caller, WriteTscRef(c)
  PROVE  Unraced' /\ Clean'
<1>1. /\ pc[c] = "ref" /\ pc' = [pc EXCEPT ![c] = "put"]
      /\ tscRef' = got[c] /\ got' = [got EXCEPT ![c] = 0]
      /\ UNCHANGED <<tsRef, ts, last, clean, back, raced, slack, stepped>>
  BY DEF WriteTscRef, history
<1>2. /\ \A e \in Caller : e # c => pc'[e] = pc[e] /\ got'[e] = got[e]
      /\ pc'[c] = "put"
  BY <1>1 DEF TypeOK
<1>3. \A e \in Caller : Inside(e)' <=> Inside(e)
  BY <1>1, <1>2 DEF Inside
<1>4. Inside(c) BY <1>1 DEF Inside
<1>5. ASSUME ~raced PROVE Solo' /\ \A e \in Caller : Accounted(e)'
  <2>1. Solo /\ Accounted(c) BY <1>5 DEF Unraced
  <2>2. \A e \in Caller : Inside(e) => e = c BY <1>4, <2>1 DEF Solo
  <2>3. Accounted(c)' BY <1>1, <1>2, <2>1 DEF Accounted, Balanced
  <2>4. \A e \in Caller : e # c => Accounted(e)'
    BY <1>3, <2>2 DEF Accounted, Inside
  <2> QED BY <1>3, <2>1, <2>3, <2>4 DEF Solo
<1>6. ASSUME clean PROVE Solo' /\ \A e \in Caller : NotBehind(e)'
  <2>1. Solo /\ NotBehind(c) BY <1>6 DEF Clean
  <2>2. \A e \in Caller : Inside(e) => e = c BY <1>4, <2>1 DEF Solo
  <2>3. NotBehind(c)' BY <1>1, <1>2, <2>1 DEF NotBehind, Inside
  <2>4. \A e \in Caller : e # c => NotBehind(e)'
    BY <1>3, <2>2 DEF NotBehind, Inside
  <2> QED BY <1>3, <2>1, <2>3, <2>4 DEF Solo
<1> QED BY <1>1, <1>3, <1>4, <1>5, <1>6 DEF Unraced, Clean

Within == {"tsc", "dt", "load", "ref", "put", "step"}

(* The end of a window, of a call or a step. *)
LEMMA WriteKeeps ==
  ASSUME TypeOK, Unraced, Clean, NEW c \in Caller, pc[c] \in {"put", "step"},
         pc' = [pc EXCEPT ![c] = "idle"], tsRef' = ts[c],
         ts' = [ts EXCEPT ![c] = 0],
         UNCHANGED <<tscRef, got, back, raced, slack, stepped>>,
         \/ clean' = Alone(c) /\ last' = IF clean' THEN ts[c] ELSE 0
         \/ UNCHANGED <<clean, last>> /\ pc[c] = "step"
  PROVE  Unraced' /\ Clean'
<1>1. /\ \A e \in Caller : e # c => pc'[e] = pc[e] /\ ts'[e] = ts[e]
      /\ pc'[c] = "idle"
  BY DEF TypeOK
<1>2. /\ Inside(c) /\ ~Inside(c)'
      /\ \A e \in Caller \ {c} : Inside(e)' <=> Inside(e)
  BY <1>1 DEF Inside
<1>3. ASSUME ~raced
      PROVE  /\ \A e \in Caller : ~Inside(e)' /\ pc'[e] \notin Within
             /\ Balanced(tsRef, tscRef)'
  <2>1. Solo /\ Accounted(c) BY <1>3 DEF Unraced
  <2>2. \A e \in Caller : ~Inside(e)' BY <1>2, <2>1 DEF Solo
  <2>3. Balanced(tsRef, tscRef)' BY <2>1 DEF Accounted, Balanced
  <2> QED BY <2>2, <2>3 DEF Inside, Within
<1>4. Unraced' BY <1>3 DEF Unraced, Solo, Accounted, Within
<1>5. ASSUME clean'
      PROVE  /\ \A e \in Caller : ~Inside(e)' /\ pc'[e] \notin Within
             /\ (last <= tsRef)'
  <2>1. CASE clean' = Alone(c) /\ last' = IF clean' THEN ts[c] ELSE 0
    <3>1. \A e \in Caller : ~Inside(e)' BY <1>2, <1>5, <2>1 DEF Alone
    <3>2. last' = tsRef' /\ tsRef' \in Int BY <1>5, <2>1 DEF TypeOK
    <3> QED BY <3>1, <3>2 DEF Inside, Within
  <2>2. CASE UNCHANGED <<clean, last>> /\ pc[c] = "step"
    <3>1. Solo /\ NotBehind(c) BY <1>5, <2>2 DEF Clean
    <3>2. \A e \in Caller : ~Inside(e)' BY <1>2, <3>1 DEF Solo
    <3>3. (last <= tsRef)' BY <2>2, <3>1 DEF NotBehind
    <3> QED BY <3>2, <3>3 DEF Inside, Within
  <2> QED BY <2>1, <2>2
<1>6. Clean' BY <1>5 DEF Clean, Solo, NotBehind, Within
<1> QED BY <1>4, <1>6

(* Nobody's place, result or reference moves. *)
LEMMA IdleKeeps ==
  ASSUME UNCHANGED <<tscRef, tsRef, pc, ts, got>>,
         UNCHANGED <<last, clean, raced, slack, stepped>>,
         back => back'
  PROVE  (Unraced => Unraced') /\ (Clean => Clean')
  BY DEF Unraced, Clean, Solo, Accounted, Balanced, NotBehind, Inside

-----------------------------------------------------------------------------
(* Unless TSC went back, the counter stays past its readings. *)
LEMMA ForwardsStep ==
  ASSUME TypeOK, Forwards, [Next]_vars, \A c \in Caller : ~Waited(c)
  PROVE  Forwards'
<1> USE CallerAssumption DEF TypeOK, Place, refs, locals, history, Forwards
<1>1. CASE Tick BY <1>1 DEF Tick
<1>2. CASE TscGoesBack
  <2>1. ~back' => ~back /\ ~(tsc' < tscRef) /\ \A c \in Caller : ~Inside(c)
    BY <1>2, Zenon DEF TscGoesBack
  <2>2. tsc' \in Int /\ tscRef' = tscRef /\ pc' = pc BY <1>2 DEF TscGoesBack
  <2> QED BY <2>1, <2>2 DEF Inside
<1>3. CASE ReadyChanges BY <1>3 DEF ReadyChanges
<1>4. CASE Stop BY <1>4 DEF Stop
<1>5. ASSUME NEW c \in Caller, Call(c) PROVE Forwards'
  BY <1>5 DEF Call
<1>6. ASSUME NEW c \in Caller, Forced(c) PROVE Forwards'
  BY <1>6 DEF Forced, ReadTs
<1>7. ASSUME NEW c \in Caller, GetTimestamp(c) PROVE Forwards'
  <2>2. CASE GoOn(c) BY <2>2 DEF GoOn, ReadTs
  <2>3. CASE ReadTsc(c) BY <2>3 DEF ReadTsc
  <2>4. CASE Add(c) BY <2>4 DEF Add
  <2>5. CASE LoadTsc(c) BY <2>5 DEF LoadTsc
  <2>6. CASE WriteTscRef(c) BY <2>6 DEF WriteTscRef
  <2>7. CASE WriteTs(c) BY <2>7 DEF WriteTs
  <2> QED BY <1>7, <2>2, <2>3, <2>4, <2>5, <2>6, <2>7 DEF GetTimestamp
<1>8. ASSUME NEW d \in Offsets, Step(d) PROVE Forwards'
  BY <1>8 DEF Step, StepRead
<1>9. ASSUME NEW d \in Offsets, TrainingStep(d) PROVE Forwards'
  BY <1>9 DEF TrainingStep, StepRead
<1>10. CASE StepWrite BY <1>10 DEF StepWrite
<1>11. CASE UNCHANGED vars BY <1>11 DEF vars
<1> QED BY <1>1, <1>2, <1>3, <1>4, <1>5, <1>6, <1>7, <1>8, <1>9, <1>10, <1>11
        DEF Next

(* Without an overlap the ticks stay accounted for, and without one since  *)
(* the last answer every caller is past it.                                *)
LEMMA CountStep ==
  TypeOK /\ Forwards /\ Unraced /\ Clean /\ [Next]_vars
    => Forwards' /\ Unraced' /\ Clean'
<1> SUFFICES ASSUME TypeOK, Forwards, Unraced, Clean, [Next]_vars,
                    \A c \in Caller : ~Waited(c)
             PROVE  Unraced' /\ Clean'
  BY ForwardsStep, WaitedKeeps
<1> USE DEF refs, locals, history
<1>1. CASE Tick BY <1>1, IdleKeeps DEF Tick
<1>2. CASE TscGoesBack BY <1>2, IdleKeeps DEF TscGoesBack
<1>3. CASE ReadyChanges BY <1>3, IdleKeeps DEF ReadyChanges
<1>4. CASE Stop BY <1>4, IdleKeeps DEF Stop
<1>5. ASSUME NEW c \in Caller, Call(c) PROVE Unraced' /\ Clean'
  BY <1>5 DEF Call, TypeOK, Unraced, Clean, Solo, Accounted, Balanced,
              NotBehind, Inside
<1>6. ASSUME NEW c \in Caller, Forced(c) PROVE Unraced' /\ Clean'
  BY <1>6, ReadKeeps DEF Forced, Inside
<1>7. ASSUME NEW c \in Caller, GetTimestamp(c) PROVE Unraced' /\ Clean'
  <2>2. CASE GoOn(c) BY <2>2, ReadKeeps DEF GoOn, Inside
  <2>3. CASE ReadTsc(c)
    BY <2>3 DEF ReadTsc, Forwards, TypeOK, Unraced, Clean, Solo, Accounted,
                Balanced, NotBehind, Inside
  <2>4. CASE Add(c) BY <2>4, AddKeeps
  <2>5. CASE LoadTsc(c) BY <2>5, LoadKeeps
  <2>6. CASE WriteTscRef(c) BY <2>6, StoreKeeps
  <2>7. CASE WriteTs(c) BY <2>7, WriteKeeps DEF WriteTs
  <2> QED BY <1>7, <2>2, <2>3, <2>4, <2>5, <2>6, <2>7 DEF GetTimestamp
<1>8. ASSUME NEW d \in Offsets, Step(d) PROVE Unraced' /\ Clean'
  <2>1. d \in Int BY OffsetAssumption
  <2>2. d > 0 /\ StepRead(d, FALSE) BY <1>8 DEF Step
  <2>3. ~(d < 0) BY <2>1, <2>2
  <2>4. FALSE \in BOOLEAN OBVIOUS
  <2> QED BY <2>1, <2>2, <2>3, <2>4, StepKeeps, Zenon
<1>9. ASSUME NEW d \in Offsets, TrainingStep(d) PROVE Unraced' /\ Clean'
  <2>1. d \in Int /\ (d < 0) \in BOOLEAN /\ StepRead(d, d < 0)
    BY <1>9, OffsetAssumption DEF TrainingStep
  <2> QED BY <2>1, StepKeeps
<1>10. CASE StepWrite
  BY <1>10, WriteKeeps, CallerAssumption DEF StepWrite
<1>11. CASE UNCHANGED vars BY <1>11, IdleKeeps DEF vars
<1> QED BY <1>1, <1>2, <1>3, <1>4, <1>5, <1>6, <1>7, <1>8, <1>9, <1>10, <1>11
        DEF Next

(* IInv holds throughout: no step of any thread leaves it. *)
LEMMA Inductive == Spec => []IInv
<1>1. IInv /\ [Next]_vars => IInv'
  BY TypeStep, CountStep DEF IInv
<1> QED BY InitInv, <1>1, PTL DEF Spec

(* The references stay well typed, and tsc_ref a value tsc can have,       *)
(* whatever the interleaving of get_timestamp, the monitor and step_clock. *)
THEOREM WellTyped == Spec => []TypeOK
<1>1. IInv => TypeOK BY DEF IInv
<1> QED BY Inductive, <1>1, PTL

(* Calls that do not overlap count every tick up to tsc_ref exactly once,  *)
(* but for less than a nanosecond of each, and for what tsc moved between  *)
(* the two readings of one (lines 1296 and 1297).                          *)
THEOREM CountedOnce == Spec => []TicksCountedOnce
<1>1. IInv => TicksCountedOnce
  BY DEF IInv, Unraced, Balanced, TicksCountedOnce
<1> QED BY Inductive, <1>1, PTL

(* A timestamp is not earlier than the one returned before it, unless two  *)
(* calls overlapped since, a training stepped the clock back, or TSC went  *)
(* back since a client found it past tsc_ref (line 1294).                  *)
THEOREM NoneGoesBack == Spec => NeverGoesBack
<1>1. ASSUME IInv, NEW c \in Caller, WriteTs(c), clean, ~back
      PROVE  ts[c] >= last
  BY <1>1 DEF IInv, TypeOK, Clean, NotBehind, Inside, WriteTs
<1>2. IInv /\ [Next]_vars
        => [\A c \in Caller :
              WriteTs(c) /\ clean /\ ~back => ts[c] >= last]_vars
  BY <1>1
<1> QED BY Inductive, <1>2, PTL DEF Spec, NeverGoesBack
=============================================================================
