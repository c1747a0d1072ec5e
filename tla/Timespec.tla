----------------------------- MODULE Timespec -----------------------------
(***************************************************************************)
(* The arithmetic on struct timespec (timespec.h): an operator computes a  *)
(* raw result field by field, and the two loops of standardize carry       *)
(* between the fields.  The operators on doubles are left out, except the  *)
(* division by 2 of the handler of D, which is exact in a double.          *)
(***************************************************************************)
EXTENDS Integers

CONSTANTS
  Billion,   \* nanoseconds in a second
  Inputs     \* the operands

Time == [sec : Int, nsec : Int]

ASSUME BillionAssumption == Billion \in Nat \ {0} /\ Billion % 2 = 0
ASSUME InputsAssumption == Inputs \subseteq Time

VARIABLES
  lhs, rhs,   \* the operands
  op,         \* the operator
  result,     \* the result
  loop        \* in the first loop, in the second, or "done"

opVars == <<lhs, rhs, op, result, loop>>

Op == {"std", "+", "+ns", "-", "-ns", "neg", "half"}

(* C rounds a quotient towards zero. *)
Half(x) == IF x >= 0 THEN x \div 2 ELSE -((-x) \div 2)

(* Mutant: half a second is forgotten. *)
HalvedApart(t) == [sec |-> Half(t.sec), nsec |-> Half(t.nsec)]

(* The remainder, 0 or half a second, joins the nanoseconds. *)
Halved(t) ==
  [sec |-> Half(t.sec),
   nsec |-> (t.sec - 2 * Half(t.sec)) * Half(Billion) + Half(t.nsec)]

Raw(o, l, r) ==
  CASE o = "std" -> l
    [] o = "+"   -> [sec |-> l.sec + r.sec, nsec |-> l.nsec + r.nsec]
    [] o = "+ns" -> [sec |-> l.sec, nsec |-> l.nsec + r.nsec]
    [] o = "-"   -> [sec |-> l.sec - r.sec, nsec |-> l.nsec - r.nsec]
    [] o = "-ns" -> [sec |-> l.sec, nsec |-> l.nsec - r.nsec]
    [] o = "neg" -> [sec |-> -l.sec, nsec |-> -l.nsec]
    [] o = "half" -> Halved(l)

OpInit ==
  /\ lhs \in Inputs /\ rhs \in Inputs /\ op \in Op
  /\ result = Raw(op, lhs, rhs)
  /\ loop = "borrow"

(* standardize: while nsec is negative, borrow a second ... *)
Borrow ==
  /\ loop = "borrow" /\ result.nsec < 0
  /\ result' = [sec |-> result.sec - 1, nsec |-> result.nsec + Billion]
  /\ UNCHANGED <<lhs, rhs, op, loop>>

Borrowed ==
  /\ loop = "borrow" /\ result.nsec >= 0
  /\ loop' = "carry"
  /\ UNCHANGED <<lhs, rhs, op, result>>

(* ... while it is a second or more, carry one. *)
Carry ==
  /\ loop = "carry" /\ result.nsec >= Billion
  /\ result' = [sec |-> result.sec + 1, nsec |-> result.nsec - Billion]
  /\ UNCHANGED <<lhs, rhs, op, loop>>

Carried ==
  /\ loop = "carry" /\ result.nsec < Billion
  /\ loop' = "done"
  /\ UNCHANGED <<lhs, rhs, op, result>>

OpNext == Borrow \/ Borrowed \/ Carry \/ Carried

OpSpec == OpInit /\ [][OpNext]_opVars
-----------------------------------------------------------------------------
(* What standardize returns, in one step. *)
Standard(t) ==
  [sec |-> t.sec + t.nsec \div Billion, nsec |-> t.nsec % Billion]

(* The order of two standardized times. *)
Precedes(l, r) ==
  \/ l.sec < r.sec
  \/ l.sec = r.sec /\ l.nsec < r.nsec

(* operator<, from which ==, !=, >, <= and >= follow *)
Less(l, r) == Precedes(Standard(l), Standard(r))
-----------------------------------------------------------------------------
Value(t) == t.sec * Billion + t.nsec

Normal(t) == t.nsec \in 0 .. Billion - 1

(* The value is the one the operator stands for; half of it is half *)
(* a nanosecond off at most.                                               *)
Right ==
  CASE op = "std" -> Value(result) = Value(lhs)
    [] op = "+"   -> Value(result) = Value(lhs) + Value(rhs)
    [] op = "+ns" -> Value(result) = Value(lhs) + rhs.nsec
    [] op = "-"   -> Value(result) = Value(lhs) - Value(rhs)
    [] op = "-ns" -> Value(result) = Value(lhs) - rhs.nsec
    [] op = "neg" -> Value(result) = -Value(lhs)
    [] op = "half" -> 2 * Value(result) - Value(lhs) \in -1 .. 1

(* When standardize returns, the result is in normal form and right, with  *)
(* operands of either sign and in any form (test_timespec.cpp tries 40).   *)
Exact == loop = "done" => Normal(result) /\ Right
=============================================================================
