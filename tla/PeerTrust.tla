----------------------------- MODULE PeerTrust -----------------------------
(***************************************************************************)
(* What the untainting protocol of TriHaRd promises, without messages,     *)
(* threads or registers: a tainted node is trusted again only when enough  *)
(* of its siblings have vouched for one and the same round of its requests *)
(* and enough of them hold, from a request of their own, that its time was *)
(* consistent.  The module Untaint implements this specification.          *)
(***************************************************************************)
EXTENDS Naturals, FiniteSets

CONSTANT Node

VARIABLES
  sibs,       \* sibs[n]: the peers n has registered as siblings
  tainted,    \* tainted[n]: n must not serve its time
  taOK,       \* taOK[n]: n's last time authority answer found it consistent
  asked,      \* asked[n]: how many rounds of requests n has sent
  vouched     \* <<m, n, c>>: m, being TA-consistent, answered n's round c

vars == <<sibs, tainted, taOK, asked, vouched>>

Init ==
  /\ sibs = [n \in Node |-> {}]
  /\ tainted = [n \in Node |-> FALSE]
  /\ taOK = [n \in Node |-> FALSE]
  /\ asked = [n \in Node |-> 0]
  /\ vouched = {}

(* All siblings but one: the threshold of the code.  A node with a single  *)
(* sibling needs nobody.                                                   *)
AllButOne(n, Q) == Cardinality(Q) >= Cardinality(sibs[n]) - 1

(* Enough siblings of n answered its round c. *)
Answered(n) ==
  \E c \in 0 .. asked[n] : \E Q \in SUBSET sibs[n] :
    AllButOne(n, Q) /\ \A m \in Q : <<m, n, c>> \in vouched

(* Enough siblings of n have had an answer of n to a round of their own. *)
Viewed(n) ==
  \E Q \in SUBSET sibs[n] :
    /\ AllButOne(n, Q)
    /\ \A m \in Q : \E c \in 0 .. asked[m] : <<n, m, c>> \in vouched

Learn(n, m) ==
  /\ sibs' = [sibs EXCEPT ![n] = @ \cup {m}]
  /\ UNCHANGED <<tainted, taOK, asked, vouched>>

Taint(n) ==
  /\ tainted' = [tainted EXCEPT ![n] = TRUE]
  /\ UNCHANGED <<sibs, taOK, asked, vouched>>

Ask(n) ==
  /\ asked' = [asked EXCEPT ![n] = @ + 1]
  /\ UNCHANGED <<sibs, tainted, taOK, vouched>>

Vouch(m, n, c) ==
  /\ taOK[m] /\ n \in sibs[m] /\ c < asked[n]
  /\ vouched' = vouched \cup {<<m, n, c>>}
  /\ UNCHANGED <<sibs, tainted, taOK, asked>>

Untaint(n) ==
  /\ Answered(n) /\ Viewed(n)
  /\ tainted' = [tainted EXCEPT ![n] = FALSE]
  /\ UNCHANGED <<sibs, taOK, asked, vouched>>

Assess(n) ==
  /\ \E b \in BOOLEAN : taOK' = [taOK EXCEPT ![n] = b]
  /\ UNCHANGED <<sibs, tainted, asked, vouched>>

Next ==
  \E n \in Node :
    \/ Taint(n) \/ Ask(n) \/ Untaint(n) \/ Assess(n)
    \/ \E m \in Node : Learn(n, m) \/ \E c \in 0 .. asked[m] : Vouch(n, m, c)

Spec == Init /\ [][Next]_vars
=============================================================================
