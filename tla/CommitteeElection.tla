--------------------------- MODULE CommitteeElection ---------------------------
(***************************************************************************)
(* get_elected_committee of src/src/chain.rs at any one of the nodes that  *)
(* hold the same evaluations.  The trust scores of a target are summed up  *)
(* in f64 in the order in which the HashMap of chains is iterated, and     *)
(* within a chain in the order in which its blocks arrived: neither is the *)
(* same at two nodes, and floating-point addition is not associative.  A   *)
(* behaviour is the count of one node; what holds in all of them holds of  *)
(* all nodes at once.                                                      *)
(*                                                                         *)
(* A score is a natural number of the smallest unit.  A float has          *)
(* Precision significant bits: below 2^Precision every number is exact,    *)
(* from there up to the next power of two every second one, and so on.     *)
(***************************************************************************)
EXTENDS LatticeChain

CONSTANTS
  Precision,      \* significant bits of a float (53 in an f64)
  CommitteeSize,  \* COMMITTEE_SIZE
  MaxEvaluations  \* bound on the evaluations in the lattice

ASSUME PrecisionAssumption == Precision \in Nat \ {0}

VARIABLES
  ledger,     \* the evaluations of the lattice: author, target, score, serial
  counting,   \* TRUE while a committee is computed
  pending,    \* the evaluations not added up yet
  current,    \* {a} while the chain of a is walked, {} before the first
  reputation  \* global_reputation, a function of the targets met so far

vars == <<ledger, counting, pending, current, reputation>>

\* The distance of two neighbouring floats at v, and rounding to the nearest
\* float, the even one on a tie.
Ulp(v) == 2^(CHOOSE e \in 0..v : /\ v < 2^(Precision + e)
                                 /\ e > 0 => v >= 2^(Precision + e - 1))

Round(v) ==
  LET u     == Ulp(v)
      below == v \div u
      rest  == v % u
      up    == 2 * rest > u \/ (2 * rest = u /\ below % 2 = 1)
  IN  IF up THEN (below + 1) * u ELSE below * u

\* The published scores are f64 themselves, so that the first addition, to
\* the 0.0 of or_insert, is exact.
ASSUME ScoresAreFloats == \A s \in Score : Round(s) = s

Init ==
  /\ ledger = {}
  /\ counting = FALSE
  /\ pending = {}
  /\ current = {}
  /\ reputation = << >>

\* The lattice grows by an evaluation while nobody counts.
Record(a, t, s) ==
  /\ ~counting
  /\ Cardinality(ledger) < MaxEvaluations
  /\ ledger' = ledger \cup {[author |-> a, target |-> t, score |-> s,
                             serial |-> Cardinality(ledger)]}
  /\ UNCHANGED <<counting, pending, current, reputation>>

StartCount ==
  /\ ~counting
  /\ counting' = TRUE
  /\ pending' = ledger
  /\ UNCHANGED <<ledger, current, reputation>>

\* Faulty variant: a score replaces the sum so far.
AccumulateLast(e) ==
  /\ e \in pending
  /\ \A f \in pending : f.author \in current => e.author \in current
  /\ pending' = pending \ {e}
  /\ current' = {e.author}
  /\ reputation' = [t \in DOMAIN reputation \cup {e.target} |->
                      IF t = e.target THEN e.score ELSE reputation[t]]
  /\ UNCHANGED <<ledger, counting>>

\* One turn of the inner loop.  A chain that was begun is finished first.
Accumulate(e) ==
  /\ e \in pending
  /\ \A f \in pending : f.author \in current => e.author \in current
  /\ pending' = pending \ {e}
  /\ current' = {e.author}
  /\ reputation' = [t \in DOMAIN reputation \cup {e.target} |->
       LET old == IF t \in DOMAIN reputation THEN reputation[t] ELSE 0
       IN  IF t = e.target THEN Round(old + e.score) ELSE old]
  /\ UNCHANGED <<ledger, counting>>

Counted == counting /\ pending = {}

Committee == TopRanked(reputation, CommitteeSize)

\* The committee stands; the next epoch counts the same lattice again.
Elected ==
  /\ Counted
  /\ counting' = FALSE
  /\ current' = {}
  /\ reputation' = << >>
  /\ UNCHANGED <<ledger, pending>>

Next == \/ \E a, t \in Node, s \in Score : Record(a, t, s)
        \/ StartCount
        \/ \E e \in pending : Accumulate(e)
        \/ Elected

Spec == Init /\ [][Next]_vars

-------------------------------------------------------------------------------
Targets          == {e.target : e \in ledger}
EvaluationsFor(t) == {e \in ledger : e.target = t}
Exact(t)          == MapThenSumSet(LAMBDA e : e.score, EvaluationsFor(t))

\* Half a unit in the last place for every addition but the first, which adds
\* to zero; the unit is the one of the largest sum that rounding can produce.
Slack(t) ==
  LET n == Cardinality(EvaluationsFor(t))
  IN  IF n = 0 THEN 0 ELSE ((n - 1) * Ulp(2 * Exact(t))) \div 2

\* A target whose exact score leads another's by more than what rounding can
\* have moved the two is ranked above it by every node, in whatever order that
\* node adds the scores up (chain.rs 104-117).
GapDecides ==
  Counted => \A t, u \in Targets :
    Exact(t) > Exact(u) + Slack(t) + Slack(u) => Outranks(reputation, t, u)
================================================================================
