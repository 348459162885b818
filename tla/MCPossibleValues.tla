--------------------------- MODULE MCPossibleValues ---------------------------
(***************************************************************************)
(* Checks the value enumeration of PossibleValues against its reference:  *)
(* the sorted set of values the expression can take.  A behaviour is one  *)
(* symbolic address seen by one state: S0 its values under the initial     *)
(* constraints, S under the state's constraints, which only grow as the   *)
(* state branches, so S starts at S0 and only shrinks; mx is the count   *)
(* bound a caller passes (-1 for none).                                   *)
(***************************************************************************)
EXTENDS PossibleValues, FiniteSets

CONSTANTS
    Values,      \* the 16-bit values the expression may take
    Bounds       \* the maxPossibleValueCount arguments tried

VARIABLES S0, S, mx

vars == << S0, S, mx >>

\* A satisfiable constraint set gives the expression at least one value.
Feasible(X) == SUBSET X \ {{}}

Init ==
    /\ S0 \in Feasible(Values)
    /\ S = S0
    /\ mx \in Bounds

\* The state adds a branch constraint, which may or may not narrow S.
AddConstraint ==
    /\ S' \in Feasible(S)
    /\ UNCHANGED << S0, mx >>

Next == AddConstraint

\* The bounds the cfgs use (a .cfg cannot write -1).
MCBounds == {-1, 1, 2, 3}

Spec == Init /\ [][Next]_vars

\* The reference: every value of X once, in increasing order; the i-th
\* value is the one with i - 1 smaller values in X.
Sorted(X) ==
    [i \in 1 .. Cardinality(X) |-> CHOOSE v \in X : Cardinality({u \in X : u < v}) = i - 1]

(***************************************************************************)
(* Without a bound, evalPossibleValues finds exactly the values the        *)
(* expression can take: no value is missed by the bit, minimum and         *)
(* maximum searches or by the halving of evalPossibleValuesInRange, none   *)
(* is reported twice or out of order, and it succeeds.                     *)
(***************************************************************************)
EnumerationExact == EvalPossibleValues(S, -1) = [ok |-> TRUE, res |-> Sorted(S)]

(***************************************************************************)
(* With a bound mx >= 1, evalPossibleValues reports failure exactly when   *)
(* the expression has more than mx values, and on success its result is   *)
(* the exact value list: the early return inside the recursion never cuts *)
(* off a result that was within the bound.                                 *)
(***************************************************************************)
BoundRespected ==
    mx >= 1 =>
        /\ EvalPossibleValues(S, mx).ok <=> Cardinality(S) <= mx
        /\ EvalPossibleValues(S, mx).ok => EvalPossibleValues(S, mx).res = Sorted(S)

(***************************************************************************)
(* evalPossibleValuesWithCache gives the exact value list under the        *)
(* state's constraints whether the entry cached under the initial          *)
(* constraints is used, filtered, or too large and bypassed.               *)
(***************************************************************************)
CacheExact == EvalPossibleValuesWithCache(S0, S) = Sorted(S)

=============================================================================
