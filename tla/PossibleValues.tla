---------------------------- MODULE PossibleValues ----------------------------
(***************************************************************************)
(* The enumeration of the concrete values a symbolic address can take      *)
(* (Executor::evalPossibleValuesWithCache, evalPossibleValues and          *)
(* evalPossibleValuesInRange in Core/Executor.cpp), used by forkOnRange.   *)
(*                                                                         *)
(* The solver is abstracted by the set S of values the expression takes   *)
(* under the constraints: mustBeTrue(P) holds when every value of S        *)
(* satisfies P, mayBeTrue(P) when one does.  The result vector is a        *)
(* sequence of values (the Eq constraint paired with each value is left    *)
(* out: it is determined by the value).  Arithmetic on the bounds is done  *)
(* in the integers, as the code does it in uint64_t and long.              *)
(***************************************************************************)
EXTENDS Integers, Sequences

CONSTANTS
    W,           \* the width of an expression (Expr::Int16)
    Threshold    \* ForkOnSymAddrThreshold: 0 disables the cache, -1 is unlimited

MustBeTrue(S, P(_)) == \A v \in S : P(v)

MayBeTrue(S, P(_)) == \E v \in S : P(v)

\* klee::bits64::maxValueOfNBits.
MaxValueOfNBits(b) == 2^b - 1

\* The binary search for the number of useful bits (Executor.cpp:404-421):
\* the least b with expr >> b == 0.
RECURSIVE BitsSearch(_, _, _)
BitsSearch(S, lo, hi) ==
    IF lo >= hi THEN lo
    ELSE IF MustBeTrue(S, LAMBDA v : v \div 2^((lo + hi) \div 2) = 0)
         THEN BitsSearch(S, lo, (lo + hi) \div 2)
         ELSE BitsSearch(S, (lo + hi) \div 2 + 1, hi)

\* The binary search for the minimum (Executor.cpp:423-437).
RECURSIVE MinSearch(_, _, _)
MinSearch(S, lo, hi) ==
    IF lo >= hi THEN lo
    ELSE IF MayBeTrue(S, LAMBDA v : v <= (lo + hi) \div 2)
         THEN MinSearch(S, lo, (lo + hi) \div 2)
         ELSE MinSearch(S, (lo + hi) \div 2 + 1, hi)

\* The binary search for the maximum (Executor.cpp:450-465).
RECURSIVE MaxSearch(_, _, _)
MaxSearch(S, lo, hi) ==
    IF lo >= hi THEN lo
    ELSE IF MustBeTrue(S, LAMBDA v : v <= (lo + hi) \div 2)
         THEN MaxSearch(S, lo, (lo + hi) \div 2)
         ELSE MaxSearch(S, (lo + hi) \div 2 + 1, hi)

\* The result record: ok is the return value (FALSE once more than mx
\* values were found, mx = -1 meaning no limit), res the result vector.
TooManyAtBound(acc, mx) == mx # -1 /\ Len(acc) >= mx

TooMany(acc, mx) == mx # -1 /\ Len(acc) > mx

RECURSIVE InRange(_, _, _, _, _), EqLoop(_, _, _, _, _), EqNext(_, _, _, _, _),
          Halves(_, _, _, _, _, _), SecondHalf(_, _, _, _, _, _, _)

EqLoopSkipLast(S, v, hi, mx, acc) ==
    IF v >= hi THEN [ok |-> TRUE, res |-> acc]
    ELSE EqNext(S, v, hi, mx, IF v \in S THEN Append(acc, v) ELSE acc)

\* The loop of evalPossibleValuesInRange over a range of at most four
\* values (Executor.cpp:504-510): one mayBeTrue(expr == val) query each.
EqLoop(S, v, hi, mx, acc) ==
    IF v > hi THEN [ok |-> TRUE, res |-> acc]
    ELSE EqNext(S, v, hi, mx, IF v \in S THEN Append(acc, v) ELSE acc)

EqNext(S, v, hi, mx, acc) ==
    IF TooMany(acc, mx) THEN [ok |-> FALSE, res |-> acc] ELSE EqLoop(S, v + 1, hi, mx, acc)

\* The upper half [mid + 1, hi] after the lower half gave r; p1 is whether
\* the lower half was possible (Executor.cpp:539-562).  When mid + 1 = hi
\* the value is queried directly.
SecondHalf(S, mid, hi, mx, p1, r, dummy) ==
    IF ~r.ok THEN r
    ELSE IF mid + 1 = hi THEN InRange(S, mid + 1, hi, mx, r.res)
    ELSE IF ~p1 \/ MayBeTrue(S, LAMBDA v : mid + 1 <= v /\ v <= hi)
         THEN InRange(S, mid + 1, hi, mx, r.res)
    ELSE r

\* The split of a range of more than four values at mid = (lo + hi) / 2
\* (Executor.cpp:515-563): the lower half [lo, mid] is searched when
\* mayBeTrue(lo <= expr <= mid); the upper half is then known possible when
\* the lower one was not.  From hi - lo >= 4, lo < mid and mid + 1 < hi, so
\* the branches for lo = mid (which leaves res unset) and mid + 1 = hi are
\* never taken; they are kept as the code has them.
Halves(S, lo, mid, hi, mx, acc) ==
    IF lo = mid
    THEN SecondHalf(S, mid, hi, mx, TRUE, InRange(S, lo, mid, mx, acc), 0)
    ELSE IF MayBeTrue(S, LAMBDA v : lo <= v /\ v <= mid)
         THEN SecondHalf(S, mid, hi, mx, TRUE, InRange(S, lo, mid, mx, acc), 0)
         ELSE SecondHalf(S, mid, hi, mx, FALSE, [ok |-> TRUE, res |-> acc], 0)

\* Executor::evalPossibleValuesInRange(min, max) appending to acc.
InRange(S, lo, hi, mx, acc) ==
    CASE lo > hi      -> [ok |-> TRUE, res |-> acc]
      [] hi - lo <= 3 -> EqLoop(S, lo, hi, mx, acc)
      [] OTHER        -> Halves(S, lo, (lo + hi) \div 2, hi, mx, acc)

\* The end of evalPossibleValues once the bit count b and the minimum m
\* are known: one value if expr == m must hold (Executor.cpp:440-447),
\* otherwise the range search up to the maximum.
EvalFromMin(S, mx, b, m) ==
    IF MustBeTrue(S, LAMBDA v : v = m)
    THEN [ok |-> mx = -1 \/ 1 <= mx, res |-> << m >>]
    ELSE InRange(S, m, MaxSearch(S, m, MaxValueOfNBits(b)), mx, << >>)

EvalFromBits(S, mx, b) == EvalFromMin(S, mx, b, MinSearch(S, 0, MaxValueOfNBits(b)))

\* Executor::evalPossibleValues(expr, constraints, result, ..., mx) on an
\* empty result vector.
EvalPossibleValues(S, mx) == EvalFromBits(S, mx, BitsSearch(S, 0, W))

\* The cache entry for an expression: its values under the initial
\* constraints (values S0), or the empty vector when there are more than
\* Threshold of them (Executor.cpp:343-366).
CacheEntry(S0) ==
    IF EvalPossibleValues(S0, Threshold).ok THEN EvalPossibleValues(S0, Threshold).res ELSE << >>

FromCacheEntryUnfiltered(S, entry) ==
    IF entry = << >> THEN EvalPossibleValues(S, -1).res ELSE entry

\* The values under the current constraints: a cached entry is filtered by
\* one mayBeTrue(expr == value) query per value (Executor.cpp:370-392).
FromCacheEntry(S, entry) ==
    IF entry = << >> THEN EvalPossibleValues(S, -1).res
    ELSE SelectSeq(entry, LAMBDA v : v \in S)

\* Executor::evalPossibleValuesWithCache: S0 the values of the expression
\* under the initial constraints, S under the state's constraints.
EvalPossibleValuesWithCache(S0, S) ==
    IF Threshold = 0 THEN EvalPossibleValues(S, -1).res
    ELSE FromCacheEntry(S, CacheEntry(S0))

=============================================================================
