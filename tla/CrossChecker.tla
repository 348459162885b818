----------------------------- MODULE CrossChecker -----------------------------
(***************************************************************************)
(* The cross check of a HALTED test state against the gold program        *)
(* (Verification/CrossChecker.cpp and the gold replay of klc3.cpp).  The  *)
(* gold program runs on its own Executor (Gold below, the same module     *)
(* over the gold image) with its own issue set.                            *)
(*                                                                         *)
(* CheckLists is CrossChecker::checkLists in map order: a sequence of      *)
(* [type, lv, things], lv the issue's level once loading is done, and      *)
(* things the ThingToCompare list, each [kind, from, to] with kind one of  *)
(* "OUTPUT", "REG", "LAST_INST", "MEM".  A failed comparison is recorded   *)
(* as a difference [kind, at] (the register, the address, or 0 for the     *)
(* last instruction), the detail the issue's note and description give.   *)
(***************************************************************************)
EXTENDS Executor, PrioritizedFILO

CONSTANTS
    GoldProg,     \* the gold image (<< >>: no gold program given)
    GoldInitPC,   \* the gold loader's initial PC
    CheckLists

Gold == INSTANCE Executor WITH Prog <- GoldProg, InitPC <- GoldInitPC

HasGold == GoldProg # << >>

CrossIssueTypes == {CheckLists[k].type : k \in DOMAIN CheckLists}

\* The integers from .. to as a sequence, in order.
Interval(from, to) == [k \in 1 .. to - from + 1 |-> from + k - 1]

\* Mutant: the "not equal" constraint is never added to F.
ExprMustEqNoNarrow(a, b, F) ==
    CASE a = UninitExpr /\ b = UninitExpr -> [eq |-> TRUE, F |-> F]
      [] a = UninitExpr \/ b = UninitExpr -> [eq |-> FALSE, F |-> F]
      [] \A w \in F : a[w] = b[w]        -> [eq |-> TRUE, F |-> F]
      [] OTHER -> [eq |-> FALSE, F |-> F]

\* CrossChecker::exprMustEq: TRUE when a and b must be equal under F.  When
\* they may differ the result is FALSE and F keeps only the worlds where
\* they differ (the constraint a != b is added unless they must differ,
\* when it changes nothing).  A null (uninitialised) expression equals
\* only another null one.
ExprMustEq(a, b, F) ==
    CASE a = UninitExpr /\ b = UninitExpr -> [eq |-> TRUE, F |-> F]
      [] a = UninitExpr \/ b = UninitExpr -> [eq |-> FALSE, F |-> F]
      [] \A w \in F : a[w] = b[w]        -> [eq |-> TRUE, F |-> F]
      [] OTHER -> [eq |-> FALSE, F |-> {w \in F : a[w] # b[w]}]

\* The expression of a cell read by MemoryManager::read; a null cell has
\* none, and compareMem dereferences it (the process crashes).
CellExpr(c) == IF c.kind = "NULL" THEN UninitExpr ELSE c.e

\* One register or address compared: its difference is added to acc.diff.
CompareAt(acc, kind, at, a, b) ==
    LET m == ExprMustEq(a, b, acc.F)
    IN  [acc EXCEPT !.F = m.F,
                    !.diff = IF m.eq THEN @ ELSE @ \cup {[kind |-> kind, at |-> at]}]

\* Mutant: compareMem runs one address past the end of the range.
CompareThingPastRange(g, t, acc, th) ==
    CASE th.kind = "REG" ->
           SX!FoldLeft(LAMBDA a, r : CompareAt(a, "REG", r, t.reg[r], g.reg[r]),
                       acc, Interval(th.from, th.to))
      [] th.kind = "MEM" ->
           SX!FoldLeft(LAMBDA a, x :
                         LET gc == Gold!MemRead(g, x)
                             tc == MemRead(t, x)
                         IN  IF gc.kind = "NULL" \/ tc.kind = "NULL" THEN [a EXCEPT !.crash = TRUE]
                             ELSE CompareAt(a, "MEM", x, CellExpr(gc), CellExpr(tc)),
                       acc, Interval(th.from, th.to + 1))
      [] th.kind = "LAST_INST" ->
           IF g.last # t.last THEN [acc EXCEPT !.diff = @ \cup {[kind |-> "LAST_INST", at |-> 0]}]
           ELSE acc
      [] OTHER -> acc

\* The switch of CrossChecker::compare on one thing: compareRegisters and
\* compareMem go through the whole range (AS_DIVERGE_AS_POSSIBLE), each
\* comparison narrowing F for the next; compareLastInst compares the
\* addresses of latestNonOSInst[0]; no state of the model writes output,
\* so lc3Out is empty in both and outputDiverge finds nothing.
CompareThing(g, t, acc, th) ==
    CASE th.kind = "REG" ->
           SX!FoldLeft(LAMBDA a, r : CompareAt(a, "REG", r, t.reg[r], g.reg[r]),
                       acc, Interval(th.from, th.to))
      [] th.kind = "MEM" ->
           SX!FoldLeft(LAMBDA a, x :
                         LET gc == Gold!MemRead(g, x)
                             tc == MemRead(t, x)
                         IN  IF gc.kind = "NULL" \/ tc.kind = "NULL" THEN [a EXCEPT !.crash = TRUE]
                             ELSE CompareAt(a, "MEM", x, CellExpr(gc), CellExpr(tc)),
                       acc, Interval(th.from, th.to))
      [] th.kind = "LAST_INST" ->
           IF g.last # t.last THEN [acc EXCEPT !.diff = @ \cup {[kind |-> "LAST_INST", at |-> 0]}]
           ELSE acc
      [] OTHER -> acc

\* One check list of CrossChecker::compare: its things compared in order;
\* if any failed, the issue is raised on the test state, and when it is
\* kept the issue info records the differences and the gold state (the
\* callback argument), and the type goes into ret either way.
CompareItem(g, acc, item) ==
    LET r    == SX!FoldLeft(LAMBDA a, th : CompareThing(g, acc.t, a, th),
                            [F |-> acc.F, diff |-> {}, crash |-> acc.crash], item.things)
        kept == r.diff # {} /\ item.lv # "NONE" /\ IssueKey(item.type, NoNode) \notin acc.iss
        n    == NewStateIssueAt(acc.t, acc.iss, item.type, NoNode, item.lv)
        info == [type |-> item.type, diff |-> r.diff, gold |-> g]
    IN  IF item.type = "NO_ISSUE" \/ r.diff = {}
        THEN [acc EXCEPT !.F = r.F, !.crash = r.crash]
        ELSE [acc EXCEPT !.F = r.F, !.crash = r.crash, !.ret = TRUE, !.iss = n.iss,
                         !.t = IF kept THEN [n.s EXCEPT !.xinfo = @ \cup {info}] ELSE n.s]

\* CrossChecker::compare of the gold state g and the test state t, F the
\* finalConstraints it narrows; ret is TRUE when it returns a type.
Compare(g, t, iss, F) ==
    SX!FoldLeft(LAMBDA acc, item : CompareItem(g, acc, item),
                [t |-> t, iss |-> iss, F |-> F, ret |-> FALSE, crash |-> FALSE], CheckLists)

\* A compare in the driver: a non-empty result sets finalConstraintSets of
\* the test state (its field fin) to the narrowed constraints.
Compared(r, c) ==
    [r EXCEPT !.t = IF c.ret THEN [c.t EXCEPT !.fin = c.F] ELSE c.t,
              !.iss = c.iss, !.crash = @ \/ c.crash]

(***************************************************************************)
(* The gold warm-up (klc3.cpp:396-411) and the gold search run for each   *)
(* HALTED test state (klc3.cpp:675-790).                                   *)
(***************************************************************************)
\* Executor::step with returnImmediatelyIfWillFork: a BR whose condition is
\* Unknown under g.F is not executed.
WillFork(g, j) ==
    /\ g.pc \in DOMAIN GoldProg /\ GoldProg[g.pc].kind = "INST"
    /\ GoldProg[g.pc].op = "BR" /\ GoldProg[g.pc].cc \notin {{}, CCFlags}
    /\ LET c == Gold!GetCCExpr(g, j, g.pc)
       IN  {w \in g.F : FlagOf(c.v[w]) \in GoldProg[g.pc].cc} \notin {{}, g.F}

\* The warm-up loop from the gold state g: step while the state is NORMAL
\* and will not fork; a fork of another instruction fails the assertion.
RECURSIVE WarmUp(_, _)
WarmUp(g, j) ==
    IF g.status # "NORMAL" \/ WillFork(g, j) THEN {[g |-> g, iss |-> j, crash |-> FALSE]}
    ELSE UNION {IF Len(out.res) # 1 \/ out.res[1].status = "CRASH"
                THEN {[g |-> g, iss |-> out.iss, crash |-> TRUE]}
                ELSE WarmUp(out.res[1], out.iss) : out \in Gold!Step(g, j, 0)}

\* The outcomes of the warm-up of the gold initial state (createInitState
\* of the gold loader, s0 at GoldInitPC).  A gold issue or a BROKEN gold
\* state ends the process (progExit), as a failed assertion does.
GoldWarmUp(s0) ==
    {[w EXCEPT !.crash = @ \/ w.iss # {} \/ w.g.status = "BROKEN"]
        : w \in WarmUp([s0 EXCEPT !.pc = GoldInitPC], {})}

\* The results of one gold step, in order: a HALTED one is compared with
\* the test state under its own constraints; a BROKEN one ends the process.
GoldResults(res, r) ==
    SX!FoldLeft(LAMBDA a, g :
                  CASE g.status = "HALTED" -> Compared(a, Compare(g, a.t, a.iss, g.F))
                    [] g.status = "NORMAL" -> a
                    [] OTHER -> [a EXCEPT !.crash = TRUE],
                r, res)

\* The gold searcher (a PrioritizedFILOSearcher; gold states never cover
\* new edges, so every NORMAL result goes onto its second stack) run to
\* exhaustion: stk is the stack, r the test state t, the issue sets iss
\* (test) and gi (gold) and the crash flag, n the gold allocator's next uid.
RECURSIVE GoldSearch(_, _, _)
GoldSearch(stk, r, n) ==
    IF stk = << >> \/ r.crash THEN {r}
    ELSE UNION {GoldSearch(Pop(stk) \o SelectSeq(out.res, LAMBDA g : g.status = "NORMAL"),
                           GoldResults(out.res, [r EXCEPT !.gi = out.iss]), n + out.n)
                  : out \in Gold!Step(stk[Len(stk)], r.gi, n)}

\* The cross check of the HALTED test state t (klc3.cpp:675-790) from the
\* warmed-up gold state gs: one compare under t's constraints if gs has
\* HALTED, else a search from a fork of gs given t's constraints.  A gold
\* issue left after the search ends the process.  The outcomes are [s, iss]
\* with s CRASH when the process ends.
CrossCheck(gs, t, iss) ==
    LET r0 == [t |-> t, iss |-> iss, gi |-> {}, crash |-> FALSE]
        rs == IF gs.status = "HALTED" THEN {Compared(r0, Compare(gs, t, iss, t.F))}
              ELSE GoldSearch(<< [Fork(gs, 1) EXCEPT !.F = t.F] >>, r0, 2)
    IN  {[s |-> IF r.crash \/ r.gi # {} THEN [r.t EXCEPT !.status = "CRASH"] ELSE r.t,
          iss |-> r.iss] : r \in rs}
====
