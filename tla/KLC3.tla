-------------------------------- MODULE KLC3 --------------------------------
(***************************************************************************)
(* The test driver of tools/klc3/klc3.cpp: the searcher levels, and per    *)
(* iteration fetch, Executor::step, coverage, the step limit, the          *)
(* call tracking, the searcher's push and the early release of finished   *)
(* states and the cross check of HALTED states against the gold program,   *)
(* for programs without OS code.  A state's fin is its entry of            *)
(* finalConstraintSets ({} for none) and xinfo the cross-check issue infos *)
(* raised on it.                                                           *)
(*                                                                         *)
(*   st       uid -> state record of every allocated, unreleased state     *)
(*            (StateAllocator::aliveStates)                                *)
(*   nextUid  totalAllocatedStateCount                                     *)
(*   iss      the issues raised so far (IssuePackage)                      *)
(*   cov      the covered edges (Edge::covered)                            *)
(*   P        the searcher: a PruningSearcher record whose q is its inner  *)
(*            PrioritizedFILOSearcher, or, when klc3 backs off to          *)
(*            PrioritizedFILO, a record of which only q is used (the other *)
(*            fields stay empty)                                           *)
(*   level    currentSearcherLevel                                         *)
(*   phase    "run" inside the level loop, "done" after it, "crash" once   *)
(*            the process has aborted                                      *)
(*   timedOut the global time limit has been reported                      *)
(*   stepped  the state just stepped and the step's results, as pushed     *)
(*   gold     the gold startup state after its warm-up (CrossChecker)     *)
(*   la       the loop analysis (PruningSearcher), computed before the     *)
(*            search; a diverging analysis never reaches the search, so it *)
(*            leaves no initial state                                      *)
(***************************************************************************)
EXTENDS Executor, PruningSearcher, CoverageTracker, SubroutineTracker, CrossChecker

CONSTANTS
    InitF,          \* the worlds the initial constraints admit
    SearcherTypes,  \* the --searcher options the run covers
    Reactivation,   \* the reactivation option is not Stop
    MaxSteps        \* --max-lc3-step-count (0: no limit)

ASSUME InitF # {} /\ InitF \subseteq Worlds

ASSUME SearcherTypes \subseteq {"simple_filo", "prioritized_filo", "pruning"}

VARIABLES st, nextUid, iss, cov, P, level, phase, timedOut, stepped, searcherType, gold

vars == <<st, nextUid, iss, cov, P, level, phase, timedOut, stepped, la, searcherType, gold>>

\* The --searcher option as given.
UsePruningOpt == searcherType = "pruning"

\* klc3.cpp:501-530: the pruning searcher is used only when the loop
\* analysis stays within the segment limit.
UsePruning == UsePruningOpt /\ Analysis.ok

\* The pruning searcher is modelled for a main code without calls, where
\* the loop analysis of klc3.cpp:515-524 covers a single subgraph and
\* every colour comparison of PruningSearcher.cpp is between equal colours.
ASSUME "pruning" \in SearcherTypes => \A n \in MainSubgraph : Prog[n].op \notin {"JSR", "JSRR"}

\* maxSearcherLevel (klc3.cpp:567-586).
MaxLevel == IF UsePruning /\ Reactivation THEN 1 ELSE 0

\* Executor::createInitState: the initial state at the program's entry.
CreateInitState ==
    [uid |-> 0, status |-> "NORMAL", pc |-> InitPC, reg |-> [r \in Regs |-> UninitExpr],
     cc |-> NoReg, F |-> InitF, mem |-> << >>, uninitStore |-> << >>,
     last |-> NoNode, prev |-> NoNode, steps |-> 0, trig |-> FALSE,
     cs |-> << >>, js |-> << >>, messed |-> FALSE, newEdge |-> FALSE, newSeg |-> FALSE,
     avoid |-> FALSE, fresh |-> FALSE, path |-> << >>, ls |-> << >>, trail |-> << >>,
     fin |-> {}, xinfo |-> {}]

\* SubroutineTracker::setupInitState: the entry of the main code is the
\* bottom of the colour stack.
SetupInitState(s) == [s EXCEPT !.cs = << InitPC >>]

InitState == SetupInitState(CreateInitState)

\* The searcher klc3.cpp:567-592 builds: SimpleFILO, PrioritizedFILO, or
\* (the pruning option after a successful loop analysis) the pruning
\* searcher around a PrioritizedFILO.
SearcherPush(Q, sts, us) ==
    CASE UsePruning -> PrunePush(Q, sts, us)
      [] searcherType = "simple_filo" -> [P |-> [Q EXCEPT !.q = SimpleFiloPush(@, sts, us)], st |-> sts]
      [] OTHER -> [P |-> [Q EXCEPT !.q = FiloPush(@, sts, us)], st |-> sts]

\* The outcome of an inner searcher's fetch r, as a pruning fetch outcome.
InnerFetch(Q, r) == {[P |-> [Q EXCEPT !.q = r.Q], u |-> r.u, react |-> FALSE]}

SearcherFetch(Q) ==
    CASE UsePruning -> PruneFetch(Q)
      [] searcherType = "simple_filo" -> InnerFetch(Q, SimpleFiloFetch(Q.q))
      [] OTHER -> InnerFetch(Q, FiloFetch(Q.q))

\* The edge a state is about to complete by executing the instruction at
\* its PC; the ghost trail collects them to compare with statePath.
IntoEdge(s) == IF s.last = NoNode THEN InitPCEdge ELSE OutEdgeTo(s.last, s.pc)

\* The coverage update over the step's results, in order (klc3.cpp:657).
RECURSIVE CoverAll(_, _), CoverRest(_, _)
CoverAll(res, c) ==
    IF res = << >> THEN [res |-> << >>, cov |-> c]
    ELSE CoverRest(UpdateGraphAndCoverage(Head(res), c), Tail(res))

CoverRest(r, rest) == ConsRes(r.s, CoverAll(rest, r.cov))

\* ExecutionLimitChecker::checkLimitOnState on one result: a NORMAL state
\* past the step limit becomes an issue state.
CheckLimit(s, j) ==
    IF s.status = "NORMAL" /\ MaxSteps # 0 /\ s.steps > MaxSteps
    THEN NewStateIssue(s, j, "ERR_STATE_REACH_STEP_LIMIT", NoNode)
    ELSE [s |-> s, iss |-> j]

\* The checks on one result (klc3.cpp:663-674): the limits of a NORMAL
\* state, postCheckState of a HALTED one, followed by the cross check
\* (klc3.cpp:675-790) when a gold program is given.
CrossCheckIfGold(r) == IF HasGold THEN CrossCheck(gold.g, r.s, r.iss) ELSE {r}

CheckResult(s, j) ==
    IF s.status = "HALTED" THEN CrossCheckIfGold(PostCheckState(s, j)) ELSE {CheckLimit(s, j)}

\* The checks on the results, in order: the set of outcomes.
RECURSIVE CheckLimits(_, _), CheckRest(_, _)
CheckLimits(res, j) ==
    IF res = << >> THEN {[res |-> << >>, iss |-> j]}
    ELSE UNION {CheckRest(r, Tail(res)) : r \in CheckResult(Head(res), j)}

CheckRest(r, rest) == {ConsRes(r.s, x) : x \in CheckLimits(rest, r.iss)}

\* SubroutineTracker::updateColors on the results, in order (klc3.cpp:661).
RECURSIVE ColorAll(_, _), ColorRest(_, _)
ColorAll(res, j) ==
    IF res = << >> THEN [res |-> << >>, iss |-> j]
    ELSE ColorRest(UpdateColors(Head(res), j), Tail(res))

ColorRest(r, rest) == ConsRes(r.s, ColorAll(rest, r.iss))

HasCrash(res) == \E k \in 1 .. Len(res) : res[k].status = "CRASH"

Uids(res) == [k \in 1 .. Len(res) |-> res[k].uid]

Init ==
    LET s0 == InitState
        P0 == IF UsePruning THEN PruneInit(0)
              ELSE [q |-> FiloInit, post |-> {}, level |-> 0, err |-> {}, uncov |-> << >>]
        r  == SearcherPush(P0, (0 :> s0), << 0 >>)
    IN /\ searcherType \in SearcherTypes
       /\ la = IF UsePruningOpt THEN LoopAnalysis ELSE EmptyAnalysis
       /\ ~la.diverged
       /\ st = r.st
       /\ nextUid = 1
       /\ iss = {}
       /\ cov = {}
       /\ P = r.P
       /\ level = 0
       /\ gold \in IF HasGold THEN GoldWarmUp(CreateInitState) ELSE {[g |-> CreateInitState, iss |-> {}, crash |-> FALSE]}
       /\ phase = IF gold.crash THEN "crash" ELSE "run"
       /\ timedOut = FALSE
       /\ stepped = [pre |-> s0, res |-> << >>]

(***************************************************************************)
(* One iteration of the inner loop (klc3.cpp:645-870): fetch a state, step *)
(* it, update coverage, check the limits, push the results, release the    *)
(* HALTED and BROKEN results that raised no new issue.  A step that        *)
(* aborts the process ends the run.  The iteration is split in the stages  *)
(* below, each taking the value of the one before as a parameter.          *)
(***************************************************************************)
\* The states table with the results res put in by uid.
MergeResults(sts, res) ==
    [u \in DOMAIN sts \cup {res[k].uid : k \in 1 .. Len(res)} |->
        IF \E k \in 1 .. Len(res) : res[k].uid = u
           THEN res[CHOOSE k \in 1 .. Len(res) : res[k].uid = u]
           ELSE sts[u]]

\* The results of this step that stopped without a new issue: they are
\* released at once (klc3.cpp:808-821).
Released(res, sts) ==
    {res[k].uid : k \in {k \in 1 .. Len(res) :
        sts[res[k].uid].status \in {"HALTED", "BROKEN"} /\ ~sts[res[k].uid].trig}}

\* Mutant: the early release frees a state without
\* searcher->eraseCompletedStates.
ReleaseNoErase(s, c, l, n, r, rel) ==
    [st |-> [u \in DOMAIN r.st \ rel |-> r.st[u]],
     P |-> r.P,
     nextUid |-> nextUid + n, iss |-> l.iss, cov |-> c,
     phase |-> phase, stepped |-> [pre |-> s, res |-> l.res]]

\* The early release: the released states leave the table and the
\* searcher's completed list.
Release(s, c, l, n, r, rel) ==
    [st |-> [u \in DOMAIN r.st \ rel |-> r.st[u]],
     P |-> [r.P EXCEPT !.q.completed = @ \ rel],
     nextUid |-> nextUid + n, iss |-> l.iss, cov |-> c,
     phase |-> phase, stepped |-> [pre |-> s, res |-> l.res]]

AfterPush(s, c, l, n, r) == Release(s, c, l, n, r, Released(l.res, r.st))

AfterLimits(f, s, c, l, n) ==
    AfterPush(s, c, l, n, SearcherPush(f.P, MergeResults(st, l.res), Uids(l.res)))

\* An assertion failing in a step or in updateColors aborts klc3.
Aborted(s, res) ==
    [st |-> st, P |-> P, nextUid |-> nextUid, iss |-> iss, cov |-> cov,
     phase |-> "crash", stepped |-> [pre |-> s, res |-> res]]

AfterColors(f, s, out, c, k) ==
    IF HasCrash(k.res) THEN {Aborted(s, k.res)}
    ELSE {IF HasCrash(l.res) THEN Aborted(s, l.res) ELSE AfterLimits(f, s, c.cov, l, out.n)
            : l \in CheckLimits(k.res, k.iss)}

AfterCover(f, s, out, c) == AfterColors(f, s, out, c, ColorAll(c.res, out.iss))

\* The values the iteration leaves, for the fetch outcome f and the step
\* outcome out of the state s taken from st.
IterateNext(f, s, out) ==
    IF HasCrash(out.res) THEN {Aborted(s, out.res)}
    ELSE AfterCover(f, s, out, CoverAll(out.res, cov))

Iterate ==
    /\ phase = "run"
    /\ \E f \in SearcherFetch(P) :
         /\ f.u # NoUid
         /\ LET s0 == st[f.u]
                s  == [s0 EXCEPT !.avoid = @ \/ f.react, !.fresh = FALSE,
                                 !.trail = Append(@, IntoEdge(s0))]
            IN \E n \in UNION {IterateNext(f, s, out) : out \in Step(s, iss, nextUid)} :
                 /\ st' = n.st
                 /\ P' = n.P
                 /\ nextUid' = n.nextUid
                 /\ iss' = n.iss
                 /\ cov' = n.cov
                 /\ phase' = n.phase
                 /\ stepped' = n.stepped
                 /\ UNCHANGED <<level, timedOut, la, searcherType, gold>>

\* Mutant: the level loop runs one level past maxSearcherLevel.
LevelDoneExtraLevel ==
    /\ phase = "run"
    /\ \A f \in SearcherFetch(P) : f.u = NoUid
    /\ level' = level + 1
    /\ phase' = IF level + 1 > MaxLevel + 1 THEN "done" ELSE "run"
    /\ P' = [P EXCEPT !.level = level + 1]
    /\ UNCHANGED <<st, nextUid, iss, cov, timedOut, stepped, la, searcherType, gold>>

\* Mutant: currentSearcherLevel is never increased.
LevelDoneNoIncrement ==
    /\ phase = "run"
    /\ \A f \in SearcherFetch(P) : f.u = NoUid
    /\ level' = level
    /\ phase' = IF level > MaxLevel THEN "done" ELSE "run"
    /\ P' = [P EXCEPT !.level = level]
    /\ UNCHANGED <<st, nextUid, iss, cov, timedOut, stepped, la, searcherType, gold>>

\* The searcher has nothing more at this level: go to the next one, or
\* leave the level loop (klc3.cpp:639-873).
LevelDone ==
    /\ phase = "run"
    /\ \A f \in SearcherFetch(P) : f.u = NoUid
    /\ level' = level + 1
    /\ phase' = IF level + 1 > MaxLevel THEN "done" ELSE "run"
    /\ P' = [P EXCEPT !.level = level + 1]
    /\ UNCHANGED <<st, nextUid, iss, cov, timedOut, stepped, la, searcherType, gold>>

\* The alarm finds the global time limit exceeded (klc3.cpp:847-853): the
\* message says the test terminates, and the inner loop is left, which
\* moves to the next searcher level.
TimeLimit ==
    /\ phase = "run"
    /\ level' = level + 1
    /\ phase' = IF level + 1 > MaxLevel THEN "done" ELSE "run"
    /\ timedOut' = TRUE
    /\ P' = [P EXCEPT !.level = level + 1]
    /\ UNCHANGED <<st, nextUid, iss, cov, stepped, la, searcherType, gold>>

Next == Iterate \/ LevelDone \/ TimeLimit

\* The searcher has a state to hand out.
HasWork == \E f \in SearcherFetch(P) : f.u # NoUid

\* The driver loop never idles: while the level loop runs, a state the
\* searcher can hand out is eventually stepped, and a level with nothing
\* left ends.  Executor::step always yields an outcome, so Iterate is
\* enabled exactly when phase = "run" /\ HasWork; the first conjunct is
\* weak fairness of Iterate, written with that predicate for ENABLED.  The
\* alarm (TimeLimit) gets no fairness: the time limit need not be reached.
Fairness ==
    /\ <>[](phase = "run" /\ HasWork) => []<><<Iterate>>_vars
    /\ WF_vars(LevelDone)

Spec == Init /\ [][Next]_vars /\ Fairness

(***************************************************************************)
(* Properties.                                                             *)
(***************************************************************************)
Phases == {"run", "done", "crash"}

Containers == SX!ToSet(P.q.s0) \cup SX!ToSet(P.q.s1) \cup P.post \cup P.q.completed

TypeOK ==
    /\ DOMAIN st \subseteq 0 .. nextUid - 1
    /\ \A u \in DOMAIN st : st[u].uid = u /\ st[u].F \subseteq InitF
                            /\ st[u].status \in {"NORMAL", "HALTED", "BROKEN"}
    /\ Containers \subseteq Nat
    /\ cov \subseteq StaticEdges \cup JumpEdges
    /\ iss \subseteq {IssueKey(t, l) : t \in RuntimeIssueTypes \cup CrossIssueTypes, l \in Nodes \cup {NoNode}}
    /\ level \in 0 .. MaxLevel + 1 /\ phase \in Phases /\ timedOut \in BOOLEAN

\* Between two iterations every allocated, unreleased state is held by
\* exactly one of the searcher's containers (the inner searcher's two
\* stacks, the postponed states, the completed states), without
\* duplicates; the stacks and the postponed set hold only NORMAL states,
\* which the driver asserts of every state it fetches, and the completed
\* set only HALTED or BROKEN ones, which the early release requires.
StatesConserved ==
    phase # "crash" =>
      /\ DOMAIN st = Containers
      /\ SX!ToSet(P.q.s0) \cap SX!ToSet(P.q.s1) = {}
      /\ (SX!ToSet(P.q.s0) \cup SX!ToSet(P.q.s1)) \cap P.post = {}
      /\ Len(P.q.s0) + Len(P.q.s1) = Cardinality(SX!ToSet(P.q.s0) \cup SX!ToSet(P.q.s1))
      /\ \A u \in SX!ToSet(P.q.s0) \cup SX!ToSet(P.q.s1) \cup P.post : st[u].status = "NORMAL"
      /\ \A u \in P.q.completed : st[u].status # "NORMAL"

\* Fork completeness: the states one step produces split the worlds of the
\* stepped state, each keeping some, none sharing one, none lost, and
\* every forked state has a fresh identity.
ForkPartition ==
    LET res == stepped.res
    IN /\ \A k \in 1 .. Len(res) : res[k].F # {}
       /\ \A j, k \in 1 .. Len(res) : j # k => res[j].F \cap res[k].F = {} /\ res[j].uid # res[k].uid
       /\ res # << >> => UNION {res[k].F : k \in 1 .. Len(res)} = stepped.pre.F

\* No edge the CC analysis flagged LIKELY_UNCOVERABLE is ever covered (the
\* warning appendEdgeCoverage prints never fires).
LikelyUncoverableNeverCovered == cov \cap LikelyUncoverable = {}

\* Call tracking (updateColors): every allocated state whose stack is not
\* messed up has one colour more than pending calls, the first colour is
\* the main code's, and the colour pushed with each pending JSR is the
\* entry it called; so the check a RET makes against the top of jsrStack
\* compares with the call it returns from.
CallStackConsistent ==
    \A u \in DOMAIN st :
        LET s == st[u]
        IN ~s.messed =>
             /\ Len(s.cs) = Len(s.js) + 1
             /\ s.cs[1] = InitPC
             /\ \A k \in 1 .. Len(s.js) :
                   Prog[s.js[k]].op = "JSR" => s.cs[k + 1] = Wrap(s.js[k] + 1 + Prog[s.js[k]].imm)

\* ERR_RET_IN_MAIN_CODE, raised by executeJMP and by updateColors, is only
\* ever reported at a RET of the main code: a RET executed inside a called
\* subroutine is never taken for a return from the main code.
RetErrorOnlyInMain ==
    \A i \in iss : i.type = "ERR_RET_IN_MAIN_CODE" => i.loc \in MainSubgraph

\* The segment bookkeeping of the pruning searcher agrees with the loop
\* analysis: every h2h or h2x path a state records while walking a loop is
\* one of the loop's segments, and the subloop bookkeeping never misses
\* (no assertion of testLoopExitAndUpdateH2XCoverage or testH2HAndUpdate
\* fails).
SegmentsMatch == P.err = {}

\* The test run ends: every state is stepped to completion or postponed
\* for good, and the searcher levels are exhausted.
Termination == <>(phase \in {"done", "crash"})

\* A state the inner searcher ranks first (s0) covered a new edge or
\* segment in the step that pushed it: coveredNewEdge and
\* coveredNewSegment are per-step flags.
PriorityIsPerStep == \A k \in 1 .. Len(P.q.s0) : st[P.q.s0[k]].fresh

\* A postponed state is never discarded: when the test run ends with
\* reactivation enabled, no state is left postponed.
PostponedNeverDiscarded == phase = "done" /\ ~timedOut => P.post = {}

\* No LC-3 program makes klc3 itself abort.
NoCrash == phase # "crash"

\* Once klc3 reports "Exceed global test time limit ... Terminating...",
\* the search has stopped: no searcher level runs after it.
TimeLimitTerminates == timedOut => phase # "run"

\* Guiding-edge round-trip: the full path reconstructed from the statePath
\* of a state that has just halted is the sequence of edges it took, from
\* the initial-PC entry through the virtual edge of its HALT trap.
StatePathRoundTrip ==
    \A k \in 1 .. Len(stepped.res) :
        LET h == stepped.res[k]
        IN h.status = "HALTED" =>
             ReconstructedFullPath(h.path, {}, Len(h.trail) + 2) = h.trail \o << HaltEdgeOf(h.last) >>

\* The value a and b have in world w differ (a null value differs from
\* any other).
ExprDiffers(a, b, w) == IF a = UninitExpr \/ b = UninitExpr THEN a # b ELSE a[w] # b[w]

\* The difference d the report names holds between the gold state g and the
\* test state t in world w.
Differs(g, t, d, w) ==
    CASE d.kind = "REG" -> ExprDiffers(g.reg[d.at], t.reg[d.at], w)
      [] d.kind = "MEM" -> ExprDiffers(CellExpr(Gold!MemRead(g, d.at)), CellExpr(MemRead(t, d.at)), w)
      [] OTHER -> g.last # t.last

\* A cross-check report is reproduced by its test case: the assignment
\* klc3.cpp:992-1014 draws from finalConstraintSets of the issue's state
\* (compare narrows it for every mismatch, and the driver keeps the last
\* non-empty compare), so every input it may pick must be one the gold
\* state recorded with the issue runs on, and must make each register,
\* address and last instruction named in the report differ from the gold.
ReportReproduced ==
    \A u \in DOMAIN st : \A x \in st[u].xinfo :
        /\ st[u].fin # {}
        /\ \A w \in st[u].fin : w \in x.gold.F /\ \A d \in x.diff : Differs(x.gold, st[u], d, w)

=============================================================================
