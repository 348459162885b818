--------------------------- MODULE PruningSearcher ---------------------------
(***************************************************************************)
(* The loop-aware searcher (Searcher/PruningSearcher.cpp, .h) wrapping a   *)
(* PrioritizedFILOSearcher, over the loops the LoopAnalyzer found in the   *)
(* main code (the modelled programs have no subroutines, so every colour   *)
(* comparison of the code is between equal colours).                       *)
(*                                                                         *)
(* A state record carries the loop stack ls, a sequence of layers          *)
(* [lp |-> loop entry, path |-> loopPathFromEntry], and the flags newSeg   *)
(* (coveredNewSegment) and avoid (avoidLoopReductionPostpone).  The        *)
(* searcher record P holds q (the inner searcher), post (postponedStates,  *)
(* a set: fetch picks among them uniformly, so their order never matters), *)
(* uncov (uncoveredLoops: loop entry -> [h2h, h2x] uncovered segments),    *)
(* level (fetchLevel) and err, the assertions of the code that have        *)
(* failed, by name.                                                        *)
(***************************************************************************)
EXTENDS LoopAnalyzer, PrioritizedFILO

\* SubroutineTracker::colorPath from the initial PC: the nodes of the main
\* code, following runtime out edges, and stepping over a JSR to the
\* instruction after it.
RECURSIVE ColorFrom(_, _)
ColorFrom(S, k) ==
    LET Succ(n) == IF Prog[n].op \in {"JSR", "JSRR"}
                      THEN {Wrap(n + 1)} \cap Nodes
                   ELSE IF IsRET(n) THEN {}
                   ELSE {e.to : e \in {x \in SX!ToSet(RuntimeOutEdges(n)) : x.to # NoNode}}
        S2 == S \cup UNION {Succ(n) : n \in S}
    IN IF S2 = S \/ k = 0 THEN S ELSE ColorFrom(S2, k - 1)

MainSubgraph == IF InitPC \in Nodes THEN ColorFrom({InitPC}, Cardinality(Nodes)) ELSE {}

\* The loop analysis klc3.cpp runs before choosing the searcher.  Its
\* result is held in the variable la, set once by the initial predicate of
\* a specification using this module and never changed after.
LoopAnalysis == AnalyzeLoops(InitPC, MainSubgraph, EmptyAnalysis)

VARIABLE la

Analysis == la

ForgetLoop(f, k) == [x \in DOMAIN f \ {k} |-> f[x]]

\* PruningSearcher::PruningSearcher: every loop starts uncovered.
PruneInit(level) ==
    [q |-> FiloInit, post |-> {}, level |-> level, err |-> {},
     uncov |-> [l \in DOMAIN Analysis.loops |->
                  [h2h |-> Analysis.loops[l].h2h, h2x |-> Analysis.loops[l].h2x]]]

Top(s) == s.ls[Len(s.ls)]

TopLoop(s) == Analysis.loops[Top(s).lp]

Fail(P, cond, name) == IF cond THEN P ELSE [P EXCEPT !.err = @ \cup {name}]

\* Mutant: the edge is appended as if it never ended a segment.
AppendLoopPathNeverLast(s, on) ==
    [s EXCEPT !.ls[Len(s.ls)].path = AppendCompressed(@, on, FALSE)]

\* PruningSearcher::appendLoopPath.
AppendLoopPath(s, on) ==
    [s EXCEPT !.ls[Len(s.ls)].path = AppendCompressed(@, on, on \in TopLoop(s).lastE)]

\* PruningSearcher::insideTopLoop.
InsideTopLoop(s, on) == on.to \in TopLoop(s).nodes

\* The rest of CoverSegment: info is what is left uncovered of loop lp, hit
\* whether the segment was uncovered.
SetUncovered(P, s, lp, hit, info) ==
    [P |-> [P EXCEPT !.uncov = IF info.h2h = {} /\ info.h2x = {}
                               THEN ForgetLoop(@, lp)
                               ELSE [@ EXCEPT ![lp] = info]],
     s |-> IF hit THEN [s EXCEPT !.newSeg = TRUE, !.fresh = TRUE] ELSE s]

\* The coverage update shared by the h2x and h2h tests: erase seg from the
\* uncovered segments of loop lp (kind "h2h" or "h2x"), mark the state when
\* it was uncovered, and drop the loop once nothing of it is uncovered.
CoverSegment(P, s, lp, kind, seg) ==
    IF lp \notin DOMAIN P.uncov THEN [P |-> P, s |-> s]
    ELSE SetUncovered(P, s, lp, seg \in P.uncov[lp][kind], [P.uncov[lp] EXCEPT ![kind] = @ \ {seg}])

\* PruningSearcher::testLoopExitAndUpdateH2XCoverage: pop every layer the
\* state has left, covering its h2x segment, and append the subloop's h2x
\* edge to the layer below.
RECURSIVE ExitLoops(_, _, _), ExitTop(_, _, _), ExitBelow(_, _, _, _)
ExitLoops(P, s, on) ==
    IF s.ls = << >> \/ InsideTopLoop(s, on) THEN [P |-> P, s |-> s]
    ELSE ExitTop(CoverSegment(Fail(P, Top(s).path \in TopLoop(s).h2x, "UnmatchedH2X"),
                              s, Top(s).lp, "h2x", Top(s).path),
                 TopLoop(s).h2xE, on)

\* The top layer r.s.ls has been covered: pop it; subs are the h2x edges of
\* the popped loop leading where the state goes.
ExitTop(r, h2xE, on) ==
    ExitBelow(r.P, [r.s EXCEPT !.ls = Pop(@)], {e \in h2xE : e.to = on.to}, on)

\* With a layer left below, its path must be non-empty and the exit edge
\* of the subloop is appended to it.
ExitBelow(P, s, subs, on) ==
    IF s.ls = << >> THEN ExitLoops(P, s, on)
    ELSE ExitLoops(Fail(Fail(P, Top(s).path # << >>, "EmptyUpperPath"), subs # {}, "NoSubloopH2XEdge"),
                   IF subs = {} THEN s ELSE AppendLoopPath(s, CHOOSE x \in subs : TRUE),
                   on)

\* PruningSearcher::enterNewLoopIfAny (findLoop by entry node).
EnterNewLoop(s, on) ==
    LET cands == IF s.ls = << >> THEN Analysis.top ELSE TopLoop(s).subloops
    IN IF on.to \in cands THEN [s EXCEPT !.ls = Append(@, [lp |-> on.to, path |-> << >>])]
       ELSE s

\* PruningSearcher::testH2HAndUpdate.
TestH2H(P, s, on) ==
    IF s.ls # << >> /\ on.to = Top(s).lp /\ Top(s).path # << >>
    THEN LET r == CoverSegment(Fail(P, Top(s).path \in TopLoop(s).h2h, "UnmatchedH2H"),
                               s, Top(s).lp, "h2h", Top(s).path)
         IN [r EXCEPT !.s.ls[Len(s.ls)].path = << >>]
    ELSE [P |-> P, s |-> s]

\* PruningSearcher::isPrefix (without the additional edge).
IsPrefix(p, t) == Len(p) <= Len(t) /\ SubSeq(t, 1, Len(p)) = p

\* PruningSearcher::onPrefixOfUncoveredSegment.
OnPrefixOfUncoveredSegment(P, s) ==
    \E k \in 1 .. Len(s.ls) :
        LET lp == s.ls[k].lp
        IN lp \in DOMAIN P.uncov
           /\ \E t \in P.uncov[lp].h2h \cup P.uncov[lp].h2x : IsPrefix(s.ls[k].path, t)

\* Steps (c) and (d) of push, after the exits r of step (b).
EnterAndTestH2H(r, on) == TestH2H(r.P, EnterNewLoop(r.s, on), on)

\* The scheduling decision of push for the walked state t: through to the
\* inner searcher (go), marked never to be postponed, or postponed.
Schedule(P, t) ==
    CASE t.newEdge \/ t.newSeg \/ t.avoid -> [P |-> P, s |-> t, go |-> TRUE]
      [] Prog[t.last].op = "BR" ->
           IF t.ls = << >> \/ OnPrefixOfUncoveredSegment(P, t)
              THEN [P |-> P, s |-> [t EXCEPT !.avoid = TRUE], go |-> TRUE]
              ELSE [P |-> [P EXCEPT !.post = @ \cup {t.uid}], s |-> t, go |-> FALSE]
      [] OTHER -> [P |-> P, s |-> [t EXCEPT !.avoid = TRUE], go |-> TRUE]

ScheduleWalked(r) == Schedule(r.P, r.s)

\* Steps (a) to (d) of push over the edge on, then the decision.
WalkAndSchedule(P, s, on) ==
    ScheduleWalked(EnterAndTestH2H(ExitLoops(P, IF s.ls # << >> THEN AppendLoopPath(s, on) ELSE s, on), on))

\* The body of PruningSearcher::push for one state: the updated searcher,
\* the updated state, and whether it goes through to the inner searcher.
PushOne(P, s) ==
    IF \/ s.status = "BROKEN" \/ s.messed
       \/ GetJustCoveredEdge(s) = NoEdge \/ GetOnEdge(s) = NoEdge
    THEN [P |-> P, s |-> s, go |-> TRUE]
    ELSE WalkAndSchedule(P, s, GetOnEdge(s))

\* PruningSearcher::push: each state of the step's results in order, then
\* the ones that go through are pushed to the inner searcher together.
RECURSIVE PushEach(_, _, _, _), PushRest(_, _, _, _)
PushEach(P, st, us, through) ==
    IF us = << >> THEN [P |-> [P EXCEPT !.q = FiloPush(@, st, through)], st |-> st]
    ELSE PushRest(PushOne(P, st[Head(us)]), st, us, through)

\* The rest of the loop after the first state of us gave r.
PushRest(r, st, us, through) ==
    PushEach(r.P, [st EXCEPT ![Head(us)] = r.s], Tail(us),
             IF r.go THEN Append(through, Head(us)) ELSE through)

PrunePush(P, st, us) == PushEach(P, st, us, << >>)

\* PruningSearcher::fetchOneState: the possible outcomes, as records
\* [P, u, react] (u = NoUid for nothing; react when a postponed state is
\* reactivated, which the caller marks avoidLoopReductionPostpone).
PruneFetch(P) ==
    LET r == FiloFetch(P.q)
    IN IF r.u # NoUid THEN {[P |-> [P EXCEPT !.q = r.Q], u |-> r.u, react |-> FALSE]}
       ELSE IF P.post = {} \/ DOMAIN P.uncov = {} \/ P.level < 1
            THEN {[P |-> P, u |-> NoUid, react |-> FALSE]}
       ELSE {[P |-> [P EXCEPT !.post = @ \ {u}], u |-> u, react |-> TRUE] : u \in P.post}

=============================================================================
