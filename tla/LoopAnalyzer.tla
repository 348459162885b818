---------------------------- MODULE LoopAnalyzer ----------------------------
(***************************************************************************)
(* Loop decomposition of a subroutine's flow graph                         *)
(* (FlowAnalysis/LoopAnalyzer.cpp, LoopAnalyzer.h).                        *)
(*                                                                         *)
(* analyzeLoopDFS mutates the loop table, the outer loop and the flow      *)
(* graph (the LOOP_H2H / LOOP_H2X edges it creates) in place and returns   *)
(* false when the segment count passes the maximum; here it is a function  *)
(* from an accumulator A to the next A:                                    *)
(*   A.loops  entry node -> loop record (NoNode keys the "(main)" pseudo   *)
(*            loop, which is never put in the analyzer's table),           *)
(*   A.extra  the structural edges created so far, in creation order,      *)
(*   A.hs     loopHeadStack,   A.count  totalSegmentCount,                 *)
(*   A.ok     FALSE once analyzeLoopDFS has returned false,                *)
(*   A.depth  the current recursion depth of analyzeLoopDFS,               *)
(*   A.lu     the edges flagged LIKELY_UNCOVERABLE (fixed by then).         *)
(* A structural edge carries the loop that owns it (field lp): two loops   *)
(* with the same entry create distinct Edge objects for the same pair of   *)
(* nodes.                                                                  *)
(***************************************************************************)
EXTENDS FlowGraph

CONSTANTS
    MaxSegmentCount,   \* MAXIMAL_SEGMENT_COUNT
    MaxDepth           \* recursion depth taken to mean the DFS does not return

LoopRec(entry, nodes) ==
    [entry |-> entry, nodes |-> nodes, subloops |-> {}, h2h |-> {}, h2x |-> {},
     h2hE |-> {}, h2xE |-> {}, lastE |-> {}]

(***************************************************************************)
(* analysisSCC / tarjanDFS: the strongly connected components of the       *)
(* subgraph N over the out edges Tarjan follows (no JSR/JSRR, no loop      *)
(* edges, no likely-uncoverable edges, targets inside N).  Which node      *)
(* becomes the SCC root does not matter to the analyzer: it only asks      *)
(* whether two nodes share a root and whether the component has more than  *)
(* one node (loopBlockRoot).                                               *)
(***************************************************************************)
SccSucc(n, N, lu) ==
    {e.to : e \in {x \in SX!ToSet(StaticOutEdges(n)) :
                      x.type \notin {"JSR", "JSRR"} /\ x \notin lu /\ x.to \in N}}

RECURSIVE ReachFrom(_, _, _, _)
ReachFrom(S, N, lu, k) ==
    LET S2 == S \cup UNION {SccSucc(n, N, lu) : n \in S}
    IN IF S2 = S \/ k = 0 THEN S ELSE ReachFrom(S2, N, lu, k - 1)

Reach(n, N, lu) == ReachFrom(SccSucc(n, N, lu), N, lu, Cardinality(N))

SCC(n, N, lu) == {n} \cup {m \in Reach(n, N, lu) : n \in Reach(m, N, lu)}

\* LoopAnalyzer::existingLoopCanBeSubloop.
ExistingLoopCanBeSubloop(l, N) == l.nodes \subseteq N

\* Node::allOutEdges() during the analysis: the static edges in creation
\* order, then the structural edges created so far from n.
NodeOutEdges(n, A) == StaticOutEdges(n) \o SelectSeq(A.extra, LAMBDA e : e.from = n)

IsLoopEdge(e) == e.type \in {"LOOP_H2H", "LOOP_H2X"}

\* An AddSegment that fails on reaching the limit instead of passing it.
AddSegmentAtLimit(A, ol, kind, seg) ==
    LET l    == A.loops[ol]
        ty   == IF kind = "h2h" THEN "LOOP_H2H" ELSE "LOOP_H2X"
        le   == [from |-> Head(seg).from, to |-> seg[Len(seg)].to, type |-> ty, lp |-> ol]
        segs == IF kind = "h2h" THEN l.h2h ELSE l.h2x
        les  == IF kind = "h2h" THEN l.h2hE ELSE l.h2xE
        l2   == [l EXCEPT !.lastE = @ \cup {seg[Len(seg)]}]
        l3   == IF kind = "h2h" THEN [l2 EXCEPT !.h2h = @ \cup {seg}, !.h2hE = @ \cup {le}]
                ELSE [l2 EXCEPT !.h2x = @ \cup {seg}, !.h2xE = @ \cup {le}]
    IN IF A.count + 1 >= MaxSegmentCount
       THEN [A EXCEPT !.count = @ + 1, !.ok = FALSE,
                      !.loops[ol] = IF kind = "h2h" THEN [l EXCEPT !.h2h = @ \cup {seg}]
                                    ELSE [l EXCEPT !.h2x = @ \cup {seg}]]
       ELSE [A EXCEPT !.count = @ + 1, !.loops[ol] = l3,
                      !.extra = IF le \in les THEN @ ELSE Append(@, le),
                      !.dup = @ \/ seg \in segs]

\* Recording a segment of the loop keyed ol (LoopAnalyzer.cpp:201-257):
\* kind is "h2h" or "h2x"; the loop edge with the same endpoints is created
\* only once per loop.
AddSegment(A, ol, kind, seg) ==
    LET l    == A.loops[ol]
        ty   == IF kind = "h2h" THEN "LOOP_H2H" ELSE "LOOP_H2X"
        le   == [from |-> Head(seg).from, to |-> seg[Len(seg)].to, type |-> ty, lp |-> ol]
        segs == IF kind = "h2h" THEN l.h2h ELSE l.h2x
        les  == IF kind = "h2h" THEN l.h2hE ELSE l.h2xE
        l2   == [l EXCEPT !.lastE = @ \cup {seg[Len(seg)]}]
        l3   == IF kind = "h2h" THEN [l2 EXCEPT !.h2h = @ \cup {seg}, !.h2hE = @ \cup {le}]
                ELSE [l2 EXCEPT !.h2x = @ \cup {seg}, !.h2xE = @ \cup {le}]
    IN IF A.count + 1 > MaxSegmentCount
       THEN [A EXCEPT !.count = @ + 1, !.ok = FALSE,
                      !.loops[ol] = IF kind = "h2h" THEN [l EXCEPT !.h2h = @ \cup {seg}]
                                    ELSE [l EXCEPT !.h2x = @ \cup {seg}]]
       ELSE [A EXCEPT !.count = @ + 1, !.loops[ol] = l3,
                      !.extra = IF le \in les THEN @ ELSE Append(@, le),
                      !.dup = @ \/ seg \in segs]

\* Mutant: at a subloop's entry every out edge is followed, not only the
\* subloop's head-to-exit edges.
SkipEdgeNoSubloopFilter(e, lp, A) ==
    \/ e.type \in {"JSR", "JSRR"}
    \/ e \in A.lu
    \/ lp = NoNode /\ IsLoopEdge(e)

\* The edges the loop over the out edges of cur skips (LoopAnalyzer.cpp:
\* 166-188): calls, likely-uncoverable edges, at the entry lp of a
\* subloop every edge but that subloop's head-to-exit edges, elsewhere the
\* structural loop edges.
SkipEdge(e, lp, A) ==
    \/ e.type \in {"JSR", "JSRR"}
    \/ e \in A.lu
    \/ lp # NoNode /\ ~(e.type = "LOOP_H2X" /\ e \in A.loops[lp].h2xE)
    \/ lp = NoNode /\ IsLoopEdge(e)

(***************************************************************************)
(* LoopAnalyzer::analyzeLoopDFS(cur, N, outer, path) and its loop over the *)
(* out edges of cur.                                                       *)
(***************************************************************************)
RECURSIVE AnalyzeLoopDFS(_, _, _, _, _), DFSFrom(_, _, _, _, _), NewLoopDFS(_, _, _, _, _, _),
          AfterNewLoop(_, _, _, _, _, _), VisitOutEdges(_, _, _, _, _, _),
          VisitEdges(_, _, _, _, _, _, _, _)

AnalyzeLoopDFS(cur, N, ol, path, A0) == DFSFrom(cur, N, ol, path, [A0 EXCEPT !.depth = @ + 1])

\* The body of analyzeLoopDFS, one frame deeper: a node not yet known as a
\* loop entry that heads a non-trivial SCC of N starts a new loop; the
\* entry of a subloop of ol, or of an existing loop that fits in N, is
\* visited as that subloop; anything else is visited plainly.
DFSFrom(cur, N, ol, path, A) ==
    IF A.depth > MaxDepth THEN [A EXCEPT !.ok = FALSE, !.diverged = TRUE]
    ELSE IF cur \notin DOMAIN A.loops
    THEN IF Cardinality(SCC(cur, N, A.lu)) > 1
         THEN NewLoopDFS(cur, N, ol, path, SCC(cur, N, A.lu), A)
         ELSE VisitOutEdges(cur, N, ol, path, NoNode, A)
    ELSE IF cur \in A.loops[ol].subloops
         THEN VisitOutEdges(cur, N, ol, path, cur, A)
    ELSE IF ExistingLoopCanBeSubloop(A.loops[cur], N)
         THEN VisitOutEdges(cur, N, ol, path, cur, [A EXCEPT !.loops[ol].subloops = @ \cup {cur}])
    ELSE VisitOutEdges(cur, N, ol, path, NoNode, A)

\* A new loop with entry cur over nodes: push it on loopHeadStack, make it
\* a subloop of ol, and analyse its body from cur within nodes \ {cur}.
NewLoopDFS(cur, N, ol, path, nodes, A) ==
    AfterNewLoop(cur, N, ol, path, A.depth,
                 AnalyzeLoopDFS(cur, nodes \ {cur}, cur, << >>,
                                [A EXCEPT !.loops = (cur :> LoopRec(cur, nodes)) @@ @,
                                          !.hs = Append(@, cur),
                                          !.loops[ol].subloops = @ \cup {cur}]))

\* Back from the body of the loop cur (d the frame's depth): pop
\* loopHeadStack, note a loop without head-to-head segment, and go on over
\* cur's out edges as the entry of that subloop.
AfterNewLoop(cur, N, ol, path, d, A) ==
    IF ~A.ok THEN A
    ELSE VisitOutEdges(cur, N, ol, path, cur,
                       [A EXCEPT !.hs = SubSeq(@, 1, Len(@) - 1), !.depth = d,
                                 !.noH2H = @ \/ A.loops[cur].h2h = {}])

\* The loop over a copy of cur's out edges taken before it starts
\* (LoopAnalyzer.cpp:164); lp is the subloop entered at cur (NoNode if none).
VisitOutEdges(cur, N, ol, path, lp, A) == VisitEdges(cur, N, ol, path, lp, NodeOutEdges(cur, A), 1, A)

VisitEdges(cur, N, ol, path, lp, es, i, A) ==
    IF i > Len(es) \/ ~A.ok THEN [A EXCEPT !.depth = @ - 1]
    ELSE VisitEdges(cur, N, ol, path, lp, es, i + 1,
                    IF SkipEdge(es[i], lp, A) THEN A
                    ELSE IF es[i].to \in N
                         THEN [AnalyzeLoopDFS(es[i].to, N, ol, AppendCompressed(path, es[i], FALSE), A)
                                  EXCEPT !.depth = A.depth]
                    ELSE IF A.hs # << >> /\ es[i].to = A.hs[Len(A.hs)]
                         THEN AddSegment(A, ol, "h2h", AppendCompressed(path, es[i], TRUE))
                    ELSE AddSegment(A, ol, "h2x", AppendCompressed(path, es[i], TRUE)))

\* The loops the DFS from the pseudo loop "(main)" found: its subloops are
\* the top-level loops, and the pseudo loop itself is dropped.
LoopsFound(A) ==
    [A EXCEPT !.top = IF A.ok THEN @ \cup A.loops[NoNode].subloops ELSE @,
              !.loops = [k \in DOMAIN @ \ {NoNode} |-> @[k]]]

\* LoopAnalyzer::analyzeLoops(entry, N) for one subroutine, starting from
\* the loop table A of the subroutines analysed before.
AnalyzeLoops(entry, N, A) ==
    LoopsFound(AnalyzeLoopDFS(entry, N, NoNode, << >>,
                              [A EXCEPT !.loops = (NoNode :> LoopRec(entry, N)) @@ @]))

EmptyAnalysis ==
    [lu |-> LikelyUncoverable, loops |-> << >>, extra |-> << >>, hs |-> << >>, count |-> 0, ok |-> TRUE,
     depth |-> 0, diverged |-> FALSE, dup |-> FALSE, noH2H |-> FALSE, top |-> {}]

=============================================================================
