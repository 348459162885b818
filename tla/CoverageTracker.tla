--------------------------- MODULE CoverageTracker ---------------------------
(***************************************************************************)
(* Edge coverage and the state path (FlowAnalysis/CoverageTracker.cpp).    *)
(*                                                                         *)
(* The covered flags of the flow graph's edges are the set cov of covered  *)
(* edges.  A state record carries newEdge (coveredNewEdge), fresh (the     *)
(* per-step flag the design describes: set only by the step just taken)    *)
(* and path (statePath).                                                   *)
(***************************************************************************)
EXTENDS FlowGraph

\* CoverageTracker::appendEdgeCoverage.  The state's path keeps the edge
\* when it is a guiding edge or the state has stopped.
AppendEdgeCoverage(s, cov, e) ==
    LET new == e \notin cov
    IN [s   |-> [s EXCEPT !.newEdge = @ \/ new,
                          !.fresh   = @ \/ new,
                          !.path    = AppendCompressed(@, e, s.status # "NORMAL")],
        cov |-> cov \cup {e}]

\* The INSTANT_HALT case: the edge pe from the instruction before the trap.
CoverPrevEdge(r, pe) == IF pe # NoEdge THEN AppendEdgeCoverage(r.s, r.cov, pe) ELSE r

\* A halted state r after its halt edge: an INSTANT_HALT trap also covers
\* the edge into the trap, appended after the halt edge.
CoverHalt(r) ==
    IF Prog[r.s.last].halt /\ r.s.prev # NoNode
    THEN CoverPrevEdge(r, OutEdgeTo(r.s.prev, r.s.last))
    ELSE r

\* The edge e a state just completed, by the state's status.
CoverEdge(s, cov, e) ==
    CASE s.status = "HALTED" /\ e # NoEdge -> CoverHalt(AppendEdgeCoverage(s, cov, e))
      [] s.status = "NORMAL" /\ e # NoEdge -> AppendEdgeCoverage(s, cov, e)
      [] OTHER -> [s |-> s, cov |-> cov]

\* CoverageTracker::updateGraphAndCoverage.  A HALTED state covers the
\* virtual halt edge of its trap and, when the trap is an INSTANT_HALT, the
\* edge from the instruction before it; a NORMAL state covers the edge it
\* just completed.  The edge prepareEdgeToPCNode then adds for a jump is
\* JumpEdge, found by OutEdgeTo; its assertion that any other instruction
\* already has an edge to the PC node holds in the model, where every
\* other instruction has a static edge to each node it can set the PC to.
UpdateGraphAndCoverage(s, cov) == CoverEdge(s, cov, GetJustCoveredEdge(s))

=============================================================================
