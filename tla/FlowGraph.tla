------------------------------ MODULE FlowGraph ------------------------------
(***************************************************************************)
(* The static flow graph klc3 builds from the initial memory image         *)
(* (FlowAnalysis/FlowGraph.cpp, FlowGraph.h, FlowGraphBasic.h): one node   *)
(* per user instruction, the statically known edges of each node in the    *)
(* order the constructor creates them, the "likely uncoverable" trimming   *)
(* of BR edges, guiding edges, path compression and reconstruction, and    *)
(* the "on" and "just covered" edge of a state.                            *)
(*                                                                         *)
(* A node is its address.  An edge is the record [from, to, type]; from is *)
(* NoNode only for the entry edge and to is NoNode only for the halt       *)
(* virtual edge.  The structural loop edges the LoopAnalyzer adds later    *)
(* are passed in explicitly (parameter extra) where the code reads them    *)
(* through Node::allOutEdges().                                            *)
(***************************************************************************)
EXTENDS LC3

NoNode == -1

NoEdge == [from |-> NoNode, to |-> NoNode, type |-> "NONE"]

\* Edge::Type below TYPE_RUNTIME_COUNT.
RuntimeTypes == {"NORMAL", "JMP", "JSRR", "JSR", "RET", "TRAP_VIRTUAL", "INIT_PC_ENTRY"}

\* Edge::Type above TYPE_RUNTIME_COUNT.
StructuralTypes == {"SUBROUTINE_VIRTUAL", "LOOP_H2H", "LOOP_H2X"}

\* FlowGraph::constructFromInitMem, first pass: one node per instruction.
Nodes == {a \in Addrs : Prog[a].kind = "INST"}

\* FlowGraph::newEdgeToAddrIfExists: the edge, or nothing if no node is there.
EdgeToAddrIfExists(a, t, ty) ==
    IF IsInstAt(t) THEN << [from |-> a, to |-> t, type |-> ty] >> ELSE << >>

\* The continue and branch targets of a BR (FlowGraph.cpp:109-116).
BRContinueAddr(a) == IF Prog[a].cc # CCFlags THEN Wrap(a + 1) ELSE NoNode

BRBranchAddr(a) == IF Prog[a].cc # {} THEN Wrap(a + 1 + Prog[a].imm) ELSE NoNode

\* FlowGraph::setNodeOutEdgesWithInst: the out edges of node a, in creation
\* order (continue edge before branch edge; JSR edge before its virtual
\* return edge; nothing for JMP/JSRR; a virtual edge for TRAP).
StaticOutEdges(a) ==
    LET i  == Prog[a]
        pc == Wrap(a + 1)
    IN CASE i.op = "BR" ->
              LET c == BRContinueAddr(a)
                  b == BRBranchAddr(a)
              IN (IF c # NoNode THEN EdgeToAddrIfExists(a, c, "NORMAL") ELSE << >>)
                 \o (IF b # NoNode /\ b # c THEN EdgeToAddrIfExists(a, b, "NORMAL") ELSE << >>)
         [] i.op = "JSR" ->
              EdgeToAddrIfExists(a, Wrap(pc + i.imm), "JSR")
              \o EdgeToAddrIfExists(a, pc, "SUBROUTINE_VIRTUAL")
         [] i.op \in {"JMP", "JSRR"} -> << >>
         [] i.op = "TRAP" ->
              IF i.vec \in ReturningTraps
                 THEN EdgeToAddrIfExists(a, pc, "TRAP_VIRTUAL")
                 ELSE << [from |-> a, to |-> NoNode, type |-> "TRAP_VIRTUAL"] >>
         [] OTHER -> EdgeToAddrIfExists(a, pc, "NORMAL")

\* FlowGraph::constructInitPCEdge.
InitPCEdge == [from |-> NoNode, to |-> InitPC, type |-> "INIT_PC_ENTRY"]

StaticEdges == UNION {SX!ToSet(StaticOutEdges(a)) : a \in Nodes} \cup {InitPCEdge}

\* Node::runtimeOutEdges() and Node::uniqueRuntimeOutEdge(), as newEdge()
\* recomputes it: the runtime out edge when there is exactly one.
RuntimeOutEdges(a) == SelectSeq(StaticOutEdges(a), LAMBDA e : e.type \in RuntimeTypes)

UniqueRuntimeOutEdge(a) ==
    IF Len(RuntimeOutEdges(a)) = 1 THEN Head(RuntimeOutEdges(a)) ELSE NoEdge

\* Node::allInEdges() at construction time.
AllInEdges(a) == {e \in StaticEdges : e.to = a}

\* The BR_CONTINUE_EDGE / BR_BRANCH_EDGE flags: a BR edge carries both (an
\* "always" edge) when the BR has a single target, or both targets coincide.
IsAlwaysEdge(e) ==
    LET c == BRContinueAddr(e.from)
        b == BRBranchAddr(e.from)
    IN c = NoNode \/ b = NoNode \/ c = b

IsContinueOnlyEdge(e) == ~IsAlwaysEdge(e) /\ e.to = BRContinueAddr(e.from)

\* The condition codes that can hold when leaving node a, from the table
\* prev of the level below: any after an instruction that sets them, and
\* otherwise those of its runtime in-edges (any, if one is virtual).
CCIntoNode(prev, a) ==
    LET ins == AllInEdges(a)
    IN IF \E x \in ins : x.type \in {"TRAP_VIRTUAL", "SUBROUTINE_VIRTUAL"} THEN CCFlags
       ELSE UNION {prev[x] : x \in {y \in ins : y.type \in RuntimeTypes}}

\* Mutant: a continue-only edge gets the branch condition of its BR.
EdgeCoverageCCNoContinue(prev, e) ==
    IF e.from = NoNode \/ Prog[e.from].op \notin {"JMP", "JSR", "JSRR", "ST", "STI", "STR", "TRAP", "RTI", "BR"}
    THEN CCFlags
    ELSE IF Prog[e.from].op # "BR" THEN CCIntoNode(prev, e.from)
    ELSE CCIntoNode(prev, e.from) \cap Prog[e.from].cc

\* FlowGraph::getEdgeCoverageCC(e, d) one level up from the table prev of
\* level d - 1: the flags a BR edge can be taken with are those reaching
\* the BR that its condition (or, for a continue-only edge, the negation)
\* accepts.
EdgeCoverageCC(prev, e) ==
    IF e.from = NoNode \/ Prog[e.from].op \notin {"JMP", "JSR", "JSRR", "ST", "STI", "STR", "TRAP", "RTI", "BR"}
    THEN CCFlags
    ELSE IF Prog[e.from].op # "BR" THEN CCIntoNode(prev, e.from)
    ELSE CCIntoNode(prev, e.from)
         \cap (IF IsContinueOnlyEdge(e) THEN CCFlags \ Prog[e.from].cc ELSE Prog[e.from].cc)

CCLevel(prev) == [e \in StaticEdges |-> EdgeCoverageCC(prev, e)]

\* getEdgeCoverageCC traced back at most d levels through instructions
\* that leave the CC alone, tabulated for every static edge at once.
RECURSIVE CoverageCCTable(_)
CoverageCCTable(d) ==
    IF d = 0 THEN [e \in StaticEdges |-> CCFlags] ELSE CCLevel(CoverageCCTable(d - 1))

\* FlowGraph::haveJMPOrJSRR: set when a JMP other than RET, or a JSRR, exists.
HaveJMPOrJSRR == \E a \in Nodes : Prog[a].op = "JSRR" \/ (Prog[a].op = "JMP" /\ ~IsRET(a))

\* FlowGraph::trimBREdges (run by the constructor unless HaveJMPOrJSRR):
\* a BR edge that is not an "always" edge and whose coverage CC is empty
\* is flagged LIKELY_UNCOVERABLE.
IsLikelyUncoverable(e) ==
    /\ ~HaveJMPOrJSRR
    /\ e.type \in RuntimeTypes /\ e.from # NoNode
    /\ Prog[e.from].op = "BR" /\ ~IsAlwaysEdge(e)
    /\ CoverageCCTable(10)[e] = {}

LikelyUncoverable == {e \in StaticEdges : IsLikelyUncoverable(e)}

\* Mutant: a BR edge is not a guiding edge.
IsGuidingEdgeNoBR(e) ==
    \/ e.type \in StructuralTypes
    \/ Prog[e.from].op \in {"JMP", "JSRR"}

\* Edge::isGuidingEdge.
IsGuidingEdge(e) ==
    \/ e.type \in StructuralTypes
    \/ UniqueRuntimeOutEdge(e.from) = NoEdge
    \/ Prog[e.from].op \in {"JMP", "JSRR"}

\* Path::appendCompressed.
AppendCompressed(p, e, isLast) ==
    IF isLast \/ p = << >> \/ IsGuidingEdge(e) THEN Append(p, e) ELSE p

\* Path::compress: keep every edge equal to the front or the back edge and
\* every guiding edge.
Compress(p) ==
    IF p = << >> THEN p
    ELSE SelectSeq(p, LAMBDA e : e = Head(p) \/ e = p[Len(p)] \/ IsGuidingEdge(e))

\* Node::allOutEdges(): the static edges and the structural edges in extra.
AllOutEdges(a, extra) == SX!ToSet(StaticOutEdges(a)) \cup {e \in extra : e.from = a}

ReconFail == << [from |-> NoNode, to |-> NoNode, type |-> "FAIL"] >>

\* Path::reconstructedFullPath, walking from node cur: take the next recorded
\* edge when it leaves cur, else the unique runtime out edge; the assertion
\* "Can not reconstruct the path" (and a walk longer than fuel) gives ReconFail.
RECURSIVE ReconFrom(_, _, _, _, _)
ReconFrom(cur, p, i, extra, fuel) ==
    IF i > Len(p) THEN << >>
    ELSE IF fuel = 0 \/ cur = NoNode THEN ReconFail
    ELSE IF p[i] \in AllOutEdges(cur, extra)
         THEN LET r == ReconFrom(p[i].to, p, i + 1, extra, fuel - 1)
              IN IF r = ReconFail THEN r ELSE << p[i] >> \o r
    ELSE IF UniqueRuntimeOutEdge(cur) # NoEdge
         THEN LET u == UniqueRuntimeOutEdge(cur)
                  r == ReconFrom(u.to, p, i, extra, fuel - 1)
              IN IF r = ReconFail THEN r ELSE << u >> \o r
    ELSE ReconFail

ReconstructedFullPath(p, extra, fuel) ==
    IF p = << >> THEN << >>
    ELSE LET r == ReconFrom(Head(p).to, p, 2, extra, fuel)
         IN IF r = ReconFail THEN r ELSE << Head(p) >> \o r

(***************************************************************************)
(* The "on" and "just covered" edges of a state.  Only the fields the      *)
(* code reads are used: status, pc, and the last two executed user        *)
(* instructions last (latestNonOSInst[0]) and prev (latestNonOSInst[1]),   *)
(* NoNode while unset.  OS code is not modelled, so latestInst[0] is       *)
(* always latestNonOSInst[0].                                              *)
(***************************************************************************)
\* The edge CoverageTracker::prepareEdgeToPCNode adds to the graph when a
\* NORMAL state has just jumped from the JMP or JSRR at a to the node t and
\* no such edge exists yet (a JMP R7 gives a RET edge).  An edge is its
\* record, so the edge added by the first state to take it is the one
\* every later state finds.
JumpEdge(a, t) ==
    [from |-> a, to |-> t,
     type |-> CASE Prog[a].op = "JSRR" -> "JSRR" [] IsRET(a) -> "RET" [] OTHER -> "JMP"]

JumpEdges == {JumpEdge(a, t) : a \in {n \in Nodes : Prog[n].op \in {"JMP", "JSRR"}}, t \in Nodes}

\* The runtime out edge of a to t, static or added by prepareEdgeToPCNode.
OutEdgeTo(a, t) ==
    LET m == SelectSeq(RuntimeOutEdges(a), LAMBDA e : e.to = t)
    IN CASE m # << >> -> Head(m)
         [] Prog[a].op \in {"JMP", "JSRR"} /\ IsInstAt(t) -> JumpEdge(a, t)
         [] OTHER -> NoEdge

HaltEdgeOf(a) ==
    LET m == SelectSeq(RuntimeOutEdges(a), LAMBDA e : e.type = "TRAP_VIRTUAL")
    IN IF m = << >> THEN NoEdge ELSE Head(m)

\* FlowGraph::getOnEdge.
GetOnEdge(s) ==
    IF s.last = NoNode THEN InitPCEdge
    ELSE IF HaltEdgeOf(s.last) # NoEdge THEN HaltEdgeOf(s.last)
    ELSE IF ~IsInstAt(s.pc) THEN NoEdge
    ELSE OutEdgeTo(s.last, s.pc)

\* FlowGraph::getJustCoveredEdge.
GetJustCoveredEdge(s) ==
    CASE s.status = "HALTED" ->
           LET h == HaltEdgeOf(s.last)
           IN IF h # NoEdge /\ h.to = NoNode THEN h ELSE NoEdge
      [] s.status = "NORMAL" ->
           IF s.last = NoNode THEN NoEdge
           ELSE IF s.prev = NoNode THEN InitPCEdge
           ELSE OutEdgeTo(s.prev, s.last)
      [] OTHER -> NoEdge

=============================================================================
