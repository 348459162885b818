--------------------------- MODULE MCLoopAnalyzer ---------------------------
(***************************************************************************)
(* The load and loop-analysis pipeline.  A program is either an assembly  *)
(* listing chosen among all listings of ProgLen rows (straight-line       *)
(* instructions, an INSTANT_HALT trap and BR instructions to any row),    *)
(* written as source at one of Origins, or one of ExtraSources; it is     *)
(* assembled by the two-pass Lexer (Assembler), loaded through            *)
(* InstValue's decoder as writeInst does, and its loops are analysed.     *)
(* Or a script of "; KLC3:" command files is loaded (LoaderCommands).     *)
(***************************************************************************)
EXTENDS Integers, FiniteSets, Sequences, TLC, FiniteSetsExt

CONSTANTS ProgLen, AllowSelfLoops

CONSTANTS Origins   \* the .ORIG operands the listings are assembled at

VARIABLES listing, src, lx, stage, prog, an
    \* the listing, its source, the Lexer, the pipeline's stage, the loaded
    \* image, the analysis

VARIABLES script, loaded
    \* a script of "; KLC3:" command files, and what loading it left

\* Listing rows: the operands of each instruction by field; a BR names its
\* target row, a HALT carries the "KLC3: INSTANT_HALT" annotation.  The
\* straight-line rows take immediates at the ends of their ranges and
\* include the opcodes with the top bit set, which RTI's mask also fits.
Straight ==
    {[op |-> "ADDi", dr |-> 0, sr1 |-> 0, imm |-> -1],
     [op |-> "ANDi", dr |-> 3, sr1 |-> 7, imm |-> -16],
     [op |-> "ADD", dr |-> 0, sr1 |-> 0, sr2 |-> 7],
     [op |-> "NOT", dr |-> 7, sr1 |-> 3],
     [op |-> "LDI", dr |-> 0, imm |-> -256],
     [op |-> "STI", sr |-> 7, imm |-> 255],
     [op |-> "LEA", dr |-> 3, imm |-> -1],
     [op |-> "LDR", dr |-> 7, base |-> 3, imm |-> -32],
     [op |-> "STR", sr |-> 0, base |-> 7, imm |-> 31],
     [op |-> "TRAP", vec |-> 33]}

HaltRow == [op |-> "TRAP", vec |-> 37, halt |-> TRUE]

Rows(n) ==
    Straight \cup {HaltRow}
    \cup {[op |-> "BR", cc |-> cc, target |-> t] : cc \in {{"z"}, {"n", "z", "p"}}, t \in 0 .. n - 1}

Listings ==
    {l \in [0 .. ProgLen - 1 -> Rows(ProgLen)] :
        AllowSelfLoops \/ \A a \in DOMAIN l : ~(l[a].op = "BR" /\ l[a].target = a)}

\* A loop with two entries: 0 BRz 3, 1 ADD, 2 BRz 1, 3 BRz 2 (the loop
\* {1, 2, 3} is entered at 1 and at 3).
TwoEntryLoop ==
    LET br(t) == [op |-> "BR", cc |-> {"z"}, target |-> t]
        add    == [op |-> "ADDi", dr |-> 0, sr1 |-> 0, imm |-> -1]
    IN {(0 :> br(3)) @@ (1 :> add) @@ (2 :> br(1)) @@ (3 :> br(2))}

ASM == INSTANCE Assembler WITH Source <- src

LA == INSTANCE LoopAnalyzer WITH Prog <- prog, InitPC <- lx.fileStartAddr, MaxSegmentCount <- 1000,
                                 MaxDepth <- 2 * ProgLen + 1

(***************************************************************************)
(* The listing as assembly source: an .ORIG line, one line per row (row a *)
(* labelled La, a BR naming its target's label, a bare BR for BRnzp, some *)
(* immediates written as hex literals) and .END.                          *)
(***************************************************************************)
Blank == [label |-> ASM!NoLabel, op |-> "NONE", fmt |-> "NONE", r1 |-> 0, r2 |-> 0, r3 |-> 0,
          imm |-> 0, lbl |-> ASM!NoLabel, cc |-> {}, str |-> << >>, halt |-> FALSE,
          ro |-> FALSE, uninit |-> FALSE]

\* A source line: label, opcode, operand format and the operands given.
Ln(label, op, fmt, f) == f @@ [label |-> label, op |-> op, fmt |-> fmt] @@ Blank

LabelOf(a) == <<"L0", "L1", "L2", "L3">>[a + 1]

RowLine(r, a) ==
    LET o == r.op
    IN  CASE o = "ADDi" -> Ln(LabelOf(a), "ADD", "RRI", [r1 |-> r.dr, r2 |-> r.sr1, imm |-> r.imm])
          [] o = "ANDi" -> Ln(LabelOf(a), "AND", "RRI", [r1 |-> r.dr, r2 |-> r.sr1, imm |-> r.imm % 65536])
          [] o = "ADD"  -> Ln(LabelOf(a), "ADD", "RRR", [r1 |-> r.dr, r2 |-> r.sr1, r3 |-> r.sr2])
          [] o = "NOT"  -> Ln(LabelOf(a), "NOT", "RR", [r1 |-> r.dr, r2 |-> r.sr1])
          [] o = "LDI"  -> Ln(LabelOf(a), "LDI", "RI", [r1 |-> r.dr, imm |-> r.imm % 65536])
          [] o = "LEA"  -> Ln(LabelOf(a), "LEA", "RI", [r1 |-> r.dr, imm |-> r.imm])
          [] o = "STI"  -> Ln(LabelOf(a), "STI", "RI", [r1 |-> r.sr, imm |-> r.imm])
          [] o = "LDR"  -> Ln(LabelOf(a), "LDR", "RRI", [r1 |-> r.dr, r2 |-> r.base, imm |-> r.imm])
          [] o = "STR"  -> Ln(LabelOf(a), "STR", "RRI", [r1 |-> r.sr, r2 |-> r.base, imm |-> r.imm])
          [] o = "BR"   -> Ln(LabelOf(a), "BR", "L", [lbl |-> LabelOf(r.target),
                                                      cc |-> IF r.cc = LA!CCFlags THEN {} ELSE r.cc])
          [] "halt" \in DOMAIN r -> Ln(LabelOf(a), "HALT", "NONE", [halt |-> TRUE])
          [] OTHER      -> Ln(LabelOf(a), "TRAP", "I", [imm |-> r.vec])

SourceOf(l, origin) ==
    << Ln(ASM!NoLabel, "ORIG", "I", [imm |-> origin]) >>
    \o [k \in 1 .. Len(l) |-> RowLine(l[k], k - 1)]
    \o << Ln(ASM!NoLabel, "END", "NONE", [imm |-> 0]) >>

AsSeq(l) == [k \in 1 .. ProgLen |-> l[k - 1]]

\* The analyzer as built with a segment limit of L.
LAL(L) == INSTANCE LoopAnalyzer WITH Prog <- prog, InitPC <- lx.fileStartAddr, MaxSegmentCount <- L,
                                     MaxDepth <- 2 * ProgLen + 1

\* The limits the analysis is repeated with: the checked programs record
\* from none to a few segments.
SegmentLimits == 0 .. 3

Analysis == an

\* Before the analysis has run.
NoAnalysis == [ok |-> FALSE, diverged |-> FALSE, loops |-> << >>, extra |-> << >>]

\* The image the loader hands over: each written word becomes
\* InstValue::alloc's cell, each data word a DataValue with its flags.
Load(mem) ==
    [a \in DOMAIN mem |->
        IF mem[a].kind = "INST" THEN LA!DecodeInst(mem[a].word, mem[a].halt)
        ELSE [kind |-> "DATA", init |-> "CONST", val |-> mem[a].val, ro |-> mem[a].ro, wo |-> mem[a].wo]]

NoListing == << >>

NoSources == {}

NL == ASM!NoLabel

\* A program with data directives: LEA R0,MSG / LD R1,PTR / BRz DONE /
\* DONE (label only) / HALT / MSG .STRINGZ "ab" (READ_ONLY) / BUF .BLKW 2
\* (UNINITIALIZED) / PTR .FILL MSG / NUM .FILL xFFFF / .END / a line after
\* .END naming an unknown label.
DataProg ==
    << Ln(NL, "ORIG", "I", [imm |-> 12288]),
       Ln(NL, "LEA", "RL", [r1 |-> 0, lbl |-> "MSG"]),
       Ln(NL, "LD", "RL", [r1 |-> 1, lbl |-> "PTR"]),
       Ln(NL, "BR", "L", [cc |-> {"z"}, lbl |-> "DONE"]),
       Ln("DONE", "NONE", "NONE", [imm |-> 0]),
       Ln(NL, "HALT", "NONE", [halt |-> TRUE]),
       Ln("MSG", "STRINGZ", "S", [str |-> << 97, 98 >>, ro |-> TRUE]),
       Ln("BUF", "BLKW", "I", [imm |-> 2, uninit |-> TRUE]),
       Ln("PTR", "FILL", "L", [lbl |-> "MSG"]),
       Ln("NUM", "FILL", "I", [imm |-> 65535]),
       Ln(NL, "END", "NONE", [imm |-> 0]),
       Ln(NL, "BR", "L", [lbl |-> "NOWHERE"]) >>

Set(s, i, f) == [s EXCEPT ![i] = f @@ @]

\* A BR over a block of n words to a label after it (forward) or before it
\* (backward): the 9-bit offset reaches 255 words forward, 256 back.
FarForward(n) ==
    << Ln(NL, "ORIG", "I", [imm |-> 12288]), Ln(NL, "BR", "L", [lbl |-> "FAR"]),
       Ln(NL, "BLKW", "I", [imm |-> n]), Ln("FAR", "HALT", "NONE", [halt |-> TRUE]),
       Ln(NL, "END", "NONE", [imm |-> 0]) >>

FarBackward(n) ==
    << Ln(NL, "ORIG", "I", [imm |-> 12288]), Ln("BACK", "HALT", "NONE", [halt |-> TRUE]),
       Ln(NL, "BLKW", "I", [imm |-> n]), Ln(NL, "BR", "L", [lbl |-> "BACK"]),
       Ln(NL, "END", "NONE", [imm |-> 0]) >>

\* DataProg and its variants, each with one defect or one legal oddity: a
\* label defined twice, an unknown label, no .ORIG, a label before .ORIG,
\* no .END, a second .ORIG (ignored), an operand format the opcode does not
\* take, immediates at and past the 5-bit limit; and the branch distances
\* at and past the 9-bit limits.
ExtraSources ==
    {DataProg,
     Set(DataProg, 10, [label |-> "MSG"]),
     Set(DataProg, 3, [lbl |-> "NOWHERE"]),
     Tail(DataProg),
     << Ln("TOP", "NONE", "NONE", [imm |-> 0]) >> \o DataProg,
     SubSeq(DataProg, 1, 10),
     SubSeq(DataProg, 1, 5) \o << Ln(NL, "ORIG", "I", [imm |-> 16384]) >> \o SubSeq(DataProg, 6, 12),
     Set(DataProg, 2, [fmt |-> "L"]),
     Set(DataProg, 5, [op |-> "ADD", fmt |-> "RRI", imm |-> 31]),
     Set(DataProg, 5, [op |-> "ADD", fmt |-> "RRI", imm |-> 32]),
     FarForward(255), FarForward(256), FarBackward(254), FarBackward(255)}

(***************************************************************************)
(* The "; KLC3:" commands of the input, gold and test files (the          *)
(* LoaderCommands module): every script of at most MaxCommandLines        *)
(* command lines spread over one input file (no .ORIG), one gold file and *)
(* one test file, with and without a gold file.                           *)
(***************************************************************************)
LD == INSTANCE LoaderCommands

Def(lv, n)      == [c |-> "DEFINE", lv |-> lv, name |-> n, hint |-> lv = "ERROR"]
SetLv(n, lv)    == [c |-> "SET_LEVEL", name |-> n, lv |-> lv]
Chk(k, f, t, n) == [c |-> "CHECK", kind |-> k, from |-> f, to |-> t, name |-> n]
Cmd(x)          == [c |-> x]

CmdLines ==
    { << Def("ERROR", "U1") >>, << Def("WARNING", "U2"), Chk("OUTPUT", 0, 0, "U2") >>,
      << SetLv("U1", "NONE") >>, << SetLv("WARN_DUPLICATE_COLOR", "NONE") >>,
      << SetLv("ERR_STATE_REACH_STEP_LIMIT", "WARNING") >>, << SetLv("WARN_IMPROPER_RET", "ERROR") >>,
      << Cmd("OUTPUT_NONE") >>, << Chk("REG", 1, 2, "U1") >>, << Chk("REG", 3, 2, "U1") >>,
      << Chk("MEM", 5, 5, "ERR_INCORRECT_OUTPUT") >>, << Chk("LAST_INST", 0, 0, "WARN_DUPLICATE_COLOR") >>,
      << Cmd("INPUT_FILE"), Cmd("COMMENT"), Chk("OUTPUT", 0, 0, "U1") >> }

MaxCommandLines == 3

\* A script as its lines, each tagged with its file (1 input, 2 gold, 3 test).
Placed ==
    {s \in UNION {[1 .. n -> [k : 1 .. 3, line : CmdLines]] : n \in 0 .. MaxCommandLines} :
        \A i \in 1 .. Len(s) - 1 : s[i].k <= s[i + 1].k}

LinesOf(s, k) == [i \in 1 .. Cardinality({j \in DOMAIN s : s[j].k = k}) |->
                    s[CHOOSE j \in DOMAIN s : s[j].k = k /\ Cardinality({m \in 1 .. j : s[m].k = k}) = i].line]

CmdFile(orig, lines) == [orig |-> orig, start |-> 12288, lines |-> lines]

Script(s, g) ==
    [input |-> IF LinesOf(s, 1) = << >> THEN << >> ELSE << CmdFile(FALSE, LinesOf(s, 1)) >>,
     gold  |-> IF g \/ LinesOf(s, 2) # << >> THEN << CmdFile(TRUE, LinesOf(s, 2)) >> ELSE << >>,
     test  |-> << CmdFile(TRUE, LinesOf(s, 3)) >>]

Scripts == {Script(s, g) : s \in Placed, g \in BOOLEAN}

vars == <<listing, src, lx, stage, prog, an, script, loaded>>

NoScript == [input |-> << >>, gold |-> << >>, test |-> << >>]

NoLoad == [out |-> "none"]

\* Either a program goes through the assembler and the analysis, or a
\* script of command files (Scripts, below) goes through the loader.
Init ==
    /\ \/ /\ listing \in Listings
          /\ \E o \in Origins : src = SourceOf(AsSeq(listing), o)
          /\ stage = "ASSEMBLE"
          /\ script = NoScript
       \/ /\ listing = NoListing
          /\ src \in ExtraSources
          /\ stage = "ASSEMBLE"
          /\ script = NoScript
       \/ /\ listing = NoListing
          /\ src = << >>
          /\ stage = "COMMANDS"
          /\ script \in Scripts
    /\ ASM!Init
    /\ prog = << >>
    /\ an = NoAnalysis
    /\ loaded = NoLoad

Assemble == stage = "ASSEMBLE" /\ ASM!Next /\ UNCHANGED <<listing, src, stage, prog, an, script, loaded>>

\* KLC3Loader::load returned: the image goes to the flow graph.
LoadImage ==
    /\ stage = "ASSEMBLE" /\ lx.result = "LOADED"
    /\ prog' = Load(lx.mem)
    /\ stage' = "LOADED"
    /\ UNCHANGED <<listing, src, lx, an, script, loaded>>

\* The loop analysis of the main code from initPC.
Analyse ==
    /\ stage = "LOADED"
    /\ an' = LA!AnalyzeLoops(lx.fileStartAddr, LA!Nodes, LA!EmptyAnalysis)
    /\ stage' = "ANALYSED"
    /\ UNCHANGED <<listing, src, lx, prog, script, loaded>>

\* klc3.cpp loads the script's input, gold and test files.
RunCommands ==
    /\ stage = "COMMANDS"
    /\ loaded' = LD!LoadAll(script)
    /\ stage' = "COMMANDS_RUN"
    /\ UNCHANGED <<listing, src, lx, prog, an, script>>

Next == Assemble \/ LoadImage \/ Analyse \/ RunCommands

Spec == Init /\ [][Next]_vars

\* analyzeLoopDFS returns: its recursion depth stays within twice the number
\* of nodes (one frame per node of an acyclic path plus one per loop entry).
AnalysisTerminates == ~Analysis.diverged

Extra == LA!SX!ToSet(Analysis.extra)

Full(seg) == LA!ReconstructedFullPath(seg, Extra, 4 * ProgLen)

\* The nodes a reconstructed path passes through before its last edge.
Inner(r) == {r[k].to : k \in 1 .. Len(r) - 1}

\* Every segment analyzeLoopDFS records for a loop expands back, through
\* Path::reconstructedFullPath over the edges as they stand after the
\* analysis, into a walk that starts at the loop entry, stays among the
\* loop's other nodes, and ends at the entry (head-to-head) or outside the
\* loop (head-to-exit); and no loop is left without a head-to-head segment
\* or with a duplicated segment.
SegmentsWellFormed ==
    Analysis.ok =>
      /\ ~Analysis.noH2H /\ ~Analysis.dup
      /\ \A h \in DOMAIN Analysis.loops :
           LET l == Analysis.loops[h]
           IN \A seg \in l.h2h \cup l.h2x :
                LET r == Full(seg)
                IN /\ r # LA!ReconFail
                   /\ Head(r).from = h
                   /\ Inner(r) \subseteq l.nodes \ {h}
                   /\ (r[Len(r)].to = h) = (seg \in l.h2h)
                   /\ seg \in l.h2x => r[Len(r)].to \notin l.nodes


\* The decoder (InstValue::alloc/matchInst and the getters) gives back, for
\* every word the assembler emits, the listing's instruction: the first
\* INST_DEF entry that fits is the row's own opcode (no looser mask, such
\* as RTI's, catches a word before it), dr/sr/sr1/sr2/baseR/vec8 and the
\* sign-extended imm5/6/9 are the row's operands, a BR's cc() is its
\* condition and the flow graph's branch edge (BRBranchAddr) reaches the
\* row it names.
LoadedAsAssembled ==
    stage # "ASSEMBLE" /\ listing # NoListing =>
        LET At(a) == (lx.fileStartAddr + a) % 65536
        IN  /\ DOMAIN prog = {At(a) : a \in DOMAIN listing}
            /\ \A a \in DOMAIN listing :
                  LET r == listing[a]
                      c == prog[At(a)]
                  IN  /\ c.op = r.op
                      /\ \A f \in DOMAIN r \ {"op", "target"} :
                             c[f] = IF f = "imm" THEN LA!Wrap(r.imm) ELSE r[f]
                      /\ r.op = "BR" => LA!BRBranchAddr(At(a)) = At(r.target)
                      /\ c.halt = ("halt" \in DOMAIN r)

\* analyzeLoops with a segment limit of L (MAXIMAL_SEGMENT_COUNT in
\* klc3.cpp) succeeds exactly when the full analysis records at most L
\* segments: totalSegmentCount is raised as each h2h or h2x segment is
\* kept and compared with the limit at once, and the false return travels
\* up every frame of analyzeLoopDFS.  On failure no top-level loop is
\* published and the count reported ("Detect at least ... segments") is
\* L + 1; the driver then falls back to the prioritized FILO searcher.
SegmentLimitExact ==
    stage = "ANALYSED" /\ ~an.diverged =>
        \A L \in SegmentLimits :
            LET B == LAL(L)!AnalyzeLoops(lx.fileStartAddr, LAL(L)!Nodes, LAL(L)!EmptyAnalysis)
            IN  /\ B.ok <=> an.count <= L
                /\ ~B.ok => B.top = {} /\ B.count = L + 1

(***************************************************************************)
(* What the LC-3 assembly language defines, written independently of the *)
(* Lexer's two passes: the lines before the first .END are read; the      *)
(* first of them with a label or an opcode is a label-free .ORIG; a line  *)
(* takes as many words as it emits, laid out from the origin modulo 2^16; *)
(* a label names the address of its line; a PC-relative operand is the   *)
(* distance, modulo 2^16, from the next address.  The operand formats,    *)
(* the widths and the literal rule are readVal's and OP_FORMAT_OK's.      *)
(***************************************************************************)
EndAt(s) == IF \E i \in DOMAIN s : s[i].op = "END" THEN Min({i \in DOMAIN s : s[i].op = "END"})
            ELSE Len(s) + 1

OrigAt(s) ==
    LET C == {i \in 1 .. EndAt(s) - 1 : s[i].label # NL \/ s[i].op # "NONE"}
    IN  IF C = {} THEN EndAt(s) ELSE Min(C)

Size(l) ==
    CASE l.op \in {"ORIG", "NONE", "END"} -> 0
      [] l.op = "STRINGZ"                 -> Len(l.str) + 1
      [] l.op = "BLKW"                    -> l.imm % 65536
      [] OTHER                            -> 1

RefAddr(s, i) ==
    (s[OrigAt(s)].imm + LA!SX!FoldLeft(LAMBDA acc, l : acc + Size(l), 0, SubSeq(s, 1, i - 1))) % 65536

Live(s) == {i \in DOMAIN s : OrigAt(s) < i /\ i < EndAt(s)}

Defs(s) == {i \in Live(s) : s[i].label # NL}

DefOf(s, n) == CHOOSE i \in Defs(s) : s[i].label = n

Reaches(s, i, j) ==
    LET d == LA!Signed((RefAddr(s, j) - RefAddr(s, i) - 1) % 65536)
        b == ASM!Bits(s[i].op)
    IN  b = 16 \/ (-(2 ^ (b - 1)) <= d /\ d < 2 ^ (b - 1))

RefValid(s) ==
    LET o == OrigAt(s)
    IN  /\ EndAt(s) <= Len(s) /\ o < EndAt(s)
        /\ s[o].op = "ORIG" /\ s[o].label = NL /\ s[o].fmt = "I" /\ ~ASM!ReadVal(s[o].imm, 16).err
        /\ \A i \in Live(s) : s[i].op # "NONE" => s[i].fmt \in ASM!FormatOK(s[i].op)
        /\ \A i, j \in Defs(s) : i # j => s[i].label # s[j].label
        /\ \A i \in Live(s) :
              s[i].op \notin {"NONE", "ORIG"} /\ s[i].fmt \in {"RRI", "RI", "I"}
                  => ~ASM!ReadVal(s[i].imm, ASM!Bits(s[i].op)).err
        /\ \A i \in Live(s) :
              s[i].op # "NONE" /\ s[i].fmt \in {"RL", "L"}
                  => \E j \in Defs(s) : s[j].label = s[i].lbl /\ Reaches(s, i, j)

\* KLC3Loader::load accepts a source exactly when it is a valid program:
\* the checks spread over foundLabel, generateInstruction, readVal and
\* findLabel in two passes, with curAddr an int in pass 1 and addresses
\* taken modulo 2^16, reject no valid program and let no invalid one
\* through.
LoadIffValid == ASM!Done => (lx.result = "LOADED" <=> RefValid(src))

\* The word a line's label operand resolves to: a .FILL's value, or the
\* address after the instruction plus its sign-extended offset field.
Target(i) ==
    LET c == lx.mem[RefAddr(src, i)]
        b == ASM!Bits(src[i].op)
    IN  IF b = 16 THEN c.val ELSE (RefAddr(src, i) + 1 + LA!FieldImm(c.word, b)) % 65536

\* A loaded image is laid out as the listing says: pass 2 writes each
\* emitting line's words at the addresses pass 1 counted for it and nowhere
\* else, every label ends up on the cell at its line's address, and every
\* label operand, PC-relative or not, resolves to that address.
ImageMatchesLayout ==
    lx.result = "LOADED" =>
        LET Em == {i \in Live(src) : Size(src[i]) > 0}
            Cells(i) == {(RefAddr(src, i) + k) % 65536 : k \in 0 .. Size(src[i]) - 1}
        IN  /\ DOMAIN lx.mem = UNION {Cells(i) : i \in Em}
            /\ \A i \in Em : \A a \in Cells(i) : lx.mem[a].line = i
            /\ \A i \in Defs(src) :
                  RefAddr(src, i) \in DOMAIN lx.mem => src[i].label \in lx.mem[RefAddr(src, i)].labels
            /\ \A i \in Em : src[i].fmt \in {"RL", "L"} => Target(i) = RefAddr(src, DefOf(src, src[i].lbl))

\* What the commands ask for, read off the script: the commands in load
\* order (a COMMENT takes the rest of its line), user issues numbered from
\* PRE_DEFINED_ISSUE_COUNT in DEFINE order, each issue's things in CHECK
\* order (the default OUTPUT compare of ERR_INCORRECT_OUTPUT only if no
\* "SET_LEVEL ERR_INCORRECT_OUTPUT NONE" came, and only CHECKs after the
\* last one), each issue's level the last one DEFINE or SET_LEVEL gave.
UpToComment(l) ==
    IF \E i \in DOMAIN l : l[i].c = "COMMENT"
    THEN SubSeq(l, 1, Min({i \in DOMAIN l : l[i].c = "COMMENT"})) ELSE l

ScriptCmds(sc) ==
    LA!SX!FlattenSeq([i \in 1 .. 3 |->
        LET fs == <<sc.input, sc.gold, sc.test>>[i]
        IN  LA!SX!FlattenSeq([j \in DOMAIN fs |-> LA!SX!FlattenSeq([k \in DOMAIN fs[j].lines |->
                                                       UpToComment(fs[j].lines[k])])])])

TypeNamed(cs, n) ==
    LET ds == SelectSeq(cs, LAMBDA c : c.c = "DEFINE")
    IN  IF \E i \in DOMAIN ds : ds[i].name = n
        THEN LD!UserType(LD!PreDefinedIssueCount - 1 + CHOOSE i \in DOMAIN ds : ds[i].name = n)
        ELSE CHOOSE t \in DOMAIN LD!IssueName : LD!IssueName[t] = n

TypeNumber(cs, t) ==
    IF \E i \in DOMAIN LD!IssueTypeOrder : LD!IssueTypeOrder[i] = t
    THEN CHOOSE i \in DOMAIN LD!IssueTypeOrder : LD!IssueTypeOrder[i] = t
    ELSE CHOOSE n \in LD!PreDefinedIssueCount .. LD!PreDefinedIssueCount + Len(cs) : LD!UserType(n) = t

CommandedThings(cs, t) ==
    LET nones == {i \in DOMAIN cs : cs[i].c = "OUTPUT_NONE"}
        from  == IF t = "ERR_INCORRECT_OUTPUT" /\ nones # {} THEN Max(nones) ELSE 0
        chks  == SelectSeq(SubSeq(cs, from + 1, Len(cs)),
                           LAMBDA c : c.c = "CHECK" /\ TypeNamed(cs, c.name) = t)
        dflt  == IF t = "ERR_INCORRECT_OUTPUT" /\ nones = {} THEN << LD!Thing("OUTPUT", 0, 0) >> ELSE << >>
    IN  dflt \o [i \in DOMAIN chks |-> LD!Thing(chks[i].kind, chks[i].from, chks[i].to)]

CommandedLevel(cs, t) ==
    LET ls == SelectSeq(cs, LAMBDA c : c.c \in {"DEFINE", "SET_LEVEL"} /\ TypeNamed(cs, c.name) = t)
    IN  IF ls = << >> THEN LD!DefaultIssueLevel[t] ELSE ls[Len(ls)].lv

\* Whatever mix of input, gold and test files carries the commands, a
\* load that goes through (klc3.cpp's driver, Lexer::parseComment and the
\* shared IssuePackage and CrossChecker) leaves every issue at the level
\* its last DEFINE or SET_LEVEL gave, and, with a gold program, check
\* lists that CrossChecker::compare walks in issue-type order, each with
\* the things its CHECKs named in order, the default output compare
\* dropped by "SET_LEVEL ERR_INCORRECT_OUTPUT NONE" and no other.
LoadedAsCommanded ==
    stage = "COMMANDS_RUN" =>
        LET r  == loaded
            cs == ScriptCmds(script)
            cl == LD!CheckListSeq(r.pkg, r.chk)
            ts == {"ERR_INCORRECT_OUTPUT"} \cup {TypeNamed(cs, cs[i].name) : i \in {j \in DOMAIN cs : cs[j].c = "CHECK"}}
        IN  r.out = "ok" =>
              /\ \A t \in DOMAIN r.pkg.level : r.pkg.level[t] = CommandedLevel(cs, t)
              /\ r.cc =>
                   /\ {cl[i].type : i \in DOMAIN cl} = {t \in ts : CommandedThings(cs, t) # << >>}
                   /\ \A i \in DOMAIN cl : /\ cl[i].things = CommandedThings(cs, cl[i].type)
                                           /\ cl[i].lv = CommandedLevel(cs, cl[i].type)
                   /\ \A i, j \in DOMAIN cl : i < j => TypeNumber(cs, cl[i].type) < TypeNumber(cs, cl[j].type)
====
