------------------------------ MODULE Assembler ------------------------------
(***************************************************************************)
(* KLC3Loader::Lexer (Loader/Lexer.cpp, Loader/Loader.cpp): the two-pass   *)
(* LC-3 assembler klc3 loads its programs with.  The flex scanner (the     *)
(* rules of Lexer.f, not in the repository) splits the source into lines;  *)
(* a line of Source is what it hands the Lexer's callbacks: an optional    *)
(* label (foundLabel), an opcode with its operand format and operands      *)
(* (generateInstruction), or .END.  Operands are given as the scanner      *)
(* reads them: registers, the integer strtol yields for a literal (a hex   *)
(* literal xFFFF is 65535, #-1 is -1), a label name (already case-folded,  *)
(* as lc3Symbols compares case-insensitively), the values of a .STRINGZ    *)
(* after escape processing, and the KLC3 flags of the line's comment.      *)
(* KLC3 command comment lines, symbolic and input variables are not        *)
(* modelled.  Pass 1 defines the labels; pass 2 writes the memory values.  *)
(***************************************************************************)
EXTENDS Integers, Sequences, FiniteSets, TLC

VARIABLE Source   \* the lines of the file being loaded; no step changes them

VARIABLE lx   \* the Lexer's fields and the image it builds

NoLabel == ""

W16(x) == x % 65536

\* OP_FORMAT_OK: the operand formats each opcode accepts.
FormatOK(op) ==
    CASE op \in {"ADD", "AND"}                   -> {"RRR", "RRI"}
      [] op \in {"BR", "JSR", "FILL"}            -> {"I", "L"}
      [] op \in {"JMP", "JSRR"}                  -> {"R"}
      [] op \in {"LD", "LDI", "LEA", "ST", "STI"} -> {"RI", "RL"}
      [] op \in {"LDR", "STR"}                   -> {"RRI"}
      [] op = "NOT"                              -> {"RR"}
      [] op \in {"TRAP", "BLKW", "ORIG"}         -> {"I"}
      [] op = "STRINGZ"                          -> {"S"}
      [] OTHER                                   -> {"NONE"}

\* The width generateInstruction reads an immediate or label operand with.
Bits(op) ==
    CASE op \in {"ADD", "AND"}   -> 5
      [] op \in {"LDR", "STR"}   -> 6
      [] op = "TRAP"             -> 8
      [] op = "JSR"              -> 11
      [] op \in {"FILL", "BLKW", "ORIG"} -> 16
      [] OTHER                   -> 9

\* The fixed bits of each opcode's word (the trap pseudo-ops and RET are
\* whole words).
OpBase ==
    ("ADD" :> 4096) @@ ("AND" :> 20480) @@ ("BR" :> 0) @@ ("JMP" :> 49152)
    @@ ("JSR" :> 18432) @@ ("JSRR" :> 16384) @@ ("LD" :> 8192) @@ ("LDI" :> 40960)
    @@ ("LDR" :> 24576) @@ ("LEA" :> 57344) @@ ("NOT" :> 36927) @@ ("RTI" :> 32768)
    @@ ("ST" :> 12288) @@ ("STI" :> 45056) @@ ("STR" :> 28672) @@ ("TRAP" :> 61440)
    @@ ("GETC" :> 61472) @@ ("HALT" :> 61477) @@ ("IN" :> 61475) @@ ("OUT" :> 61473)
    @@ ("PUTS" :> 61474) @@ ("PUTSP" :> 61476) @@ ("RET" :> 49600)

\* parseCCode: the n, z, p bits; a bare BR means BRnzp.
CCode(cc) ==
    IF cc = {} THEN 3584
    ELSE (IF "n" \in cc THEN 2048 ELSE 0) + (IF "z" \in cc THEN 1024 ELSE 0)
         + (IF "p" \in cc THEN 512 ELSE 0)

\* readVal: a literal in 0x8000 .. 0xFFFF is taken as negative, the value
\* must lie in [-2^(bits-1), 2^bits), and one with bit bits-1 set is sign
\* extended.  On error *vptr is not written; the caller's value is then
\* never stored (an error in pass 1 stops the load before pass 2).
ReadVal(v, bits) ==
    LET w == IF 32768 <= v /\ v < 65536 THEN v - 65536 ELSE v
    IN  IF w < -(2 ^ (bits - 1)) \/ w >= 2 ^ bits
        THEN [v |-> 0, err |-> TRUE]
        ELSE [v |-> IF w >= 2 ^ (bits - 1) THEN w - 2 ^ bits ELSE w, err |-> FALSE]

\* A findLabel that measures the distance from the instruction itself
\* rather than from the incremented PC.
FindLabelNoIncr(x, name, bits) ==
    IF x.pass = 1 THEN [v |-> 0, err |-> FALSE]
    ELSE IF name \notin DOMAIN x.symbols THEN [v |-> 0, err |-> TRUE]
    ELSE IF bits = 16 THEN [v |-> x.symbols[name], err |-> FALSE]
    ELSE LET d == x.symbols[name] - x.curAddr
         IN  IF d < -(2 ^ (bits - 1)) \/ d >= 2 ^ (bits - 1)
             THEN [v |-> 0, err |-> TRUE] ELSE [v |-> d, err |-> FALSE]

\* findLabel: 0 in pass 1; in pass 2 the label's address (16 bits) or its
\* distance from curAddr + 1, which must fit in bits; 0 on error.
FindLabel(x, name, bits) ==
    IF x.pass = 1 THEN [v |-> 0, err |-> FALSE]
    ELSE IF name \notin DOMAIN x.symbols THEN [v |-> 0, err |-> TRUE]
    ELSE IF bits = 16 THEN [v |-> x.symbols[name], err |-> FALSE]
    ELSE LET d == x.symbols[name] - (x.curAddr + 1)
         IN  IF d < -(2 ^ (bits - 1)) \/ d >= 2 ^ (bits - 1)
             THEN [v |-> 0, err |-> TRUE] ELSE [v |-> d, err |-> FALSE]

\* The value operand of a line (PRE_PARSE and the opcode's case).
Operand(x, l) ==
    CASE l.fmt \in {"RL", "L"}       -> FindLabel(x, l.lbl, Bits(l.op))
      [] l.fmt \in {"RRI", "RI", "I"} -> ReadVal(l.imm, Bits(l.op))
      [] OTHER                        -> [v |-> 0, err |-> FALSE]

\* The word generateInstruction passes to writeInst: the opcode's bits,
\* r1 (bits 9-11, or 6-8 for JMP/JSRR), r2 (bits 6-8), r3, the immediate
\* flag of ADD/AND, the operand masked to its width and a BR's condition.
Encode(l, val) ==
    OpBase[l.op]
    + (IF l.fmt \in {"RRR", "RRI", "RR", "RI", "RL", "R"}
       THEN l.r1 * (IF l.op \in {"JMP", "JSRR"} THEN 64 ELSE 512) ELSE 0)
    + (IF l.fmt \in {"RRR", "RRI", "RR"} THEN l.r2 * 64 ELSE 0)
    + (IF l.fmt = "RRR" THEN l.r3 ELSE 0)
    + (IF l.fmt = "RRI" /\ l.op \in {"ADD", "AND"} THEN 32 ELSE 0)
    + (IF l.fmt \in {"RRI", "RI", "RL", "I", "L"} THEN val % (2 ^ Bits(l.op)) ELSE 0)
    + (IF l.op = "BR" THEN CCode(l.cc) ELSE 0)

InstCell(l, w) == [kind |-> "INST", word |-> w, halt |-> l.halt]

DataCell(l, v) == [kind |-> "DATA", val |-> v, ro |-> l.ro, wo |-> l.uninit]

\* addMemValue for each of cells at curAddr, curAddr + 1, ... (pass 2
\* only): the cell takes the labels defined at its address and its source
\* line, and replaces what was there; curAddr advances modulo 2^16 in both
\* passes.
WriteCells(x, cells) ==
    LET n == Len(cells)
        A == {W16(x.curAddr + k) : k \in 0 .. n - 1}
        lbl(a) == IF a \in DOMAIN x.labelStrings THEN x.labelStrings[a] ELSE {}
        cell(a) == ("labels" :> lbl(a)) @@ ("line" :> x.ln) @@ cells[W16(a - x.curAddr) + 1]
    IN  [x EXCEPT !.mem = IF x.pass = 2
                          THEN [a \in DOMAIN x.mem \cup A |-> IF a \in A THEN cell(a) ELSE x.mem[a]]
                          ELSE x.mem,
                  !.curAddr = W16(x.curAddr + n)]

\* writeSTRINGZ: the characters and a terminating zero, counted alike in
\* both passes.
StringzValues(l) == l.str \o << 0 >>

WriteSTRINGZ(x, l) ==
    LET vs == StringzValues(l)
    IN  WriteCells(x, [k \in 1 .. Len(vs) |-> DataCell(l, vs[k])])

\* writeBLKW: count zero words.
WriteBLKW(x, l, count) == WriteCells(x, [k \in 1 .. count |-> DataCell(l, 0)])

\* A foundLabel that does not look the name up before adding it.
FoundLabelNoDup(x, name) ==
    LET a == W16(x.curAddr)
    IN  IF x.pass # 1 THEN x
        ELSE IF x.sawORIG = 0
        THEN [x EXCEPT !.errCount = @ + 1]
        ELSE [x EXCEPT !.symbols = @ @@ (name :> x.curAddr),
                       !.labelStrings = IF a \in DOMAIN @ THEN [@ EXCEPT ![a] = @ \cup {name}]
                                        ELSE @ @@ (a :> {name})]

\* foundLabel (pass 1): a label before .ORIG or defined twice is an error;
\* otherwise addSymbol records it at curAddr, which is an int and is
\* negative after an .ORIG of x8000 or above, and lc3LabelStrings under
\* the curAddr's 16-bit value.
FoundLabel(x, name) ==
    LET a == W16(x.curAddr)
    IN  IF x.pass # 1 THEN x
        ELSE IF x.sawORIG = 0 \/ name \in DOMAIN x.symbols
        THEN [x EXCEPT !.errCount = @ + 1]
        ELSE [x EXCEPT !.symbols = @ @@ (name :> x.curAddr),
                       !.labelStrings = IF a \in DOMAIN @ THEN [@ EXCEPT ![a] = @ \cup {name}]
                                        ELSE @ @@ (a :> {name})]

\* .ORIG: the first one sets curAddr (x3000 if its operand is out of range)
\* and fileStartAddr; a second one is reported but not counted as an
\* error, and is otherwise ignored, as is any later one.
Orig(x, l) ==
    LET r == ReadVal(l.imm, 16)
        a == IF r.err THEN 12288 ELSE r.v
    IN  CASE x.sawORIG = 0 -> [x EXCEPT !.curAddr = a, !.fileStartAddr = W16(a), !.sawORIG = 1,
                                        !.errCount = @ + (IF r.err THEN 1 ELSE 0)]
          [] x.sawORIG = 1 -> [x EXCEPT !.sawORIG = 2]
          [] OTHER         -> x

\* generateInstruction: the format check (badOperands), .ORIG, an
\* instruction before .ORIG, then the operand and the writer of the opcode.
GenerateInstruction(x, l) ==
    IF l.fmt \notin FormatOK(l.op) THEN [x EXCEPT !.errCount = @ + 1]
    ELSE IF l.op = "ORIG" THEN Orig(x, l)
    ELSE IF x.sawORIG = 0 THEN [x EXCEPT !.errCount = @ + 1, !.sawORIG = 2]
    ELSE LET r == Operand(x, l)
             y == [x EXCEPT !.errCount = @ + (IF r.err THEN 1 ELSE 0)]
         IN  CASE l.op = "FILL"    -> WriteCells(y, << DataCell(l, W16(r.v)) >>)
               [] l.op = "STRINGZ" -> WriteSTRINGZ(y, l)
               [] l.op = "BLKW"    -> WriteBLKW(y, l, W16(r.v))
               [] OTHER            -> WriteCells(y, << InstCell(l, Encode(l, r.v)) >>)

\* One line of the scanner: after .END every line is ignored (lineIgnored);
\* otherwise its label, then .END (sawEND) or the opcode if there is one.
LexLine(x, l) ==
    LET y == IF l.label # NoLabel THEN FoundLabel(x, l.label) ELSE x
    IN  CASE x.sawEND      -> x
          [] l.op = "END"  -> [y EXCEPT !.sawEND = TRUE]
          [] l.op = "NONE" -> y
          [] OTHER         -> GenerateInstruction(y, l)

\* Lexer::load before pass 1.
Init ==
    lx = [pass |-> 1, ln |-> 1, curAddr |-> 12288, sawORIG |-> 0, sawEND |-> FALSE,
          errCount |-> 0, symbols |-> << >>, labelStrings |-> << >>, mem |-> << >>,
          fileStartAddr |-> 0, result |-> "RUN"]

\* yylex delivers the next line.
Lex ==
    /\ lx.result = "RUN"
    /\ lx.ln <= Len(Source)
    /\ lx' = [LexLine(lx, Source[lx.ln]) EXCEPT !.ln = @ + 1]

\* The checks after pass 1: no .ORIG (no KLC3 command lines are modelled,
\* so a file without .ORIG is an error) or no .END is an error.
Pass1Errors(x) == x.errCount + (IF x.sawORIG = 0 \/ ~x.sawEND THEN 1 ELSE 0)

\* Pass 1 found errors: load returns false.
FailPass1 ==
    /\ lx.result = "RUN" /\ lx.pass = 1 /\ lx.ln > Len(Source)
    /\ Pass1Errors(lx) > 0
    /\ lx' = [lx EXCEPT !.result = "FAILED"]

\* The scanner is rewound and pass 2 starts at x3000; the symbols stay.
StartPass2 ==
    /\ lx.result = "RUN" /\ lx.pass = 1 /\ lx.ln > Len(Source)
    /\ Pass1Errors(lx) = 0
    /\ lx' = [lx EXCEPT !.pass = 2, !.ln = 1, !.errCount = 0, !.sawORIG = 0, !.sawEND = FALSE,
                        !.curAddr = 12288]

\* Pass 2 found errors (unknown or distant labels): load returns false.
FailPass2 ==
    /\ lx.result = "RUN" /\ lx.pass = 2 /\ lx.ln > Len(Source)
    /\ lx.errCount > 0
    /\ lx' = [lx EXCEPT !.result = "FAILED"]

\* The load succeeds; initPC is fileStartAddr.
Loaded ==
    /\ lx.result = "RUN" /\ lx.pass = 2 /\ lx.ln > Len(Source)
    /\ lx.errCount = 0
    /\ lx' = [lx EXCEPT !.result = "LOADED"]

Next == Lex \/ FailPass1 \/ StartPass2 \/ FailPass2 \/ Loaded

Done == lx.result # "RUN"

TypeOK ==
    /\ lx.pass \in {1, 2} /\ lx.ln \in 1 .. Len(Source) + 1
    /\ lx.sawORIG \in 0 .. 2 /\ lx.sawEND \in BOOLEAN /\ lx.errCount \in Nat
    /\ lx.curAddr \in -32768 .. 65535 /\ lx.fileStartAddr \in 0 .. 65535
    /\ DOMAIN lx.labelStrings \subseteq 0 .. 65535 /\ DOMAIN lx.mem \subseteq 0 .. 65535
    /\ \A a \in DOMAIN lx.mem : lx.mem[a].kind \in {"INST", "DATA"} /\ lx.mem[a].line \in DOMAIN Source
    /\ lx.result \in {"RUN", "FAILED", "LOADED"}
====
