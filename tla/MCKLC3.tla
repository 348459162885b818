------------------------------- MODULE MCKLC3 -------------------------------
(***************************************************************************)
(* Programs for checking the driver.  An instruction is written with Inst, *)
(* which fills the fields the decoder would leave unused.                  *)
(***************************************************************************)
EXTENDS KLC3

Inst(op, f) ==
    f @@ [kind |-> "INST", op |-> op, dr |-> 0, sr |-> 0, sr1 |-> 0, sr2 |-> 0, base |-> 0,
          imm |-> 0, cc |-> {}, vec |-> 0, halt |-> FALSE, word |-> 0]

Halt == Inst("TRAP", [vec |-> VEC8_HALT, halt |-> TRUE, word |-> 61477])

Input == [kind |-> "DATA", init |-> "SYM", ro |-> FALSE, wo |-> FALSE]

Const3(k) == [kind |-> "DATA", init |-> "CONST", val |-> k, ro |-> FALSE, wo |-> FALSE]

\* A program is written as rows of literals, decoded by Decode: the row
\* << op, dr, sr, sr1, sr2, base, imm, cc >> is an instruction, << "HALT" >>
\* the HALT trap, << "RTI" >> an RTI, << "X" >> the input cell and
\* << "C", k >> a constant cell.
Decode(r) ==
    CASE r[1] = "HALT" -> Halt
      [] r[1] = "RTI"  -> Inst("RTI", [word |-> 32768])
      [] r[1] = "X"    -> Input
      [] r[1] = "C"    -> Const3(r[2])
      [] OTHER -> Inst(r[1], [dr |-> r[2], sr |-> r[3], sr1 |-> r[4], sr2 |-> r[5],
                              base |-> r[6], imm |-> r[7], cc |-> r[8]])

(***************************************************************************)
(* TwoLoops: loop A counts R1 down from the input x; after it, a branch on *)
(* P the CC analysis finds can never be taken; then loop B runs once, with *)
(* segments no input covers, so loop B stays uncovered.                    *)
(*    0 LD R0, X        1 ADD R1, R0, #0    2 BRnz 5 (head of A)           *)
(*    3 ADD R1, R1, #-1 4 BRnzp 2           5 BRp 10                       *)
(*    6 LD R2, N        7 ADD R2, R2, #-1 (head of B)                      *)
(*    8 BRn 10          9 BRp 7             10 HALT                        *)
(*   11 X: input       12 N: 1                                             *)
(***************************************************************************)
TwoLoops ==
    << << "LD", 0, 0, 0, 0, 0, 10, {} >>,
       << "ADDi", 1, 0, 0, 0, 0, 0, {} >>,
       << "BR", 0, 0, 0, 0, 0, 2, {"n", "z"} >>,
       << "ADDi", 1, 0, 1, 0, 0, -1, {} >>,
       << "BR", 0, 0, 0, 0, 0, -3, CCFlags >>,
       << "BR", 0, 0, 0, 0, 0, 4, {"p"} >>,
       << "LD", 2, 0, 0, 0, 0, 5, {} >>,
       << "ADDi", 2, 0, 2, 0, 0, -1, {} >>,
       << "BR", 0, 0, 0, 0, 0, 1, {"n"} >>,
       << "BR", 0, 0, 0, 0, 0, -3, {"p"} >>,
       << "HALT" >>, << "X" >>, << "C", 1 >> >>

(***************************************************************************)
(* LoopThenBranch: loop A as above, then a branch taken only when x >= 3.  *)
(*    0 LD R0, X        1 ADD R1, R0, #0    2 BRnz 5 (head of A)           *)
(*    3 ADD R1, R1, #-1 4 BRnzp 2           5 ADD R3, R0, #-3              *)
(*    6 BRzp 8          7 HALT              8 HALT          9 X: input     *)
(***************************************************************************)
LoopThenBranch ==
    << << "LD", 0, 0, 0, 0, 0, 8, {} >>,
       << "ADDi", 1, 0, 0, 0, 0, 0, {} >>,
       << "BR", 0, 0, 0, 0, 0, 2, {"n", "z"} >>,
       << "ADDi", 1, 0, 1, 0, 0, -1, {} >>,
       << "BR", 0, 0, 0, 0, 0, -3, CCFlags >>,
       << "ADDi", 3, 0, 0, 0, 0, -3, {} >>,
       << "BR", 0, 0, 0, 0, 0, 1, {"z", "p"} >>,
       << "HALT" >>, << "HALT" >>, << "X" >> >>

(***************************************************************************)
(* Table: a load through a symbolic index, a store of a register never    *)
(* written and its reload into another register, then a call of SUB,      *)
(* which tests the loaded value: one halts inside SUB; zero returns       *)
(* properly and halts; negative returns properly and then returns from the *)
(* main code; two returns one instruction late (an improper return), after *)
(* which the RET at 12 keeps jumping back to 11 until the step limit.      *)
(*    0 LD R0, X        1 AND R0, R0, #3    2 LEA R1, T                    *)
(*    3 ADD R1, R1, R0  4 LDR R2, R1, #0    5 STR R4, R1, #0               *)
(*    6 LDR R5, R1, #0  7 NOT R3, R2        8 LDI R6, PT                   *)
(*    9 JSR SUB        10 BRn 12           11 BRz 13                       *)
(*   12 RET            13 HALT             14 X: input                     *)
(*   15 T: 0, 2, -1, 1                     19 PT: T                        *)
(*   20 SUB: ADD R3, R2, #-1               21 BRz 26                       *)
(*   22 ADD R2, R2, #0                     23 BRnz 25                      *)
(*   24 ADD R7, R7, #1                     25 RET              26 HALT     *)
(***************************************************************************)
Table ==
    << << "LD", 0, 0, 0, 0, 0, 13, {} >>,
       << "ANDi", 0, 0, 0, 0, 0, 3, {} >>,
       << "LEA", 1, 0, 0, 0, 0, 12, {} >>,
       << "ADD", 1, 0, 1, 0, 0, 0, {} >>,
       << "LDR", 2, 0, 0, 0, 1, 0, {} >>,
       << "STR", 0, 4, 0, 0, 1, 0, {} >>,
       << "LDR", 5, 0, 0, 0, 1, 0, {} >>,
       << "NOT", 3, 0, 2, 0, 0, 0, {} >>,
       << "LDI", 6, 0, 0, 0, 0, 10, {} >>,
       << "JSR", 0, 0, 0, 0, 0, 10, {} >>,
       << "BR", 0, 0, 0, 0, 0, 1, {"n"} >>,
       << "BR", 0, 0, 0, 0, 0, 1, {"z"} >>,
       << "JMP", 0, 0, 0, 0, 7, 0, {} >>,
       << "HALT" >>, << "X" >>, << "C", 0 >>, << "C", 2 >>, << "C", 65535 >>, << "C", 1 >>, << "C", 15 >>,
       << "ADDi", 3, 0, 2, 0, 0, -1, {} >>,
       << "BR", 0, 0, 0, 0, 0, 4, {"z"} >>,
       << "ADDi", 2, 0, 2, 0, 0, 0, {} >>,
       << "BR", 0, 0, 0, 0, 0, 1, {"n", "z"} >>,
       << "ADDi", 7, 0, 7, 0, 0, 1, {} >>,
       << "JMP", 0, 0, 0, 0, 7, 0, {} >>,
       << "HALT" >> >>

\* RTIProg: 0 RTI, 1 HALT.
RTIProg == << << "RTI" >>, << "HALT" >> >>

\* StoreUninitMCR: 0 STI R0, P (R0 never written), 1 HALT, 2 P: xFFFE (the
\* machine control register).
StoreUninitMCR == << << "STI", 0, 0, 0, 0, 0, 1, {} >>, << "HALT" >>, << "C", 65534 >> >>

\* The image is addressed from 0.
Image(seq) == [a \in 0 .. Len(seq) - 1 |-> Decode(seq[a + 1])]

MCProg == Image(TwoLoops)

MCProgLoopThenBranch == Image(LoopThenBranch)

MCProgTable == Image(Table)

MCProgRTI == Image(RTIProg)

MCProgStoreUninitMCR == Image(StoreUninitMCR)


(***************************************************************************)
(* Gold programs and the check lists their comparisons use.  A thing to   *)
(* compare is written with Thing.                                          *)
(*                                                                         *)
(* GoldCount, against TwoLoops: R1 is counted down once, unless x is 0,   *)
(* and stored to N.  Its warm-up stops at the BR, so every HALTED test     *)
(* state runs a gold search.                                               *)
(*    0 LD R0, X        1 ADD R1, R0, #0    2 BRz 4                        *)
(*    3 ADD R1, R1, #-1 4 ST R1, N          5 HALT                         *)
(*    6-10 zero         11 X: input         12 N: 1                        *)
(*                                                                         *)
(* GoldMask, against Table: the index is the input masked with 7, and the  *)
(* table is left as loaded.  It halts in its warm-up, so each HALTED test  *)
(* state is compared once.                                                 *)
(*    0 LD R2, X        1 AND R0, R2, #7    2 ADD R3, R0, #-1              *)
(*    3 HALT            4 X: input          5-14 zero                      *)
(*   15 T: 0, 2, -1, 1                                                     *)
(***************************************************************************)
GoldCount ==
    << << "LD", 0, 0, 0, 0, 0, 10, {} >>,
       << "ADDi", 1, 0, 0, 0, 0, 0, {} >>,
       << "BR", 0, 0, 0, 0, 0, 1, {"z"} >>,
       << "ADDi", 1, 0, 1, 0, 0, -1, {} >>,
       << "ST", 0, 1, 0, 0, 0, 7, {} >>,
       << "HALT" >>, << "C", 0 >>, << "C", 0 >>, << "C", 0 >>, << "C", 0 >>, << "C", 0 >>,
       << "X" >>, << "C", 1 >> >>

GoldMask ==
    << << "LD", 2, 0, 0, 0, 0, 3, {} >>,
       << "ANDi", 0, 0, 2, 0, 0, 7, {} >>,
       << "ADDi", 3, 0, 0, 0, 0, -1, {} >>,
       << "HALT" >>, << "X" >>,
       << "C", 0 >>, << "C", 0 >>, << "C", 0 >>, << "C", 0 >>, << "C", 0 >>,
       << "C", 0 >>, << "C", 0 >>, << "C", 0 >>, << "C", 0 >>, << "C", 0 >>,
       << "C", 0 >>, << "C", 2 >>, << "C", 65535 >>, << "C", 1 >> >>

(***************************************************************************)
(* The check lists and issue levels come from "; KLC3:" commands run      *)
(* through the loader (LoaderCommands) in klc3.cpp's order.               *)
(***************************************************************************)
LCmd == INSTANCE LoaderCommands

CDefine(lv, n)       == [c |-> "DEFINE", lv |-> lv, name |-> n, hint |-> TRUE]
CSetLevel(n, lv)     == [c |-> "SET_LEVEL", name |-> n, lv |-> lv]
CCheck(k, f, t, n)   == [c |-> "CHECK", kind |-> k, from |-> f, to |-> t, name |-> n]
CFile(orig, lines)   == [orig |-> orig, start |-> 0, lines |-> lines]

\* The gold file for GoldCount: the counter and N (an error), and where the
\* program halted (a warning); the default output compare stays.
CountScript ==
    [input |-> << >>,
     gold  |-> << CFile(TRUE, << << CDefine("ERROR", "ERR_COUNT") >>,
                                 << CDefine("WARNING", "WARN_LAST") >>,
                                 << CCheck("REG", 1, 1, "ERR_COUNT"), CCheck("MEM", 12, 12, "ERR_COUNT") >>,
                                 << CCheck("LAST_INST", 0, 0, "WARN_LAST") >> >>) >>,
     test  |-> << CFile(TRUE, << >>) >>]

\* The gold file for GoldMask: the index (a warning), then the loaded value,
\* R3, where the program halted and the table (an error), no output
\* compare; a commands-only input file silences WARN_IMPROPER_RET.
MaskScript ==
    [input |-> << CFile(FALSE, << << CSetLevel("WARN_IMPROPER_RET", "NONE") >> >>) >>,
     gold  |-> << CFile(TRUE, << << CDefine("WARNING", "WARN_INDEX"), CDefine("ERROR", "ERR_VALUE") >>,
                                 << CCheck("REG", 0, 0, "WARN_INDEX") >>,
                                 << CCheck("REG", 2, 3, "ERR_VALUE"), CCheck("LAST_INST", 0, 0, "ERR_VALUE"),
                                    CCheck("MEM", 15, 18, "ERR_VALUE") >>,
                                 << [c |-> "OUTPUT_NONE"] >> >>) >>,
     test  |-> << CFile(TRUE, << >>) >>]

DefaultLevels == LCmd!DefaultIssueLevel

\* What the scripts load, written out (TLC then reads the driver's constants
\* without rerunning the loader); the ASSUMEs tie them to LoadAll.
CheckCount ==
    << [type |-> "ERR_INCORRECT_OUTPUT", lv |-> "ERROR", things |-> << LCmd!Thing("OUTPUT", 0, 0) >>],
       [type |-> "ISSUE_25", lv |-> "ERROR",
        things |-> << LCmd!Thing("REG", 1, 1), LCmd!Thing("MEM", 12, 12) >>],
       [type |-> "ISSUE_26", lv |-> "WARNING", things |-> << LCmd!Thing("LAST_INST", 0, 0) >>] >>

CountLevels == ("ISSUE_25" :> "ERROR") @@ ("ISSUE_26" :> "WARNING") @@ DefaultLevels

CheckMask ==
    << [type |-> "ISSUE_25", lv |-> "WARNING", things |-> << LCmd!Thing("REG", 0, 0) >>],
       [type |-> "ISSUE_26", lv |-> "ERROR",
        things |-> << LCmd!Thing("REG", 2, 3), LCmd!Thing("LAST_INST", 0, 0), LCmd!Thing("MEM", 15, 18) >>] >>

MaskLevels ==
    ("WARN_IMPROPER_RET" :> "NONE") @@ ("ISSUE_25" :> "WARNING") @@ ("ISSUE_26" :> "ERROR") @@ DefaultLevels

Loads(sc, checks, levels) ==
    LET r == LCmd!LoadAll(sc)
    IN  r.out = "ok" /\ LCmd!CheckListSeq(r.pkg, r.chk) = checks /\ r.pkg.level = levels

ASSUME Loads(CountScript, CheckCount, CountLevels)

ASSUME Loads(MaskScript, CheckMask, MaskLevels)


NoGold == << >>

NoCheckLists == << >>

MCGoldCount == Image(GoldCount)

MCGoldMask == Image(GoldMask)

=============================================================================
