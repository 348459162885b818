-------------------------------- MODULE LC3 --------------------------------
(***************************************************************************)
(* The program image the loader hands to klc3 (Loader/Loader.cpp) and the  *)
(* decoded view of an instruction cell (Core/MemoryValue.h, InstValue).    *)
(*                                                                         *)
(* A cell of the image is a record.  An instruction cell is what          *)
(* DecodeInst makes of its word: the fields dr, sr (the stored register of *)
(* ST/STR/STI), sr1, sr2, base, imm, cc and vec are what InstValue::dr()/  *)
(* sr()/sr1()/sr2()/baseR()/imm*()/cc()/vec8() extract; halt marks a TRAP  *)
(* annotated "KLC3: INSTANT_HALT".  Programs given to the driver's models  *)
(* may write a cell by its fields directly, with imm as a signed offset:   *)
(* every use of imm wraps to 16 bits, so the two forms behave alike.       *)
(* A data cell carries its initial content: init is "CONST" (the word val), *)
(* "SYM" (the symbolic input) or "UNINIT" (a cell marked "KLC3:            *)
(* UNINITIALIZED"); ro and wo are its read-only and write-only marks.      *)
(***************************************************************************)
EXTENDS Integers, FiniteSets, Sequences, TLC, Bitwise

CONSTANTS
    Prog,       \* address -> cell: the initial memory image (user code only)
    InitPC      \* the initial program counter given by the loader

Word == 0 .. 65535

\* 16-bit wrap-around of an address or a value ("auto wrap 0xFFFF").
Wrap(x) == x % 65536

\* Opcodes of InstValue::INST_DEF, ADDi/ANDi being the immediate forms.
Ops == {"ADD", "ADDi", "AND", "ANDi", "BR", "JMP", "JSR", "JSRR", "LD", "LDI",
        "LDR", "LEA", "NOT", "ST", "STI", "STR", "TRAP", "RTI"}

\* The condition code of a BR as the set of flags it tests (CondCode).
CCFlags == {"n", "z", "p"}

VEC8_HALT == 37   \* 0x25

\* Trap vectors that return to the next instruction (FlowGraph.cpp:155-158):
\* GETC, OUT, PUTS, IN, PUTSP and the klc3 command trap.
ReturningTraps == {32, 33, 34, 35, 36, 195}

SX == INSTANCE SequencesExt

(***************************************************************************)
(* The decoder: InstValue::alloc/matchInst take the first INST_DEF entry   *)
(* whose mask and match fit the word; the getters extract the fields.      *)
(* imm is the width of the immediate the entry's format shows (FMT_IMM5,   *)
(* FMT_IMM6, FMT_IMM9, FMT_IMM11), 0 for none.                             *)
(***************************************************************************)
INST_DEF ==
    << [id |-> "ADD",  mask |-> \hF038, match |-> \h1000, imm |-> 0],
       [id |-> "ADDi", mask |-> \hF020, match |-> \h1020, imm |-> 5],
       [id |-> "AND",  mask |-> \hF038, match |-> \h5000, imm |-> 0],
       [id |-> "ANDi", mask |-> \hF020, match |-> \h5020, imm |-> 5],
       [id |-> "BR",   mask |-> \hF000, match |-> \h0000, imm |-> 9],
       [id |-> "JMP",  mask |-> \hFE3F, match |-> \hC000, imm |-> 0],
       [id |-> "JSR",  mask |-> \hF800, match |-> \h4800, imm |-> 11],
       [id |-> "JSRR", mask |-> \hFE3F, match |-> \h4000, imm |-> 0],
       [id |-> "LD",   mask |-> \hF000, match |-> \h2000, imm |-> 9],
       [id |-> "LDI",  mask |-> \hF000, match |-> \hA000, imm |-> 9],
       [id |-> "LDR",  mask |-> \hF000, match |-> \h6000, imm |-> 6],
       [id |-> "LEA",  mask |-> \hF000, match |-> \hE000, imm |-> 9],
       [id |-> "NOT",  mask |-> \hF03F, match |-> \h903F, imm |-> 0],
       [id |-> "ST",   mask |-> \hF000, match |-> \h3000, imm |-> 9],
       [id |-> "STI",  mask |-> \hF000, match |-> \hB000, imm |-> 9],
       [id |-> "STR",  mask |-> \hF000, match |-> \h7000, imm |-> 6],
       [id |-> "TRAP", mask |-> \hFF00, match |-> \hF000, imm |-> 0],
       [id |-> "RTI",  mask |-> \h8000, match |-> \h8000, imm |-> 0] >>

\* A matchInst loop that does not return on a match: the last fitting entry.
MatchInstLast(w) ==
    LET fits == SelectSeq(INST_DEF, LAMBDA d : (w & d.mask) = d.match)
    IN  fits[Len(fits)]

\* InstValue::matchInst: the first entry whose mask and match fit w.  A word
\* no entry fits makes alloc return nullptr, which the loader does not
\* expect (Loader.cpp:337); the assembler never emits one, so such words
\* are not decoded here.
MatchInst(w) == Head(SelectSeq(INST_DEF, LAMBDA d : (w & d.mask) = d.match))

\* The field getters dr()/sr(), sr1()/baseR(), sr2(), cc() and vec8().
FieldDR(w) == (w \div 512) % 8

FieldSR1(w) == (w \div 64) % 8

FieldSR2(w) == w % 8

FieldCC(w) == {f \in CCFlags : (w \div (CASE f = "n" -> 2048 [] f = "z" -> 1024 [] f = "p" -> 512)) % 2 = 1}

FieldVec8(w) == w % 256

\* imm5()/imm6()/imm9()/imm11(): the low n bits, sign-extended by OR-ing
\* ~(2^(n-1) - 1) into the 16-bit word when bit n-1 is set.
FieldImm(w, n) ==
    LET h == 2 ^ (n - 1)
    IN  IF (w \div h) % 2 = 0 THEN w % h ELSE 65536 - h + (w % h)

\* The cell InstValue::alloc makes of w; halt is the loader's "KLC3:
\* INSTANT_HALT" annotation, not part of the word.
DecodeInst(w, halt) ==
    LET d == MatchInst(w)
    IN  [kind |-> "INST", op |-> d.id, word |-> w, halt |-> halt,
         dr |-> FieldDR(w), sr |-> FieldDR(w), sr1 |-> FieldSR1(w), sr2 |-> FieldSR2(w),
         base |-> FieldSR1(w), cc |-> FieldCC(w), vec |-> FieldVec8(w),
         imm |-> IF d.imm = 0 THEN 0 ELSE FieldImm(w, d.imm)]

Addrs == DOMAIN Prog

IsInstAt(a) == a \in DOMAIN Prog /\ Prog[a].kind = "INST"

IsDataAt(a) == a \in DOMAIN Prog /\ Prog[a].kind = "DATA"

\* InstValue::isRET(): JMP R7.
IsRET(a) == Prog[a].op = "JMP" /\ Prog[a].base = 7

\* Signed view of a 16-bit word, as used by the Slt/Sle branch conditions.
Signed(v) == IF v >= 32768 THEN v - 65536 ELSE v

\* The flag a word sets: the N, Z or P the LC-3 derives from a value.
FlagOf(v) == IF v = 0 THEN "z" ELSE IF Signed(v) < 0 THEN "n" ELSE "p"

=============================================================================
