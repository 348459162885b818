------------------------------ MODULE Executor ------------------------------
(***************************************************************************)
(* One step of the symbolic interpreter (Core/Executor.cpp, Core/State.h,  *)
(* Core/MemoryManager.cpp, Verification/IssuePackage.cpp).                 *)
(*                                                                         *)
(* Symbolic data is abstracted to its meaning: the program has one         *)
(* symbolic input (the data cells whose init is "SYM"), a world w in       *)
(* Worlds is one concrete value of it, an expression is the function       *)
(* giving its value in every world, and a state's constraint set is the    *)
(* set F of worlds it still admits.  The solver's answers are then exact:  *)
(* a query is valid when it holds in every world of F and satisfiable when *)
(* it holds in one.  An uninitialised register or memory value (a null     *)
(* ref<Expr>) is UninitExpr.                                               *)
(*                                                                         *)
(* Step(s, iss, uid) is Executor::step on state s with the global issue    *)
(* set iss; forked states take the identities uid, uid+1, ... in the order *)
(* StateAllocator::fork is called.  It returns the result vector, the new  *)
(* issue set and the number of states allocated.                           *)
(***************************************************************************)
EXTENDS FlowGraph, Bitwise

CONSTANTS Worlds    \* the values the symbolic input can take in the image

UninitExpr == << >>

Const(k) == [w \in Worlds |-> Wrap(k)]

InputExpr == [w \in Worlds |-> w]

Exprs == [Worlds -> Word]

Regs == 0 .. 7

NoReg == 8   \* NUM_REGS: the CC has never been set

CONSTANTS Levels    \* IssuePackage::issueLevel once the loader's commands ran

\* Issue::Type: the types raised while the test program runs (before
\* RUNTIME_ISSUE_COUNT; WARN_COMPILE and ERR_COMPILE come from the loader).
RuntimeIssueTypes ==
    {"WARN_POSSIBLE_WILD_READ", "WARN_READ_UNINITIALIZED_MEMORY", "WARN_POSSIBLE_WILD_WRITE",
     "WARN_WRITE_READ_ONLY_DATA", "WARN_READ_INST_AS_DATA", "WARN_USE_UNINITIALIZED_REGISTER",
     "WARN_USE_UNINITIALIZED_CC", "WARN_MANUAL_HALT", "WARN_IMPROPER_RET",
     "WARN_REUSE_CODE_ACROSS_SUBROUTINES", "WARN_HALT_IN_SUBROUTINE", "ERR_INVALID_INST",
     "ERR_EXECUTE_DATA_AS_INST", "ERR_OVERWRITE_INST", "ERR_SYMBOLIC_PC",
     "ERR_EXECUTE_UNINITIALIZED_MEMORY", "ERR_RET_IN_MAIN_CODE", "ERR_STATE_REACH_STEP_LIMIT",
     "ERR_STATE_REACH_OUTPUT_LIMIT", "ERR_STATE_REACH_QUERY_LIMIT"}

\* ERR_INVALID_INST has no level entry (its name is unknown to SET_LEVEL).
ASSUME RuntimeIssueTypes \ {"ERR_INVALID_INST"} \subseteq DOMAIN Levels

\* Issue::Level.
IssueLevels == {"ERROR", "WARNING", "NONE"}

\* An Issue (type, location) as the key of IssuePackage::issues, which is
\* ordered by IssueLocationLess: two issues are the same when their types
\* match and their locations are both null or on the same source line.
\* Each instruction of a program is on its own line, so the line is the
\* instruction's address (NoNode for a null location).
IssueKey(type, loc) == [type |-> type, loc |-> loc]

\* IssuePackage::getIssueLevel: the configured level (no entry is an assertion
\* failure, see ExecRTI).
GetIssueLevel(type) == Levels[type]

\* IssuePackage::raiseIssue (AGGRESSIVE_FILTER_ISSUE) for an issue of level lv:
\* a NONE-level issue is ignored; otherwise only the first (type, location)
\* is kept.
RaiseIssue(iss, lv, type, loc) ==
    LET i == IssueKey(type, loc)
    IN  IF lv = "NONE" THEN [kept |-> FALSE, iss |-> iss]
        ELSE [kept |-> i \notin iss, iss |-> iss \cup {i}]

\* State::newStateIssue when getIssueLevel(type) is lv: a kept issue sets
\* triggerNewIssue; an ERROR-level issue breaks the state whether or not it
\* was kept.
NewStateIssueAt(s, iss, type, loc, lv) ==
    LET r == RaiseIssue(iss, lv, type, loc)
    IN  [s   |-> [s EXCEPT !.trig   = @ \/ r.kept,
                           !.status = IF lv = "ERROR" THEN "BROKEN" ELSE @],
         iss |-> r.iss]

NewStateIssue(s, iss, type, loc) == NewStateIssueAt(s, iss, type, loc, GetIssueLevel(type))

(***************************************************************************)
(* Memory: MemoryManager::read with its memory-mapped registers, the       *)
(* state's overlay s.mem (address -> expression) over the image.           *)
(***************************************************************************)
NullCell == [kind |-> "NULL"]

DataCell(e, ro, wo) == [kind |-> "DATA", e |-> e, ro |-> ro, wo |-> wo]

BaseCell(a) ==
    CASE ~(a \in DOMAIN Prog)    -> NullCell
      [] Prog[a].kind = "INST"   -> [kind |-> "INST", e |-> Const(Prog[a].word)]
      [] Prog[a].init = "SYM"    -> DataCell(InputExpr, Prog[a].ro, Prog[a].wo)
      [] Prog[a].init = "UNINIT" -> DataCell(UninitExpr, Prog[a].ro, Prog[a].wo)
      [] OTHER                   -> DataCell(Const(Prog[a].val), Prog[a].ro, Prog[a].wo)

MemRead(s, a) ==
    CASE a = 65024 -> DataCell(Const(0), FALSE, FALSE)       \* KBSR
      [] a = 65028 -> DataCell(Const(32768), FALSE, FALSE)   \* DSR
      [] a = 65030 -> DataCell(Const(0), FALSE, FALSE)       \* DDR
      [] a = 65534 -> DataCell(Const(32768), FALSE, FALSE)   \* MCR
      [] a \in DOMAIN s.mem -> DataCell(s.mem[a], FALSE, FALSE)
      [] OTHER -> BaseCell(a)

IsConstExpr(e) == e # UninitExpr /\ \A v, w \in Worlds : e[v] = e[w]

DropKey(f, a) == [x \in DOMAIN f \ {a} |-> f[x]]

ConstVal(e) == e[CHOOSE w \in Worlds : TRUE]

\* The warning memReadData raises for the cell c it reads.
CheckRead(s, iss, c, a) ==
    CASE c.kind = "NULL" -> NewStateIssue(s, iss, "WARN_POSSIBLE_WILD_READ", a)
      [] c.kind = "DATA" /\ c.wo -> NewStateIssue(s, iss, "WARN_READ_UNINITIALIZED_MEMORY", a)
      [] c.kind = "INST" -> NewStateIssue(s, iss, "WARN_READ_INST_AS_DATA", a)
      [] OTHER -> [s |-> s, iss |-> iss]

\* An uninitialised value stored from a register other than dr: the use is
\* reported and the address forgotten.
DropUninitStore(r, addr) ==
    [s |-> [r.s EXCEPT !.uninitStore = DropKey(@, addr)], iss |-> r.iss, v |-> Const(0)]

\* The value memReadData returns for the cell c, after the warning.
ReadValue(t, iss, c, addr, a, dr) ==
    CASE c.kind = "NULL" -> [s |-> t, iss |-> iss, v |-> Const(0)]
      [] c.e # UninitExpr -> [s |-> t, iss |-> iss, v |-> c.e]
      [] addr \notin DOMAIN t.uninitStore -> [s |-> t, iss |-> iss, v |-> Const(0)]
      [] dr # -1 /\ dr = t.uninitStore[addr] -> [s |-> t, iss |-> iss, v |-> UninitExpr]
      [] OTHER -> DropUninitStore(NewStateIssue(t, iss, "WARN_USE_UNINITIALIZED_REGISTER", a), addr)

ReadChecked(r, c, addr, a, dr) == ReadValue(r.s, r.iss, c, addr, a, dr)

ReadCell(s, iss, c, addr, a, dr) == ReadChecked(CheckRead(s, iss, c, a), c, addr, a, dr)

\* Executor::memReadData; dr = -1 when the value is not loaded into a register.
MemReadData(s, iss, addr, a, dr) == ReadCell(s, iss, MemRead(s, addr), addr, a, dr)

\* The warning or error memWriteData raises for the cell old it overwrites.
CheckWrite(s, iss, old, a) ==
    CASE old.kind = "NULL" -> NewStateIssue(s, iss, "WARN_POSSIBLE_WILD_WRITE", a)
      [] old.kind = "DATA" /\ old.ro -> NewStateIssue(s, iss, "WARN_WRITE_READ_ONLY_DATA", a)
      [] old.kind = "INST" -> NewStateIssue(s, iss, "ERR_OVERWRITE_INST", a)
      [] OTHER -> [s |-> s, iss |-> iss]

\* The record of addresses holding an uninitialised register's value.
TrackUninit(s, addr, val, a) ==
    [s EXCEPT !.uninitStore = IF val = UninitExpr THEN (addr :> Prog[a].sr) @@ @ ELSE DropKey(@, addr)]

\* MemoryManager::write to the MCR: a null value is dereferenced (the
\* status "CRASH"); a value with bit 15 clear halts the machine.
WriteMCR(t, j, val, a) ==
    CASE val = UninitExpr -> [s |-> [t EXCEPT !.status = "CRASH"], iss |-> j]
      [] IsConstExpr(val) /\ ConstVal(val) >= 32768 -> [s |-> t, iss |-> j]
      [] Prog[a].op # "TRAP" -> NewStateIssue([t EXCEPT !.status = "HALTED"], j, "WARN_MANUAL_HALT", a)
      [] OTHER -> [s |-> [t EXCEPT !.status = "HALTED"], iss |-> j]

\* MemoryManager::write: device registers, the MCR, or plain memory.
WriteTo(t, j, addr, val, a) ==
    CASE addr \in {65024, 65026, 65028} -> [s |-> t, iss |-> j]
      [] addr = 65030 ->
           IF val = UninitExpr THEN NewStateIssue(t, j, "WARN_USE_UNINITIALIZED_REGISTER", a)
           ELSE [s |-> t, iss |-> j]
      [] addr = 65534 -> WriteMCR(t, j, val, a)
      [] OTHER -> [s |-> [t EXCEPT !.mem = (addr :> val) @@ @], iss |-> j]

WriteChecked(r, addr, val, a) == WriteTo(TrackUninit(r.s, addr, val, a), r.iss, addr, val, a)

WriteCell(s, iss, old, addr, val, a) ==
    IF old.kind = "INST" THEN CheckWrite(s, iss, old, a)
    ELSE WriteChecked(CheckWrite(s, iss, old, a), addr, val, a)

\* Executor::memWriteData with MemoryManager::write.
MemWriteData(s, iss, addr, val, a) == WriteCell(s, iss, MemRead(s, addr), addr, val, a)

(***************************************************************************)
(* Registers, the condition code and forking.                              *)
(***************************************************************************)
AddExpr(e1, e2) == [w \in Worlds |-> Wrap(e1[w] + e2[w])]

\* The warning for an uninitialised register r is raised in r1; the
\* register is set to 0 and read as 0.
ZeroReg(r1, r) == [s |-> [r1.s EXCEPT !.reg[r] = Const(0)], iss |-> r1.iss, v |-> Const(0)]

\* Executor::getReg: an uninitialised register warns once and reads as 0.
GetReg(s, iss, r, a) ==
    IF s.reg[r] # UninitExpr THEN [s |-> s, iss |-> iss, v |-> s.reg[r]]
    ELSE ZeroReg(NewStateIssue(s, iss, "WARN_USE_UNINITIALIZED_REGISTER", a), r)

\* Executor::getCCExpr: the CC is the value of the register s.cc last set it.
GetCCExpr(s, iss, a) ==
    CASE s.cc = NoReg ->
           NewStateIssue(s, iss, "WARN_USE_UNINITIALIZED_CC", a) @@ [v |-> Const(0)]
      [] s.reg[s.cc] = UninitExpr ->
           ZeroReg(NewStateIssue(s, iss, "WARN_USE_UNINITIALIZED_REGISTER", a), s.cc)
      [] OTHER -> [s |-> s, iss |-> iss, v |-> s.reg[s.cc]]

\* Executor::setReg(dr) followed by Executor::setCC(dr).
WriteDR(s, dr, e) == [s EXCEPT !.reg[dr] = e, !.cc = dr]

\* State::State(const State &): a fork keeps everything but its identity and
\* the flags that are not copied (triggerNewIssue, coveredNewEdge,
\* coveredNewSegment, avoidLoopReductionPostpone).
Fork(s, uid) ==
    [s EXCEPT !.uid = uid, !.trig = FALSE, !.newEdge = FALSE, !.newSeg = FALSE, !.avoid = FALSE]

\* Mutant: the instances are forked without the constraint e = value.
ForkOnRangeNoEq(s, e, uid) ==
    LET vs == SX!SetToSortSeq({e[w] : w \in s.F}, <)
    IN [k \in 1 .. Len(vs) |->
          [t |-> IF k < Len(vs) THEN Fork(s, uid + k - 1) ELSE s, x |-> vs[k]]]

\* Executor::forkOnRange: one instance per value e can take under s.F, in
\* ascending order; every instance but the last is a fork, the last is s
\* itself, and each gets the constraint e = value unless there is one value.
ForkOnRange(s, e, uid) ==
    LET vs == SX!SetToSortSeq({e[w] : w \in s.F}, <)
        n  == Len(vs)
    IN [k \in 1 .. n |->
          [t |-> LET b == IF k < n THEN Fork(s, uid + k - 1) ELSE s
                 IN IF n = 1 THEN b ELSE [b EXCEPT !.F = {w \in s.F : e[w] = vs[k]}],
           x |-> vs[k]]]

\* A result list with x put in front of the list t.res.
ConsRes(x, t) == [t EXCEPT !.res = << x >> \o @]

\* The loops over the instances inst of forkOnRange in handleExprLD and
\* handleExprST, from instance i on, threading the issue set.
RECURSIVE LoadEach(_, _, _, _, _), LoadRest(_, _, _, _, _), StoreEach(_, _, _, _, _),
          StoreRest(_, _, _, _, _)

\* The rest of a loop after instance i gave r.
LoadRest(inst, i, dr, a, r) == ConsRes(r.s, LoadEach(inst, i + 1, r.iss, dr, a))

StoreRest(inst, i, val, a, r) == ConsRes(r.s, StoreEach(inst, i + 1, r.iss, val, a))

One(r) == [res |-> << r.s >>, iss |-> r.iss, n |-> 0]

(***************************************************************************)
(* Loads and stores.                                                       *)
(***************************************************************************)
\* The register write after a load that left the state NORMAL.
LoadInto(r, dr) ==
    IF r.s.status # "NORMAL" THEN [s |-> r.s, iss |-> r.iss]
    ELSE [s |-> WriteDR(r.s, dr, r.v), iss |-> r.iss]

\* The body of handleExprLD for one concrete address.
LoadAt(t, iss, dr, x, a) == LoadInto(MemReadData(t, iss, x, a, dr), dr)

LoadEach(inst, i, iss, dr, a) ==
    IF i > Len(inst) THEN [res |-> << >>, iss |-> iss]
    ELSE LoadRest(inst, i, dr, a, LoadAt(inst[i].t, iss, dr, inst[i].x, a))

\* The loop of handleExprLD over the instances of forkOnRange.
LoadInstances(inst, iss, dr, a) == LoadEach(inst, 1, iss, dr, a) @@ [n |-> Len(inst) - 1]

\* Executor::handleExprLD.
HandleExprLD(s, iss, dr, addr, a, uid) ==
    IF IsConstExpr(addr) THEN One(LoadAt(s, iss, dr, ConstVal(addr), a))
    ELSE LoadInstances(ForkOnRange(s, addr, uid), iss, dr, a)

StoreEach(inst, i, iss, val, a) ==
    IF i > Len(inst) THEN [res |-> << >>, iss |-> iss]
    ELSE StoreRest(inst, i, val, a, MemWriteData(inst[i].t, iss, inst[i].x, val, a))

\* The loop of handleExprST over the instances of forkOnRange.
StoreInstances(inst, iss, val, a) == StoreEach(inst, 1, iss, val, a) @@ [n |-> Len(inst) - 1]

\* Executor::handleExprST.
HandleExprST(s, iss, addr, val, a, uid) ==
    IF IsConstExpr(addr) THEN One(MemWriteData(s, iss, ConstVal(addr), val, a))
    ELSE StoreInstances(ForkOnRange(s, addr, uid), iss, val, a)

\* executeLD.
ExecLD(s, iss, i, a) == LoadInto(MemReadData(s, iss, Wrap(s.pc + i.imm), a, i.dr), i.dr)

\* The load of executeLDR from the base register value g.v.
LoadFromBase(g, i, a, uid) == HandleExprLD(g.s, g.iss, i.dr, AddExpr(g.v, Const(i.imm)), a, uid)

\* executeLDR.
ExecLDR(s, iss, i, a, uid) == LoadFromBase(GetReg(s, iss, i.base, a), i, a, uid)

\* The second load of executeLDI, through the pointer r.v.
LoadIndirect(r, i, a, uid) ==
    IF r.s.status # "NORMAL" THEN One(r)
    ELSE HandleExprLD(r.s, r.iss, i.dr, r.v, a, uid)

\* executeLDI.
ExecLDI(s, iss, i, a, uid) == LoadIndirect(MemReadData(s, iss, Wrap(s.pc + i.imm), a, -1), i, a, uid)

\* executeST: the stored register is read with the uninitialised value bypassed.
ExecST(s, iss, i, a) == MemWriteData(s, iss, Wrap(s.pc + i.imm), s.reg[i.sr], a)

\* The store of executeSTR after the base register read g; v is the
\* stored register read before (from s) or after (from g.s) it.
StoreFromBase(g, s, i, a, uid) ==
    {HandleExprST(g.s, g.iss, AddExpr(g.v, Const(i.imm)), v, a, uid)
       : v \in {g.s.reg[i.sr], s.reg[i.sr]}}

\* executeSTR.  Its two register reads are arguments of one call, evaluated
\* in an unspecified order; they differ when base = sr is uninitialised.
ExecSTR(s, iss, i, a, uid) == StoreFromBase(GetReg(s, iss, i.base, a), s, i, a, uid)

\* The store of executeSTI through the pointer r.v.
StoreIndirect(r, i, a, uid) ==
    IF r.s.status # "NORMAL" THEN One(r)
    ELSE HandleExprST(r.s, r.iss, r.v, r.s.reg[i.sr], a, uid)

\* executeSTI.
ExecSTI(s, iss, i, a, uid) == StoreIndirect(MemReadData(s, iss, Wrap(s.pc + i.imm), a, -1), i, a, uid)

(***************************************************************************)
(* Arithmetic and control transfer.                                        *)
(***************************************************************************)
\* The sum of the first operand g1 and the second g2 into DR.
AddInto(g1, g2, i) == [s |-> WriteDR(g2.s, i.dr, AddExpr(g1.v, g2.v)), iss |-> g2.iss]

\* The second operand of executeADD, read after the first one g1.
AddSecond(g1, i, a) ==
    AddInto(g1, IF i.op = "ADD" THEN GetReg(g1.s, g1.iss, i.sr2, a)
                ELSE [s |-> g1.s, iss |-> g1.iss, v |-> Const(i.imm)], i)

\* executeADD (the folding of x + x into a multiplication keeps its value).
ExecADD(s, iss, i, a) == AddSecond(GetReg(s, iss, i.sr1, a), i, a)

\* executeAND: an uninitialised operand warns (and is written back as 0)
\* unless the other operand is the constant 0.
ExecAND(s, iss, i, a) ==
    LET op1 == s.reg[i.sr1]
        op2 == IF i.op = "AND" THEN s.reg[i.sr2] ELSE Const(i.imm)
        Warn(r, reg, other) ==
            IF other = Const(0) THEN r
            ELSE LET w == NewStateIssue(r.s, r.iss, "WARN_USE_UNINITIALIZED_REGISTER", a)
                 IN [w EXCEPT !.s.reg[reg] = Const(0)]
        r1 == IF op1 = UninitExpr THEN Warn([s |-> s, iss |-> iss], i.sr1, op2)
              ELSE [s |-> s, iss |-> iss]
        r2 == IF op2 = UninitExpr THEN Warn(r1, i.sr2, op1) ELSE r1
        v1 == IF op1 = UninitExpr THEN Const(0) ELSE op1
        v2 == IF op2 = UninitExpr THEN Const(0) ELSE op2
    IN [s |-> WriteDR(r2.s, i.dr, [w \in Worlds |-> v1[w] & v2[w]]), iss |-> r2.iss]

\* executeNOT.
ExecNOT(s, iss, i, a) ==
    LET g == GetReg(s, iss, i.sr1, a)
    IN [s |-> WriteDR(g.s, i.dr, [w \in Worlds |-> 65535 - g.v[w]]), iss |-> g.iss]

\* executeLEA.
ExecLEA(s, iss, i, a) == [s |-> WriteDR(s, i.dr, Const(s.pc + i.imm)), iss |-> iss]

\* executeJSR.
ExecJSR(s, iss, i, a) ==
    [s |-> [s EXCEPT !.reg[7] = Const(s.pc), !.pc = Wrap(s.pc + i.imm)], iss |-> iss]

\* Mutant: a RET is taken for one in the main code whatever the depth of
\* the colour stack.
ExecJMPNoDepthCheck(s, iss, i, a) ==
    LET r1 == IF i.base = 7 /\ ~s.messed /\ s.cs # << >>
                 THEN [NewStateIssue(s, iss, "ERR_RET_IN_MAIN_CODE", a) EXCEPT !.s.messed = TRUE]
                 ELSE [s |-> s, iss |-> iss]
        g  == GetReg(r1.s, r1.iss, i.base, a)
    IN CASE r1.s.status # "NORMAL" -> r1
         [] ~IsConstExpr(g.v) -> NewStateIssue(g.s, g.iss, "ERR_SYMBOLIC_PC", a)
         [] OTHER -> [s |-> [g.s EXCEPT !.pc = ConstVal(g.v)], iss |-> g.iss]

\* executeJMP: a RET while the colour stack holds only the main code is an
\* error (marking the stack messed up); a symbolic target is an error.
ExecJMP(s, iss, i, a) ==
    LET r1 == IF i.base = 7 /\ ~s.messed /\ s.cs # << >> /\ Len(s.cs) < 2
                 THEN [NewStateIssue(s, iss, "ERR_RET_IN_MAIN_CODE", a) EXCEPT !.s.messed = TRUE]
                 ELSE [s |-> s, iss |-> iss]
        g  == GetReg(r1.s, r1.iss, i.base, a)
    IN CASE r1.s.status # "NORMAL" -> r1
         [] ~IsConstExpr(g.v) -> NewStateIssue(g.s, g.iss, "ERR_SYMBOLIC_PC", a)
         [] OTHER -> [s |-> [g.s EXCEPT !.pc = ConstVal(g.v)], iss |-> g.iss]

\* executeJSRR.
ExecJSRR(s, iss, i, a) ==
    LET g == GetReg(s, iss, i.base, a)
    IN IF ~IsConstExpr(g.v) THEN NewStateIssue(g.s, g.iss, "ERR_SYMBOLIC_PC", a)
       ELSE [s |-> [g.s EXCEPT !.reg[7] = Const(s.pc), !.pc = ConstVal(g.v)], iss |-> g.iss]

\* The jump of executeTRAP through the vector read r.
TrapTo(r) ==
    IF r.s.status # "NORMAL" THEN [s |-> r.s, iss |-> r.iss]
    ELSE [s |-> [r.s EXCEPT !.pc = ConstVal(r.v)], iss |-> r.iss]

\* executeTRAP: an INSTANT_HALT trap halts; any other jumps through the
\* vector table after saving the return address in R7.
ExecTRAP(s, iss, i, a) ==
    IF i.halt THEN [s |-> [s EXCEPT !.status = "HALTED"], iss |-> iss]
    ELSE TrapTo(MemReadData([s EXCEPT !.reg[7] = Const(s.pc)], iss, i.vec, a, -1))

\* RTI raises ERR_INVALID_INST, a type missing from IssuePackage::issueLevel:
\* getIssueLevel fails its assertion (a debug build aborts) or, with
\* assertions off, falls off its end and yields an arbitrary level.
ExecRTI(s, iss, i, a) ==
    {[s |-> [s EXCEPT !.status = "CRASH"], iss |-> iss]}
    \cup {NewStateIssueAt(s, iss, "ERR_INVALID_INST", a, lv) : lv \in IssueLevels}

\* Mutant: the continuing fork keeps the constraints of both outcomes.
ExecBRKeepF(s, iss, i, a, uid) ==
    IF i.cc = {} THEN One([s |-> s, iss |-> iss])
    ELSE IF i.cc = CCFlags THEN One([s |-> [s EXCEPT !.pc = Wrap(s.pc + i.imm)], iss |-> iss])
    ELSE LET g  == GetCCExpr(s, iss, a)
             tk == {w \in g.s.F : FlagOf(g.v[w]) \in i.cc}
             br == [g.s EXCEPT !.pc = Wrap(s.pc + i.imm), !.F = tk]
         IN CASE tk = g.s.F -> One([s |-> [g.s EXCEPT !.pc = Wrap(s.pc + i.imm)], iss |-> g.iss])
              [] tk = {}    -> One([s |-> g.s, iss |-> g.iss])
              [] OTHER      -> [res |-> << Fork(g.s, uid), br >>,
                                iss |-> g.iss, n |-> 1]

\* executeBR with solveBRCond: the branch is taken in world w when the flag
\* of the CC value is one the instruction tests (the Slt/Sle/Eq conditions).
\* A condition valid (unsatisfiable) under s.F always (never) branches;
\* otherwise s takes the branch and a fork of it continues.
ExecBR(s, iss, i, a, uid) ==
    IF i.cc = {} THEN One([s |-> s, iss |-> iss])
    ELSE IF i.cc = CCFlags THEN One([s |-> [s EXCEPT !.pc = Wrap(s.pc + i.imm)], iss |-> iss])
    ELSE LET g  == GetCCExpr(s, iss, a)
             tk == {w \in g.s.F : FlagOf(g.v[w]) \in i.cc}
             br == [g.s EXCEPT !.pc = Wrap(s.pc + i.imm), !.F = tk]
         IN CASE tk = g.s.F -> One([s |-> [g.s EXCEPT !.pc = Wrap(s.pc + i.imm)], iss |-> g.iss])
              [] tk = {}    -> One([s |-> g.s, iss |-> g.iss])
              [] OTHER      -> [res |-> << [Fork(g.s, uid) EXCEPT !.F = g.s.F \ tk], br >>,
                                iss |-> g.iss, n |-> 1]

(***************************************************************************)
(* Executor::step: fetch, record the fetched instruction, advance the PC,  *)
(* execute.  A fetch of a missing cell or of data breaks the state at the  *)
(* last executed instruction.  The result is the set of possible outcomes  *)
(* (more than one only where the build leaves the behaviour open).         *)
(***************************************************************************)
Exec(s, iss, i, a, uid) ==
    CASE i.op = "BR"  -> {ExecBR(s, iss, i, a, uid)}
      [] i.op = "LDR" -> {ExecLDR(s, iss, i, a, uid)}
      [] i.op = "LDI" -> {ExecLDI(s, iss, i, a, uid)}
      [] i.op = "STR" -> ExecSTR(s, iss, i, a, uid)
      [] i.op = "STI" -> {ExecSTI(s, iss, i, a, uid)}
      [] i.op \in {"ADD", "ADDi"} -> {One(ExecADD(s, iss, i, a))}
      [] i.op \in {"AND", "ANDi"} -> {One(ExecAND(s, iss, i, a))}
      [] i.op = "JMP"  -> {One(ExecJMP(s, iss, i, a))}
      [] i.op = "JSR"  -> {One(ExecJSR(s, iss, i, a))}
      [] i.op = "JSRR" -> {One(ExecJSRR(s, iss, i, a))}
      [] i.op = "LD"   -> {One(ExecLD(s, iss, i, a))}
      [] i.op = "LEA"  -> {One(ExecLEA(s, iss, i, a))}
      [] i.op = "NOT"  -> {One(ExecNOT(s, iss, i, a))}
      [] i.op = "ST"   -> {One(ExecST(s, iss, i, a))}
      [] i.op = "TRAP" -> {One(ExecTRAP(s, iss, i, a))}
      [] i.op = "RTI"  -> {One(r) : r \in ExecRTI(s, iss, i, a)}

Step(s, iss, uid) ==
    LET c == MemRead(s, s.pc)
    IN IF c.kind # "INST"
       THEN {One(NewStateIssue(s, iss, IF c.kind = "NULL" THEN "ERR_EXECUTE_UNINITIALIZED_MEMORY"
                                                          ELSE "ERR_EXECUTE_DATA_AS_INST", s.last))}
       ELSE Exec([s EXCEPT !.prev = s.last, !.last = s.pc, !.steps = @ + 1, !.pc = Wrap(s.pc + 1)],
                 iss, Prog[s.pc], s.pc, uid)

=============================================================================
