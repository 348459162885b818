# TLA+ models of klc3

klc3 is a symbolic-execution tester for LC-3 assembly programs. It loads a
program image, builds a flow graph, runs symbolic states one instruction at a
time, and reports issues and coverage. This directory holds TLA+ models of
the parts of klc3 that decide which states run, how each step treats them,
and what coverage they earn. It also holds the TLC configurations that check
those models.

## How the parts fit together

The driver (`tools/klc3/klc3.cpp`, `main`) does the following:

0. It **loads** the LC-3 OS, the input files, the gold programs (on a copy
   of the loader) and the test programs, in that order. Each file is
   assembled in two passes (`Lexer::load`). In pass 2 its `; KLC3:`
   comment commands run (`Lexer::parseComment`). They set data defaults,
   open input files, define issues and set their levels
   (`IssuePackage`), and add things to compare for an issue
   (`CrossChecker::registerThingToCompare`). All loaders share one
   `IssuePackage` and one `CrossChecker`, so commands of every file,
   the student's test programs included, configure the same issues and
   check lists.
1. It builds the **flow graph** (`FlowGraph.cpp`). This gives one node per
   instruction and the static edges. BR edges that a bounded backward
   condition-code analysis shows can never be taken are trimmed.
2. It colours the main code (`SubroutineTracker`).
3. It runs the **loop analysis** (`LoopAnalyzer.cpp`), which finds loops,
   subloops and their head-to-head (h2h) and head-to-exit (h2x) segments.
4. It chooses the **pruning searcher** when the analysis succeeds, and the
   **prioritized FILO searcher** otherwise.
5. It loops over searcher levels (level 1 reactivates postponed states). At
   each level it fetches a state and **steps** it (`Executor::step`), which
   can fork. For each result it then:
   - updates **coverage** (`CoverageTracker`);
   - updates the state's **call tracking** (`SubroutineTracker::updateColors`);
   - checks the step limit;
   - for a HALTED result, runs `postCheckState` and, when a gold program
     is given, the **cross check** (`CrossChecker.cpp`) against it;
   - pushes all results to the searcher;
   - releases the HALTED or BROKEN states that raised no new issue.

The gold program runs on its own `Executor`. Before the search it is
stepped from its entry until it halts or reaches a BR whose condition the
input decides (the warm-up). For each HALTED test state the driver either
compares the halted gold state once, under the test state's constraints,
or forks the warmed-up gold state, gives it the test state's constraints
and runs a FILO searcher over it to the end, comparing every gold state
that halts. Each compare walks the check lists. A mismatch raises the
list's issue on the test state, and narrows the shared `finalConstraints`
to the inputs where the values differ. A non-empty compare stores the
result in `finalConstraintSets[testState]`, from which the test case for
the issue is generated after the search.

| Module | Models | State / operations |
|---|---|---|
| `LC3` | the loaded image; the instruction decoder of `MemoryValue.h` / `MemoryValue.cpp` | `Prog` constant; `INST_DEF` (the mask/match table), `MatchInst` (the first entry that fits), the field getters, `DecodeInst` |
| `FlowGraph` | `FlowGraph.cpp`, `FlowGraph.h`, `FlowGraphBasic.h` | static and jump edges, CC trimming (`EdgeCoverageCC` one level up, `CoverageCCTable` to the depth bound, `IsLikelyUncoverable`), guiding edges, `Compress` / `ReconstructedFullPath`, `GetOnEdge`, `GetJustCoveredEdge` |
| `Executor` | `Executor.cpp`, `MemoryManager.cpp`, `State.cpp`, issue levels | `Step(s, iss, uid)`: one call of `Executor::step` returning its result vector; one operator per instruction handler, `MemReadData` / `MemWriteData`, `ForkOnRange`, `ExecBR`; issues as `IssueKey(type, loc)` (the key `IssueLocationLess` orders), raised by `RaiseIssue` at the level `GetIssueLevel` reads from the constant `Levels` (the package's levels once loading is done), on a state by `NewStateIssue` |
| `PossibleValues` | `evalPossibleValuesWithCache` / `evalPossibleValues` / `evalPossibleValuesInRange` | recursive operators: bit, min and max binary searches, range bisection, count bound, cache fill and filter |
| `CoverageTracker` | `CoverageTracker.cpp` | `UpdateGraphAndCoverage`; the edges `prepareEdgeToPCNode` adds for jumps are `FlowGraph.JumpEdge` |
| `SubroutineTracker` | `SubroutineTracker::updateColors` | `UpdateColors(s, iss)`: the colour stack `cs`, the JSR stack `js` and `messed` (`stackHasMessedUp`) of a state through calls, proper and improper returns, and RETs in the main code |
| `LoopAnalyzer` | `LoopAnalyzer.cpp` | `SCC`, `AnalyzeLoops` / `AnalyzeLoopDFS` (the recursive DFS, one operator per branch of its body) |
| `PrioritizedFILO` | `Searcher.h` | `FiloPush`, `FiloFetch`, `EraseCompleted`; `SimpleFiloPush` / `SimpleFiloFetch` for the simple FILO searcher |
| `PruningSearcher` | `PruningSearcher.cpp` | `PrunePush` (loop exit, loop entry, h2h test, postponement) and `PruneFetch` (inner searcher first, then a random postponed state at level 1) |
| `KLC3` | the driver loop of `klc3.cpp` | variables `st` (allocated states by uid), `P` (the searcher), `cov` (covered edges), `iss` (raised issues), `level`, `phase`, `timedOut`, `searcherType` (the `--searcher` option, chosen at `Init` from `SearcherTypes`); `InitState` is `createInitState` then `setupInitState`; `gold` (the warmed-up gold state); `CheckResult` is the limit checks of a NORMAL result, and `postCheckState` then the cross check of a HALTED one; actions `Iterate` (one iteration of the inner loop), `LevelDone`, `TimeLimit` |
| `CrossChecker` | `CrossChecker.cpp`, the gold replay of `klc3.cpp` | `Gold` is `Executor` instantiated over the gold image (`GoldProg`, `GoldInitPC`); `ExprMustEq` (`exprMustEq`, narrowing `F`), `CompareThing` (`compareRegisters`, `compareMem`, `compareLastInst`, `outputDiverge`), `CompareItem` / `Compare` (`compare`: the issue on the test state, and the issue info's differences and gold state in the state's `xinfo`), `Compared` (`finalConstraintSets`, the state's `fin`), `GoldWarmUp`, `GoldSearch`, `CrossCheck` |
| `Assembler` | the two-pass assembler of `Lexer.cpp` and the memory writers of `Loader.cpp` | variable `lx` (`curPass`, `curLine`, `curAddr` as an int, `sawORIG`, `sawEND`, `errCount`, `lc3Symbols`, `lc3LabelStrings`, the written memory, `fileStartAddr`, the result of `load`); a source line is what the scanner hands the callbacks (label, opcode, operand format, operands); `LexLine` is the scanner's dispatch (`FoundLabel`, `GenerateInstruction` with `Orig`, `ReadVal`, `FindLabel`, `Encode`, `WriteCells` = `addMemValue`, `WriteSTRINGZ`, `WriteBLKW`); actions `Lex` (one line), `FailPass1`, `StartPass2`, `FailPass2`, `Loaded` |
| `LoaderCommands` | `parseComment`, `parseIssueCommand`, `parsePostCheckCommand` of `Loader.cpp`; `IssuePackage`'s names, levels, `registerIssue`, `getIssueByName`, `setIssueTypeLevel`; `CrossChecker::checkLists`, `registerThingToCompare`, `deleteDefaultOutputCompare`; `Lexer::load`'s per-file reset and `initPC`; the load order of `klc3.cpp` | operators over one loading record `[pkg, chk, cc, ld, lx, out, stop]`: the package, the check lists, whether a `CrossChecker` exists, the loader being fed (`initPC`, `inputFiles`), the file's Lexer (data defaults, the input file being loaded, `fileStartAddr`), and `out` = ok / exit (`progExit`) / crash. `ParseCommand` is one round of `parseComment`'s loop; `LoadFile`, `LoadFiles`, `LoadAll` (the driver: input files, a copy of the loader for gold files, test files); `CheckListSeq` is the map in key order, as `compare` walks it. A command is a record of the fields the parser extracts |
| `MCKLC3`, `MCLoopAnalyzer`, `MCPossibleValues` | model-checking harnesses | programs, bounds, reference definitions |

`MCKLC3` writes its programs as rows of decoded fields (`Inst`, `Halt`, `Decode`),
with signed immediates; every use of an immediate wraps it to 16 bits, so a
row behaves as the decoded word would. The decoder itself is checked in
`MCLoopAnalyzer`, which composes three stages: a listing is written as
assembly source (`SourceOf`), assembled by `Assembler` in two passes,
loaded through `DecodeInst` (`Load`, as `Lexer::writeInst` does) and
analysed by `LoopAnalyzer`. `LoadedAsAssembled` requires each decoded cell
to carry its row's fields. `RefValid` and `RefAddr` say, independently of
the two passes, which sources are valid and where each line's words go;
`LoadIffValid` and `ImageMatchesLayout` compare the Lexer with them.
`MCLoopAnalyzer` has a second path from `Init`. It chooses a command script
(`script`), and its action `RunCommands` loads it with `LoaderCommands.LoadAll`
(`loaded`). The model then states, through its own reading of the commands (`ScriptCmds`,
`CommandedThings`, `CommandedLevel`), what a completed load must leave
(`LoadedAsCommanded`). `MCKLC3` does not write its check lists and levels
as it pleases: it writes out what the loader produces for its command
scripts (`CountScript`, `MaskScript`), and `ASSUME`s that
`LoaderCommands.LoadAll` on each script completes and gives exactly those
check lists and levels. The written-out values are what the driver gets as
`CheckLists` and `Levels`, so TLC does not rerun the loader at each
lookup. The other KLC3 configurations, which have no gold
program, take the initial levels (`DefaultLevels`).
The decoder is not applied to `MCKLC3`'s images
because its constant table would be expanded at every use of the program.

**Data abstraction.** klc3 has one symbolic input per program in the checked
images. A *world* is one value of that input. An expression is the function
from worlds to 16-bit words, and a state's constraint set is the set `F` of
worlds it still admits. Solver queries are then exact: valid means "true in
every world of F", and satisfiable means "true in some world of F". A null
`ref<Expr>` (an uninitialised register) is `UninitExpr`.

An action models a whole handler. For example, `Iterate` covers all of the
following, in the code's order:
- fetch;
- step;
- the coverage update over every result;
- limit checks;
- push;
- early release.

Where C++ leaves the outcome open, the model takes every outcome:
- the evaluation order of `executeSTR`'s two `getReg` arguments;
- the level `getIssueLevel` returns for an unknown type once assertions are
  off;
- the random choice of a postponed state.

## Runs

| Run | cfg | Expect | What it shows |
|---|---|---|---|
| klc3_pruning | `MCKLC3.cfg` | pass | Pruning searcher with reactivation on a program with two loops and a trimmed branch. Every allocated state sits in exactly one searcher container (`StatesConserved`), forks partition the worlds (`ForkPartition`), no trimmed edge is covered, the searcher's loop bookkeeping matches the analysis (`SegmentsMatch`), every HALTED state is cross-checked through a search of the gold program `GoldCount`, and the search ends (`Termination`). |
| klc3_filo | `MCKLC3Filo.cfg` | pass | FILO searcher on a program that loads through a symbolic index (`forkOnRange`), stores and reloads an uninitialised register, and calls a subroutine. Depending on the input, the subroutine returns properly, or one instruction late (an improper RET, after which the state spins until the step limit), and the main code then halts or executes a RET. The colour and JSR stacks of every unmessed state describe the same pending calls (`CallStackConsistent`), and `ERR_RET_IN_MAIN_CODE` is raised only at a RET of the main code (`RetErrorOnlyInMain`). A halt reached inside the subroutine raises `WARN_HALT_IN_SUBROUTINE` in `postCheckState`. The run's input file sets `WARN_IMPROPER_RET` to NONE, so the improper RET is not recorded (`raiseIssue`'s NONE branch). Every HALTED state is cross-checked against `GoldMask`: each kept report is reproduced (`ReportReproduced`) and no cross check crashes klc3 (`NoCrash`). The run takes both the simple and the prioritized FILO searcher. |
| loop_analysis | `MCLoopAnalyzer.cfg` | pass | Every 3-cell program without self-loops is written as source at x3000 and at x7FFE, and fourteen further sources (`ExtraSources`) carry data directives and one defect each. All go through the two-pass Lexer, the decoder and the loop analysis. The load succeeds exactly on valid sources (`LoadIffValid`: duplicate and unknown labels, labels or instructions before `.ORIG`, no `.END`, bad formats, immediates and branch distances one past their limits). A loaded image has each line's words where pass 1 counted them, its labels on their cells and every label operand resolving to its label (`ImageMatchesLayout`). Every decoded cell has its row's fields (`LoadedAsAssembled`). The analysis returns, and every segment reconstructs into a walk of its loop. Repeated with a segment limit of 0 to 3, the analysis fails exactly when the full one records more segments, publishes no loop then, and reports L + 1 (`SegmentLimitExact`), which is what the driver's fallback to the FILO searcher relies on. Every script of up to three `; KLC3:` command lines over an input file (no `.ORIG`), a gold file and a test file, with and without a gold file, is loaded by `LoaderCommands.LoadAll`. When the load completes, each issue has the level its last DEFINE or SET_LEVEL gave. With a gold program, the check lists are exactly those the CHECK commands name, in command order. The default output compare is dropped by `SET_LEVEL ERR_INCORRECT_OUTPUT NONE`, and a later CHECK for that issue starts its list again. The lists are walked in issue-type order (`LoadedAsCommanded`). |
| possible_values | `MCPossibleValues.cfg` | pass | The enumeration finds exactly the sorted value set of a 16-bit expression. The count bound fails exactly when it is exceeded. The cache gives the exact answer under narrowed constraints. |
| sticky_new_edge_flag | `MCKLC3Sticky.cfg` | violation | `coveredNewEdge` is never cleared. |
| postponed_dropped | `MCKLC3Postponed.cfg` | violation | Postponed states are dropped once every loop is covered. |
| rti_crash | `MCKLC3RTI.cfg` | violation | RTI makes `getIssueLevel` assert. |
| sti_uninit_mcr_crash | `MCKLC3StoreUninitMCR.cfg` | violation | An uninitialised register stored to the MCR is dereferenced. |
| time_limit_continues | `MCKLC3TimeLimit.cfg` | violation | The next searcher level runs after "Terminating...". |
| instant_halt_path_order | `MCKLC3PathRoundTrip.cfg` | violation | For INSTANT_HALT, statePath records the halt edge before the edge into the trap. |
| loop_analysis_self_loop | `MCLoopAnalyzerSelf.cfg` | violation | A self-loop BR makes `analyzeLoopDFS` recurse forever. |
| loop_analysis_two_entries | `MCLoopAnalyzerTwoEntry.cfg` | violation | A loop with two entries makes `analyzeLoopDFS` recurse forever. |

klc3_filo checks `ReportReproduced`. Every input the test case of a
cross-check issue may be drawn from must lie within the constraints of
the gold state the issue recorded, and must make each register, address
and last instruction the report names differ from that gold state.
klc3_pruning does not check it. There every HALTED test state admits a
single input, so the gold program cannot fork under it and the property
would hold by construction. That run still cross-checks: `GoldCount`
stops its warm-up at a BR, so every HALTED test state of `TwoLoops` runs
a gold search, comparing R1 and N (an error-level issue, which breaks
the test state) and the last instruction (a warning).

klc3_filo uses `GoldMask` against `Table`, with inputs 0..7. It halts in
its warm-up, so each test state is compared once under constraints
admitting two inputs. There `exprMustEq` narrows the constraints, and
the second check list runs under the first one's narrowing. That list
also compares the table (addresses 15..18) through `compareMem`.
klc3_filo also checks `NoCrash`: no warm-up, gold search or compare
aborts klc3. `compareMem` dereferences the cell of every address in the
range, and an address loaded in only one image crashes. The mutant
that runs the range one address too far reaches such an address.

Inside the `Gold` instance, the modules test whether an address is loaded
through `DOMAIN Prog`, or through `IsInstAt`, which is defined with it. They
never use the zero-argument definitions `Addrs` and `Nodes` for this. TLC
computes constant definitions once, from the test image, and would not
redo them under the `Prog <- GoldProg` substitution.

Each property of a passing run has a mutant in `PROJECT.json`: a plausible
bug in a mapped definition that TLC then catches. Examples:
- the continuing BR fork keeps both outcomes' worlds;
- the early release skips `eraseCompletedStates`;
- `exprMustEq` never adds the "not equal" constraint;
- the gold search keeps the gold state's own constraints;
- the direct-Eq loop stops one value early.

## Bounds and why they suffice

- **MCKLC3.**
  - The input takes 4 values. That is enough for every branch outcome of the
    programs (zero, one, and more than one loop iteration), and for four
    table slots.
  - The three programs together exercise every instruction handler modelled
    except JSRR.
  - The `Table` program's four inputs take the three call outcomes
    (proper return, improper return, proper return followed by a RET in the
    main code) besides the halt.
  - `MaxDepth` bounds the CC analysis as the code's depth of 10 does.
  - klc3_filo takes 8 inputs, so that each HALTED state of `Table` admits
    two inputs. One of them agrees with the gold program and the other
    does not, which is the case where `exprMustEq` narrows.
- **MCLoopAnalyzer.**
  - It takes all programs of 3 cells over straight-line instructions of every
    format with immediates at the ends of their ranges, an INSTANT_HALT,
    and BRs to every cell. This includes nested loops, loops with several
    exits, and unreachable code.
  - Origins x3000 and x7FFE: the second puts the third cell at x8000, so
    layout and branch offsets cross the sign boundary of the address.
  - `ExtraSources` take each check of the Lexer on both sides of its limit:
    a branch 255 words forward and 256 back (valid) against 256 and 257
    (invalid), `ADD #31` (read as -1) against `#32`, one label twice,
    and a second `.ORIG` (reported, not an error).
  - Segment limits 0 to 3: the checked programs record from none to more
    than three segments, so every limit is met, reached and passed.
  - The recursion bound `2 * ProgLen + 1` is larger than any returning DFS
    (one frame per node of a path and one per loop entry). A DFS that
    passes it does not return.
- **MCPossibleValues.**
  - Value sets are the non-empty subsets of {0, 1, 2, 3, 4, 5, 32768, 65535}
    at width 16. They cover dense runs (the direct-Eq branch of at most four
    values and the bisection), both ends of the range, and bit counts 0 to 16.
  - Narrowing is a sequence of `AddConstraint` steps.
  - Count bounds are -1, 1, 2 and 3.
- **Command scripts (`LoadedAsCommanded`).**
  - Twelve command lines: DEFINE of an error and a warning (the second
    followed by a CHECK of it on the same line); SET_LEVEL of a user issue
    (which exits), of a warning by its renamed name `WARN_DUPLICATE_COLOR`,
    of an error-only type to WARNING (which exits), and of a warning to
    ERROR; the output-compare removal; CHECKs of a register range, of an
    inverted range (which exits), of memory for `ERR_INCORRECT_OUTPUT` and
    of the last instruction; and INPUT_FILE, COMMENT and a CHECK hidden in
    the comment.
  - Up to three lines, in any order across the three files, give 25,550
    scripts; 5,269 of them load. These include a CHECK before and after
    the removal, a level set twice, commands from a test file overriding
    a gold file's, and every exit on its own. Four lines would give a set
    of 1.7 million scripts, beyond what TLC enumerates.

## Fairness

`KLC3.Fairness` is weak fairness of `Iterate`, and of `LevelDone`. The driver
is one sequential loop: while a state is fetchable it steps it, and a level
ends when the fetch returns nothing. No other thread competes, so every
enabled iteration happens. The alarm (`TimeLimit`) gets no fairness, because
the time limit need not be reached.

## Not modelled

These are pure I/O, or are abstracted by worlds:
- the loader's SYMBOLIC constraint lines, symbolic and input variables,
  the data lines that consume the data default flags, DUMP_GOLD (report
  only), descriptions and hints beyond whether one is set, string escapes, and the flex scanner's tokenising
  (the scanner is not in the repository; `Assembler` starts from its
  tokens);
- in the cross check: the text of notes and descriptions
  (`generateIssueDesc`), the output comparison beyond empty output (no
  modelled state writes output), and the time and interrupt checks inside
  the gold loop. A gold search is one recursive operator, so a gold program
  that never halts cannot be checked; the gold programs checked halt;
- report and test generation;
- the visualizer;
- the KLEE expression library.

The following are not modelled; the checked programs do not reach them,
or they only feed reports:
- OS trap routines;
- the node colouring `updateColors` ends with, its bookkeeping for a JSRR
  target met for the first time, and `checkDuplicateColors`;
- the pruning searcher on programs with calls. `KLC3` assumes that the
  main code of a pruning run has no JSR or JSRR; the pruning run's program
  has none.

Two details of `updateColors` are modelled as written:
- an improper RET pushes the top colour again, although the comment says
  the stack is restored;
- the return check compares in `int`, so a return to x0000 never matches a
  call at xFFFF.

Neither is observable once the stack is marked messed up, or in the
checked programs.

**An origin of x8000 or above.** `readVal` turns such an `.ORIG` operand
into a negative `curAddr`. A label on the first line is recorded at that
negative address, and later labels at wrapped 16-bit ones. A branch back
to the first line is then measured across 2^16 and rejected. With
`Origins = {32768}`, TLC finds `LoadIffValid` violated on `L0 TRAP x21 /
BR L0`. The checked origins stay below x8000, and the disagreement is
listed as a hazard in `PROJECT.json`.

**finalConstraintSets overwritten by a forking gold program.** A gold
program can fork under a test state's constraints. Then every gold state
whose compare is non-empty overwrites `finalConstraintSets[testState]`,
while the issue keeps the gold state that first raised it. The test case
is drawn from the last gold state's inputs, which do not overlap that
gold state's. Take a gold program that branches on bit 2 of the input,
with a last-instruction check, against `Table` with inputs 0..7. TLC then
finds `ReportReproduced` violated: the issue records the gold state for
x = 3 and the test case uses x = 7. Every run slot is taken, so this
disagreement is listed as a hazard in `PROJECT.json`.

**Loader commands.** These disagreements were met while modelling
`LoaderCommands`. Each is listed as a hazard in `PROJECT.json`, because
no run slot is free:
- `ISSUE SET_LEVEL ERR_INCORRECT_OUTPUT NONE` calls
  `crossChecker->deleteDefaultOutputCompare()` with no null check.
  Without a gold program the pointer is null, and `LoadAll` gives "crash".
  `CHECK` makes that check and only warns.
- `SET_LEVEL` of a DEFINE'd issue finds it by name, then exits in
  `setIssueTypeLevel`'s default branch ("Unknown issue for SET_LEVEL").
- A file with commands and no `.ORIG` sets `initPC`, and any INPUT_FILE's
  start, from the uninitialised `fileStartAddr` of its fresh Lexer
  (`UNDEF` in the model).
- Data lines without a `;` comment ignore `SET_DATA_DEFAULT_FLAG`.
- Test programs, which are student code, are loaded with the extension
  on and share the package and checker, so they can change issue levels
  and check lists.

See `PROJECT.json` "components" for the details.
