--------------------------- MODULE LoaderCommands ---------------------------
(***************************************************************************)
(* The "; KLC3: ..." commands of the assembly files (Loader.cpp           *)
(* parseComment, parseIssueCommand, parsePostCheckCommand), the issue     *)
(* package they configure (IssuePackage) and the cross checker's check    *)
(* lists (CrossChecker), loaded in the order klc3.cpp's driver loads the  *)
(* input, gold and test files.                                           *)
(*                                                                         *)
(* A command is a record whose field c names it; its text is abstracted   *)
(* to the fields the parser extracts (a description or a hint is only     *)
(* present or absent).  A file is [orig, start, lines]: whether it has an *)
(* .ORIG and its address, and its KLC3 comment lines, each a sequence of  *)
(* commands.  Everything is an operator over a loading record            *)
(*   [pkg, chk, cc, ld, lx, out, stop]                                    *)
(* : the issue package, the check lists, whether a CrossChecker exists,   *)
(* the loader being fed, the current file's Lexer, and whether loading    *)
(* goes on ("ok"), has called progExit ("exit") or has crashed.           *)
(***************************************************************************)
EXTENDS Naturals, Sequences, FiniteSets, TLC

LOCAL SQ == INSTANCE SequencesExt

\* Issue::Type up to PRE_DEFINED_ISSUE_COUNT, in enum order (the
\* RUNTIME_ISSUE_COUNT marker left out: it is never a type).
IssueTypeOrder ==
    << "NO_ISSUE", "WARN_COMPILE", "WARN_POSSIBLE_WILD_READ",
       "WARN_READ_UNINITIALIZED_MEMORY", "WARN_POSSIBLE_WILD_WRITE",
       "WARN_WRITE_READ_ONLY_DATA", "WARN_READ_INST_AS_DATA",
       "WARN_USE_UNINITIALIZED_REGISTER", "WARN_USE_UNINITIALIZED_CC",
       "WARN_MANUAL_HALT", "WARN_IMPROPER_RET", "WARN_REUSE_CODE_ACROSS_SUBROUTINES",
       "WARN_HALT_IN_SUBROUTINE", "ERR_COMPILE", "ERR_INVALID_INST",
       "ERR_EXECUTE_DATA_AS_INST", "ERR_OVERWRITE_INST", "ERR_SYMBOLIC_PC",
       "ERR_EXECUTE_UNINITIALIZED_MEMORY", "ERR_RET_IN_MAIN_CODE",
       "ERR_STATE_REACH_STEP_LIMIT", "ERR_STATE_REACH_OUTPUT_LIMIT",
       "ERR_STATE_REACH_QUERY_LIMIT", "ERR_INCORRECT_OUTPUT" >>

PreDefinedIssueCount == 25

\* A user-defined issue takes the type number definedIssueCount.
UserType(n) == "ISSUE_" \o ToString(n)

\* IssuePackage::issueLevel as initialised (no entry for NO_ISSUE and
\* ERR_INVALID_INST).
DefaultIssueLevel ==
    [t \in {"WARN_COMPILE", "WARN_POSSIBLE_WILD_READ", "WARN_READ_UNINITIALIZED_MEMORY",
            "WARN_USE_UNINITIALIZED_REGISTER", "WARN_USE_UNINITIALIZED_CC",
            "WARN_READ_INST_AS_DATA", "WARN_POSSIBLE_WILD_WRITE",
            "WARN_WRITE_READ_ONLY_DATA", "WARN_MANUAL_HALT", "WARN_IMPROPER_RET",
            "WARN_REUSE_CODE_ACROSS_SUBROUTINES", "WARN_HALT_IN_SUBROUTINE"} |-> "WARNING"]
    @@ [t \in {"ERR_COMPILE", "ERR_EXECUTE_DATA_AS_INST", "ERR_OVERWRITE_INST",
               "ERR_SYMBOLIC_PC", "ERR_EXECUTE_UNINITIALIZED_MEMORY", "ERR_RET_IN_MAIN_CODE",
               "ERR_STATE_REACH_STEP_LIMIT", "ERR_STATE_REACH_OUTPUT_LIMIT",
               "ERR_STATE_REACH_QUERY_LIMIT", "ERR_INCORRECT_OUTPUT"} |-> "ERROR"]

\* IssuePackage::issueName as initialised: the same types, each named after
\* itself except WARN_REUSE_CODE_ACROSS_SUBROUTINES.
IssueName ==
    [t \in DOMAIN DefaultIssueLevel |->
        IF t = "WARN_REUSE_CODE_ACROSS_SUBROUTINES" THEN "WARN_DUPLICATE_COLOR" ELSE t]

IssueLevels == {"ERROR", "WARNING", "NONE"}

InitIssuePackage ==
    [level |-> DefaultIssueLevel, name |-> IssueName, desc |-> {}, hint |-> {},
     count |-> PreDefinedIssueCount]

\* IssuePackage::getIssueByName: the type carrying the name, else NO_ISSUE.
GetIssueByName(pkg, n) ==
    IF \E t \in DOMAIN pkg.name : pkg.name[t] = n
    THEN CHOOSE t \in DOMAIN pkg.name : pkg.name[t] = n
    ELSE "NO_ISSUE"

\* IssuePackage::registerIssue: the next type number gets the name and level.
RegisterIssue(pkg, n, lv) ==
    LET t == UserType(pkg.count)
    IN  [pkg EXCEPT !.count = @ + 1, !.name = (t :> n) @@ @, !.level = (t :> lv) @@ @]

\* The types IssuePackage::setIssueTypeLevel accepts at any level, and those
\* it accepts only at ERROR; it exits on every other type.
AnyLevelIssueTypes ==
    {"WARN_POSSIBLE_WILD_READ", "WARN_READ_UNINITIALIZED_MEMORY",
     "WARN_USE_UNINITIALIZED_REGISTER", "WARN_USE_UNINITIALIZED_CC",
     "WARN_READ_INST_AS_DATA", "WARN_POSSIBLE_WILD_WRITE", "WARN_WRITE_READ_ONLY_DATA",
     "WARN_MANUAL_HALT", "WARN_IMPROPER_RET", "WARN_REUSE_CODE_ACROSS_SUBROUTINES",
     "WARN_HALT_IN_SUBROUTINE", "ERR_RET_IN_MAIN_CODE"}

ErrorOnlyIssueTypes ==
    {"ERR_COMPILE", "ERR_INVALID_INST", "ERR_EXECUTE_DATA_AS_INST", "ERR_OVERWRITE_INST",
     "ERR_SYMBOLIC_PC", "ERR_EXECUTE_UNINITIALIZED_MEMORY", "ERR_STATE_REACH_STEP_LIMIT",
     "ERR_STATE_REACH_OUTPUT_LIMIT", "ERR_STATE_REACH_QUERY_LIMIT", "ERR_INCORRECT_OUTPUT"}

Exit(r) == [r EXCEPT !.out = "exit"]

SetIssueTypeLevel(r, t, lv) ==
    IF \/ t \in AnyLevelIssueTypes
       \/ t \in ErrorOnlyIssueTypes /\ lv = "ERROR"
    THEN [r EXCEPT !.pkg.level = (t :> lv) @@ @]
    ELSE Exit(r)

(***************************************************************************)
(* CrossChecker::checkLists: a std::map from issue type to the things to  *)
(* compare, in registration order.  A thing is [kind, from, to].          *)
(***************************************************************************)
Thing(kind, from, to) == [kind |-> kind, from |-> from, to |-> to]

DefaultCheckLists == "ERR_INCORRECT_OUTPUT" :> << Thing("OUTPUT", 0, 0) >>

\* Mutant: a new thing goes to the front of its issue's list.
RegisterThingToCompareFront(chk, t, th) ==
    IF t \in DOMAIN chk THEN [chk EXCEPT ![t] = << th >> \o @]
    ELSE (t :> << th >>) @@ chk

RegisterThingToCompare(chk, t, th) ==
    IF t \in DOMAIN chk THEN [chk EXCEPT ![t] = Append(@, th)]
    ELSE (t :> << th >>) @@ chk

DeleteDefaultOutputCompare(chk) ==
    [t \in DOMAIN chk \ {"ERR_INCORRECT_OUTPUT"} |-> chk[t]]

\* The std::map order of issue types: the enum order, user types after.
IssueRank(t) ==
    IF \E i \in DOMAIN IssueTypeOrder : IssueTypeOrder[i] = t
    THEN CHOOSE i \in DOMAIN IssueTypeOrder : IssueTypeOrder[i] = t
    ELSE CHOOSE n \in PreDefinedIssueCount .. PreDefinedIssueCount + 100 : UserType(n) = t

\* The check lists as CrossChecker::compare walks them: one item per
\* issue, by type, at the issue's level.
CheckListSeq(pkg, chk) ==
    LET ts == SQ!SetToSortSeq(DOMAIN chk, LAMBDA a, b : IssueRank(a) < IssueRank(b))
    IN  [i \in DOMAIN ts |-> [type |-> ts[i], lv |-> pkg.level[ts[i]], things |-> chk[ts[i]]]]

(***************************************************************************)
(* Lexer::parseIssueCommand.  "SET_LEVEL ERR_INCORRECT_OUTPUT NONE" is    *)
(* matched first and dereferences the crossChecker pointer, which is null *)
(* when no gold program is given.                                         *)
(***************************************************************************)
ParseIssueCommand(r, c) ==
    LET t == GetIssueByName(r.pkg, c.name)
    IN  CASE c.c = "OUTPUT_NONE" ->
               IF r.cc THEN [r EXCEPT !.chk = DeleteDefaultOutputCompare(@)]
               ELSE [r EXCEPT !.out = "crash"]
          [] c.c = "DEFINE" ->
               IF c.lv \notin {"ERROR", "WARNING"} \/ t # "NO_ISSUE" THEN Exit(r)
               ELSE LET u == UserType(r.pkg.count)
                    IN  [r EXCEPT !.pkg = LET p == RegisterIssue(@, c.name, c.lv)
                                          IN  [p EXCEPT !.desc = @ \cup {u},
                                                        !.hint = IF c.hint THEN @ \cup {u} ELSE @]]
          [] c.c = "SET_LEVEL" ->
               IF t = "NO_ISSUE" \/ c.lv \notin IssueLevels THEN Exit(r)
               ELSE SetIssueTypeLevel(r, t, c.lv)
          [] c.c = "SET_DESCRIPTION" ->
               IF t = "NO_ISSUE" THEN Exit(r) ELSE [r EXCEPT !.pkg.desc = @ \cup {t}]
          [] c.c = "SET_HINT" ->
               IF t = "NO_ISSUE" THEN Exit(r) ELSE [r EXCEPT !.pkg.hint = @ \cup {t}]

\* Lexer::parsePostCheckCommand: the range must be well formed and the issue
\* known; the thing is registered only if a CrossChecker exists (otherwise
\* the command is only warned about).  DUMP_GOLD only affects the report.
ValidRange(c) ==
    CASE c.kind \in {"OUTPUT", "LAST_INST"} -> TRUE
      [] c.kind = "REG" -> c.from \in 0 .. 7 /\ c.to \in c.from .. 7
      [] c.kind = "MEM" -> c.to >= c.from

ParsePostCheckCommand(r, c) ==
    LET t == GetIssueByName(r.pkg, c.name)
    IN  IF ~ValidRange(c) \/ t = "NO_ISSUE" THEN Exit(r)
        ELSE IF r.cc THEN [r EXCEPT !.chk = RegisterThingToCompare(@, t, Thing(c.kind, c.from, c.to))]
        ELSE r

IssueCommands == {"OUTPUT_NONE", "DEFINE", "SET_LEVEL", "SET_DESCRIPTION", "SET_HINT"}

\* One round of Lexer::parseComment's loop in pass 2; allow is
\* allowInputFile.  COMMENT takes the rest of the line (stop).  Any other
\* text is an unknown command.
ParseCommand(r, c, allow) ==
    CASE c.c = "DEFAULT_RO" -> [r EXCEPT !.lx.ro = TRUE]
      [] c.c = "DEFAULT_UNINIT" -> [r EXCEPT !.lx.uninit = TRUE]
      [] c.c = "INPUT_FILE" ->
           IF ~allow THEN Exit(r)
           ELSE [r EXCEPT !.ld.inputFiles = Append(@, [start |-> r.lx.start, comments |-> 0]),
                          !.lx.loading = Len(r.ld.inputFiles) + 1]
      [] c.c = "COMMENT" ->
           IF r.lx.loading = 0 THEN Exit(r)
           ELSE [r EXCEPT !.ld.inputFiles[r.lx.loading].comments = @ + 1, !.stop = TRUE]
      [] c.c \in IssueCommands -> ParseIssueCommand(r, c)
      [] c.c = "CHECK" -> ParsePostCheckCommand(r, c)
      [] OTHER -> Exit(r)

\* Lexer::parseComment on one "; KLC3: " comment: its commands in order
\* until the line is consumed or loading stops.
ParseComment(r, line, allow) ==
    LET step(a, c) == IF a.out # "ok" \/ a.stop THEN a ELSE ParseCommand(a, c, allow)
    IN  [SQ!FoldLeft(step, r, line) EXCEPT !.stop = FALSE]

(***************************************************************************)
(* Lexer::load on a file that assembles: a fresh Lexer with the data      *)
(* defaults off and no input file loading; pass 1 only notes that KLC3    *)
(* commands exist, pass 2 runs them line by line, and initPC becomes      *)
(* fileStartAddr.  fileStartAddr is set only by .ORIG; in a file with     *)
(* commands and no .ORIG it is never written ("UNDEF": the uninitialised  *)
(* member, any word).                                                    *)
(***************************************************************************)
LoadFile(r, f, allow) ==
    LET start == IF f.orig THEN f.start ELSE "UNDEF"
        r1 == [r EXCEPT !.lx = [ro |-> FALSE, uninit |-> FALSE, loading |-> 0, start |-> start]]
        r2 == SQ!FoldLeft(LAMBDA a, line : IF a.out = "ok" THEN ParseComment(a, line, allow) ELSE a,
                          r1, f.lines)
    IN  IF r2.out = "ok" THEN [r2 EXCEPT !.ld.initPC = start] ELSE r2

LoadFiles(r, files, allow) ==
    SQ!FoldLeft(LAMBDA a, f : IF a.out = "ok" THEN LoadFile(a, f, allow) ELSE a, r, files)

(***************************************************************************)
(* klc3.cpp's main: one IssuePackage, a CrossChecker only when gold       *)
(* programs are given, the loader (LC3 OS loaded, initPC x0200), the      *)
(* input files (INPUT_FILE allowed), a copy of the loader fed the gold    *)
(* files, and the first loader fed the test programs; package and checker *)
(* are shared by all.  A script is [input, gold, test], three sequences   *)
(* of files.                                                              *)
(***************************************************************************)
InitLoader == [initPC |-> 512, inputFiles |-> << >>]

LoadAll(sc) ==
    LET cc == sc.gold # << >>
        r0 == [pkg |-> InitIssuePackage, chk |-> DefaultCheckLists, cc |-> cc,
               ld |-> InitLoader, lx |-> [ro |-> FALSE, uninit |-> FALSE, loading |-> 0, start |-> "UNDEF"],
               out |-> "ok", stop |-> FALSE]
        ri == LoadFiles(r0, sc.input, TRUE)
        rg == IF cc THEN LoadFiles(ri, sc.gold, FALSE) ELSE ri
        rt == LoadFiles([rg EXCEPT !.ld = ri.ld], sc.test, FALSE)
    IN  IF \/ sc.input = << >> /\ sc.test = << >>
           \/ cc /\ sc.test = << >>
        THEN [r0 EXCEPT !.out = "exit"]
        ELSE [out |-> rt.out, pkg |-> rt.pkg, chk |-> rt.chk, cc |-> cc,
              gold |-> rg.ld, test |-> rt.ld]

====
