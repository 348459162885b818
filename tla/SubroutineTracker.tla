-------------------------- MODULE SubroutineTracker --------------------------
(***************************************************************************)
(* SubroutineTracker::updateColors (FlowAnalysis/SubroutineTracker.cpp),   *)
(* which the driver runs on every result of a step after the coverage      *)
(* update.  A state record carries the colour stack cs (colorStack: the    *)
(* entry address of the main code, then of each subroutine entered), the   *)
(* JSR stack js (jsrStack: the JSR or JSRR node of each pending call) and   *)
(* messed (stackHasMessedUp).  A call pushes both stacks; a RET to the     *)
(* instruction after the pending call pops both; a RET elsewhere, or one   *)
(* in the main code, raises an issue and marks the stack messed up, after  *)
(* which returns are ignored (calls still push).                           *)
(*                                                                         *)
(* Not modelled: the colouring of the flow graph from the PC node the      *)
(* function ends with, and the subroutine bookkeeping of a JSRR target     *)
(* met for the first time (the modelled programs have no JSRR).  The node  *)
(* colours these set are read by the "Color inconsistent" assertion and by *)
(* checkDuplicateColors after the search, neither of which is modelled.   *)
(***************************************************************************)
EXTENDS Executor

\* A call: the colour of the entered subroutine is its entry address, the
\* PC after the JSR/JSRR.
PushCall(s) == [s EXCEPT !.cs = Append(@, s.pc), !.js = Append(@, s.last)]

\* Mutant: the proper return pops the colour stack but not the JSR stack.
ProperRetNoJsrPop(s) == [s EXCEPT !.cs = SX!Front(@)]

\* The return to the instruction after the pending call.
ProperRet(s) == [s EXCEPT !.cs = SX!Front(@), !.js = SX!Front(@)]

\* A RET with at least two colours on the stack.  The improper return
\* pushes the top colour again where the code's comment says it restores
\* the stack (SubroutineTracker.cpp:191-202).  The comparison is in int,
\* so a return to x0000 never matches a call at xFFFF.  jsrStack is
\* asserted non-empty.
RetFromSubroutine(s, iss) ==
    CASE s.messed -> [s |-> s, iss |-> iss]
      [] s.js = << >> -> [s |-> [s EXCEPT !.status = "CRASH"], iss |-> iss]
      [] SX!Last(s.js) = s.pc - 1 -> [s |-> ProperRet(s), iss |-> iss]
      [] OTHER ->
           LET r == NewStateIssue(s, iss, "WARN_IMPROPER_RET", s.last)
           IN [r EXCEPT !.s.cs = Append(@, SX!Last(@)), !.s.messed = TRUE]

\* A RET with only the main code's colour: an error, and the stack is
\* messed up (executeJMP has already raised the same issue at the same
\* instruction unless the stack was messed up before).
RetInMain(s, iss) ==
    [NewStateIssue(s, iss, "ERR_RET_IN_MAIN_CODE", s.last) EXCEPT !.s.messed = TRUE]

\* SubroutineTracker::updateColors on one result state: nothing before the
\* first instruction or when the PC has no node.
UpdateColors(s, iss) ==
    IF s.last = NoNode \/ s.pc \notin Nodes THEN [s |-> s, iss |-> iss]
    ELSE CASE Prog[s.last].op \in {"JSR", "JSRR"} -> [s |-> PushCall(s), iss |-> iss]
           [] IsRET(s.last) /\ Len(s.cs) >= 2 -> RetFromSubroutine(s, iss)
           [] IsRET(s.last) -> RetInMain(s, iss)
           [] OTHER -> [s |-> s, iss |-> iss]

\* SubroutineTracker::postCheckState, run on a HALTED result: halting with
\* a subroutine's colour on top of an unmessed stack is reported.
PostCheckState(s, iss) ==
    IF ~s.messed /\ SX!Last(s.cs) # InitPC
    THEN NewStateIssue(s, iss, "WARN_HALT_IN_SUBROUTINE", s.last)
    ELSE [s |-> s, iss |-> iss]

=============================================================================
