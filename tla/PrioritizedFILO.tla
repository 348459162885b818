--------------------------- MODULE PrioritizedFILO ---------------------------
(***************************************************************************)
(* PrioritizedFILOSearcher, SimpleFILOSearcher and the completed-state    *)
(* set of Searcher (Searcher/Searcher.h).  A searcher record Q holds the   *)
(* stacks s0 (states that covered a new edge or segment) and s1 (the      *)
(* others; the only stack of SimpleFILOSearcher, whose s0 stays empty) as  *)
(* sequences of state identities, and completed, the set of HALTED and     *)
(* BROKEN states.                                                          *)
(* States are identified by their uid; st maps a uid to its record.        *)
(***************************************************************************)
EXTENDS Integers, Sequences

NoUid == -1

FiloInit == [s0 |-> << >>, s1 |-> << >>, completed |-> {}]

\* PrioritizedFILOSearcher::push for one state s.
FiloPushOne(Q, s) ==
    CASE s.status = "NORMAL" /\ (s.newEdge \/ s.newSeg) -> [Q EXCEPT !.s0 = Append(@, s.uid)]
      [] s.status = "NORMAL" -> [Q EXCEPT !.s1 = Append(@, s.uid)]
      [] OTHER -> [Q EXCEPT !.completed = @ \cup {s.uid}]

\* PrioritizedFILOSearcher::push for a vector of uids, in order.
RECURSIVE FiloPush(_, _, _)
FiloPush(Q, st, us) ==
    IF us = << >> THEN Q ELSE FiloPush(FiloPushOne(Q, st[Head(us)]), st, Tail(us))

Pop(q) == SubSeq(q, 1, Len(q) - 1)

\* PrioritizedFILOSearcher::fetch: the top of s0, else the top of s1, else
\* nothing (u = NoUid).
FiloFetch(Q) ==
    CASE Q.s0 # << >> -> [Q |-> [Q EXCEPT !.s0 = Pop(@)], u |-> Q.s0[Len(Q.s0)]]
      [] Q.s1 # << >> -> [Q |-> [Q EXCEPT !.s1 = Pop(@)], u |-> Q.s1[Len(Q.s1)]]
      [] OTHER -> [Q |-> Q, u |-> NoUid]

\* SimpleFILOSearcher::push for one state s: no priority.
SimpleFiloPushOne(Q, s) ==
    IF s.status = "NORMAL" THEN [Q EXCEPT !.s1 = Append(@, s.uid)]
    ELSE [Q EXCEPT !.completed = @ \cup {s.uid}]

\* SimpleFILOSearcher::push for a vector of uids, in order.
RECURSIVE SimpleFiloPush(_, _, _)
SimpleFiloPush(Q, st, us) ==
    IF us = << >> THEN Q ELSE SimpleFiloPush(SimpleFiloPushOne(Q, st[Head(us)]), st, Tail(us))

\* SimpleFILOSearcher::fetch.
SimpleFiloFetch(Q) ==
    IF Q.s1 # << >> THEN [Q |-> [Q EXCEPT !.s1 = Pop(@)], u |-> Q.s1[Len(Q.s1)]]
    ELSE [Q |-> Q, u |-> NoUid]

\* Searcher::eraseCompletedStates.
EraseCompleted(Q, u) == [Q EXCEPT !.completed = @ \ {u}]

=============================================================================
