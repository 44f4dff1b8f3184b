---------------------------- MODULE TableLookup ----------------------------
(***************************************************************************)
(* What the instrumentation tables promise: a query for the address of a   *)
(* rewritten instruction is answered, in one step, with the row of that    *)
(* instruction.  A query is a table, the address asked for and the offset  *)
(* of the row's address below it (0 in btbl_bsearch and ftbl_bsearch_lr, 4 *)
(* in ftbl_bsearch_type, whose callers pass a return address).             *)
(***************************************************************************)
EXTENDS Integers, Sequences

VARIABLES query,  \* [srcs, target, shift], fixed for the behaviour
          answer  \* the index of the row found, or Pending

vars == <<query, answer>>

Pending == -1

\* The rows the query asks for.  A C array starts at index 0.
Rows(q) == {k \in 0 .. Len(q.srcs) - 1 : q.srcs[k + 1] = q.target - q.shift}

Init == answer = Pending

Answer ==
  /\ answer = Pending
  /\ answer' \in Rows(query)
  /\ UNCHANGED query

Next == Answer

Spec == Init /\ [][Next]_vars

FairSpec == Spec /\ WF_vars(Next)

\* The caller gets the row it asked for, and it does get one.
Answered == <>(answer \in Rows(query))
=============================================================================
