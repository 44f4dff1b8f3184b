---------------------------- MODULE TableSearch ----------------------------
(***************************************************************************)
(* The binary searches of trampoline.c over the tables hookit generates:   *)
(* btbl_bsearch, ftbl_bsearch_lr and ftbl_bsearch_type.  They share one    *)
(* loop, `while(1)`, with no exit but the row found; ftbl_bsearch_type     *)
(* differs in that it compares `target - 4` for equality and `target` for  *)
(* order.  One step is one turn of the loop.                               *)
(***************************************************************************)
EXTENDS Integers, Sequences

CONSTANTS Queries,  \* the queries made: records [srcs, target, shift]
          Beyond    \* values the word just past a table may hold

\* hookit emits rows in address order, one per rewritten instruction, and an
\* ARM instruction has a 4-aligned address.
WellFormed(q) ==
  /\ q.srcs \in Seq(Nat)
  /\ q.target \in Nat
  /\ q.shift \in {0, 4}
  /\ q.target % 4 = 0
  /\ \A i \in 1 .. Len(q.srcs) : q.srcs[i] % 4 = 0
  /\ \A i, j \in 1 .. Len(q.srcs) : i < j => q.srcs[i] < q.srcs[j]

QueriesAssumption == \A q \in Queries : WellFormed(q)

BeyondAssumption == Beyond \subseteq Nat

ASSUME TableSearchAssumption == QueriesAssumption /\ BeyondAssumption

VARIABLES query,   \* the arguments of the call and the table it reads
          beyond,  \* the word after the last row, read when i = len
          ismall,
          ilarge,
          i,       \* the row looked at in the last turn
          pc       \* "loop", or "returned" with row i as the answer

vars == <<query, beyond, ismall, ilarge, i, pc>>

len == Len(query.srcs)

\* The row's address at index k of the C array.
src(k) == IF k < len THEN query.srcs[k + 1] ELSE beyond

wanted == query.target - query.shift

\* Mutant: the middle rounded up.
MiddleRoundedUp == (ismall + ilarge + 1) \div 2

Middle == (ismall + ilarge) \div 2

Init ==
  /\ query \in Queries
  /\ beyond \in Beyond
  /\ ismall = 0
  /\ ilarge = len
  /\ i = 0
  /\ pc = "loop"

\* Mutant: ftbl_bsearch_type without the `- 4`.
HitAtTarget ==
  /\ pc = "loop"
  /\ src(Middle) = query.target
  /\ i' = Middle
  /\ pc' = "returned"
  /\ UNCHANGED <<query, beyond, ismall, ilarge>>

\* if (object.src == target) return
Hit ==
  /\ pc = "loop"
  /\ src(Middle) = wanted
  /\ i' = Middle
  /\ pc' = "returned"
  /\ UNCHANGED <<query, beyond, ismall, ilarge>>

\* Mutant: ismall = i.
GoRightStuck ==
  /\ pc = "loop"
  /\ src(Middle) # wanted
  /\ src(Middle) < query.target
  /\ i' = Middle
  /\ ismall' = Middle
  /\ UNCHANGED <<query, beyond, ilarge, pc>>

\* else if (object.src < target) ismall = i + 1
GoRight ==
  /\ pc = "loop"
  /\ src(Middle) # wanted
  /\ src(Middle) < query.target
  /\ i' = Middle
  /\ ismall' = Middle + 1
  /\ UNCHANGED <<query, beyond, ilarge, pc>>

\* Mutant: ilarge = i - 1, as for a closed window.
GoLeftClosed ==
  /\ pc = "loop"
  /\ src(Middle) # wanted
  /\ src(Middle) >= query.target
  /\ i' = Middle
  /\ ilarge' = Middle - 1
  /\ UNCHANGED <<query, beyond, ismall, pc>>

\* else ilarge = i
GoLeft ==
  /\ pc = "loop"
  /\ src(Middle) # wanted
  /\ src(Middle) >= query.target
  /\ i' = Middle
  /\ ilarge' = Middle
  /\ UNCHANGED <<query, beyond, ismall, pc>>

Next == Hit \/ GoRight \/ GoLeft

Spec == Init /\ [][Next]_vars

\* The caller runs nothing else until the search returns.
FairSpec == Spec /\ WF_vars(Next)

-----------------------------------------------------------------------------
L == INSTANCE TableLookup
       WITH answer <- IF pc = "returned" THEN i ELSE -1

\* A query whose address is in the table.
Present == L!Rows(query) # {}

\* Types of the loop's variables.
TypeOK ==
  /\ query \in Queries
  /\ beyond \in Beyond
  /\ ismall \in 0 .. len + 1
  /\ ilarge \in 0 .. len
  /\ i \in 0 .. len
  /\ pc \in {"loop", "returned"}

\* While the loop runs for an address the table has, the row asked for is in
\* the window [ismall, ilarge): neither the window's ends nor the mismatch of
\* ftbl_bsearch_type, which looks for target - 4 but steers by target, can
\* throw it out.
TargetInWindow ==
  pc = "loop" =>
    \A k \in L!Rows(query) : ismall <= k /\ k < ilarge

\* The loop never looks past the last row when the address is in the table.
InBounds == Present /\ pc = "loop" => Middle < len

\* Each turn at least halves the window, so a search takes at most
\* log2(len) + 1 turns; a window that stays the same never ends.
WindowHalves ==
  [][pc' = "loop" =>
       ilarge' - ismall' <= (ilarge - ismall) \div 2]_vars

\* For addresses that are in the table, a search is the one-step lookup of
\* TableLookup: it answers once, with the row asked for, and it does answer.
RefinesLookup == L!FairSpec

\* hook_b and hook_bl test `dst_addr == 0` after the search, and the search
\* ends in `return 0`: an address the table has not is to be answered.
SearchReturns == <>(pc = "returned")
=============================================================================
