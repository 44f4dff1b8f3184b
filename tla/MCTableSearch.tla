--------------------------- MODULE MCTableSearch ---------------------------
(***************************************************************************)
(* Every table of up to MaxRows rows over a small text section, and every  *)
(* query of it: for a row that is there (PresentQueries) or for an address *)
(* of the section that has none (AbsentQueries).                           *)
(***************************************************************************)
EXTENDS TableSearch, FiniteSets, SequencesExt

CONSTANTS Words,   \* instructions in the text section
          MaxRows  \* rows of the longest table

TextStart == 8

Text == {TextStart + 4 * n : n \in 0 .. Words - 1}

SmallTables ==
  {SetToSortSeq(S, LAMBDA a, b : a < b) :
     S \in {T \in SUBSET Text : Cardinality(T) <= MaxRows}}

AllQueries == [srcs : SmallTables, target : Text \union {TextStart + 4 * Words},
               shift : {0, 4}]

PresentQueries == {q \in AllQueries : L!Rows(q) # {}}

AbsentQueries == AllQueries \ PresentQueries

\* The word after a table: below, inside and above the text section.
BeyondWords == {0, TextStart + 4, 100}
=============================================================================
