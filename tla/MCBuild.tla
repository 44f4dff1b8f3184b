------------------------------ MODULE MCBuild -------------------------------
(* A text of two calls and an exit; the first tables are those of this     *)
(* text in another layout, or of another one.                              *)
EXTENDS Build

SmallText == <<"call", "exit", "call">>
SomeTables ==
  LET other == [t \in Tables |-> 0]
  IN  {[rows |-> n, layout |-> other, seen |-> 0] : n \in 1..2}
=============================================================================
