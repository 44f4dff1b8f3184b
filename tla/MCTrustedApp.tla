---------------------------- MODULE MCTrustedApp ----------------------------
(* Two programs with a token in common, one whose table crosses a page, in  *)
(* three frames of which the last is past 4 GiB.                            *)
EXTENDS TrustedApp

Row(t, s) == [token |-> t, src |-> s]
TwoPrograms == {"a", "b"}
TwoTables == [c \in TwoPrograms |->
                IF c = "a" THEN <<Row(101, 0), Row(101, 4), Row(102, 8)>>
                           ELSE <<Row(102, 12)>>]
TwoPlaces == [c \in TwoPrograms |-> IF c = "a" THEN 1 ELSE 0]
NoRow == Row(0, 0)
=============================================================================
