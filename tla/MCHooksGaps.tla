---------------------------- MODULE MCHooksGaps ----------------------------
(***************************************************************************)
(* A program and tables with every gap the hooks are exposed to: two calls *)
(* share a token (104, 108), a call has the token 0 (120), a blx names a   *)
(* register without a branch (112), a function exits through two register  *)
(* lists (f), its first exit has no row and the second a list without a    *)
(* branch, a library or a signal calls a function back (handler), and a    *)
(* library function (lib) is called through a hook, by a blx (124) and by  *)
(* a bl that omit_addresses does not name (128).                           *)
(*   100 testdiv: 104 bl f, 108 bl f, 112 blx lr, 116 pop 0, 120 bl g,     *)
(*                124 blx r3 (f or lib), 128 bl lib                        *)
(*   200 f: 204 bl g, 208 pop 3, 212 pop 200                               *)
(*   300 g: 304 bx lr                                                      *)
(*   400 handler: 404 pop 0                                                *)
(***************************************************************************)
EXTENDS Hooks

testdiv == 100
f == 200
g == 300
handler == 400
lib == 500

GapFns == {testdiv, f, g, handler}
GapBlSites == {104, 108, 120, 128, 204}
GapPlain == {lib}
GapBlxSites == {112, 124}
GapOwner == [s \in GapBlSites \union GapBlxSites |->
               IF s < 200 THEN testdiv ELSE f]
GapTargets == [s \in GapBlSites \union GapBlxSites |->
                 CASE s \in {120, 204} -> {g}
                   [] s = 124 -> {f, lib}
                   [] s = 128 -> {lib}
                   [] OTHER -> {f}]
GapBlxReg == [s \in GapBlxSites |-> IF s = 112 THEN 200 ELSE 0]
GapRoots == {testdiv}
GapCallbacks == {handler}
GapPopExits == {116, 208, 212, 404}
GapBxExits == {304}
GapExitFn == [e \in GapPopExits \union GapBxExits |->
                CASE e < 200 -> testdiv
                  [] e > 200 /\ e < 300 -> f
                  [] e > 300 /\ e < 400 -> g
                  [] OTHER -> handler]
GapShape == [e \in GapPopExits |-> CASE e = 208 -> 3
                                     [] e = 212 -> 200
                                     [] OTHER -> 0]

Token(n) == 808464432 + n

Gap_btbl == << [src |-> 104, dst |-> f], [src |-> 108, dst |-> f],
               [src |-> 120, dst |-> g], [src |-> 128, dst |-> lib],
               [src |-> 204, dst |-> g] >>
Gap_ftbl == << [src |-> 104, lr |-> Token(4), type |-> 3],
               [src |-> 108, lr |-> Token(4), type |-> 3],
               [src |-> 112, lr |-> 0, type |-> 200],
               [src |-> 120, lr |-> 0, type |-> 200],
               [src |-> 124, lr |-> 0, type |-> 0],
               [src |-> 128, lr |-> Token(9), type |-> 200],
               [src |-> 204, lr |-> Token(7), type |-> 150] >>
Gap_fdtbl == << [end |-> 116, type |-> 0], [end |-> 212, type |-> 200],
                [end |-> 304, type |-> 150], [end |-> 404, type |-> 0] >>

\* None of the gaps is in the order of the rows.
ASSUME GapRowsAssumption == RowsInOrder
=============================================================================
