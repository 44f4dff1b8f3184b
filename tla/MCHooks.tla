------------------------------ MODULE MCHooks ------------------------------
(***************************************************************************)
(* A program with direct and indirect calls, recursion, mutual recursion,  *)
(* a function with two exits, a literal pool and a leaf, the text of it,   *)
(* and the tables hookit makes for it.  Tables other than those would      *)
(* leave the program without a step: TLC would report a deadlock.          *)
(***************************************************************************)
EXTENDS Instrumented

testdiv == 100
f == 120
leaf == 144

W(op, arg) == [op |-> op, arg |-> arg]

TheText ==
  << W("other", 0), W("bl", f), W("bl", leaf), W("blx", 0), W("pop", 0),
     W("other", 0), W("bl", f), W("blx", 1), W("pop", 3), W("pop", 3),
     W("data", 0),
     W("other", 0), W("bx_lr", 0) >>

TheFns == {testdiv, f, leaf}
TheBlSites == {104, 108, 124}
TheBlxSites == {112, 128}
TheOwner == [s \in TheBlSites \union TheBlxSites |->
               IF s < f THEN testdiv ELSE f]
TheTargets == [s \in TheBlSites \union TheBlxSites |->
                 CASE s = 104 -> {f}
                   [] s = 108 -> {leaf}
                   [] s = 112 -> {f, leaf}
                   [] s = 124 -> {f}
                   [] s = 128 -> {testdiv, leaf}]
TheBlxReg == [s \in TheBlxSites |-> IF s = 112 THEN 0 ELSE 1]
TheRoots == {testdiv}
NoCallbacks == {}
NoPlain == {}
ThePopExits == {116, 132, 136}
TheBxExits == {148}
TheExitFn == [e \in ThePopExits \union TheBxExits |->
                IF e < f THEN testdiv ELSE IF e < leaf THEN f ELSE leaf]
TheShape == [e \in ThePopExits |-> IF e = 116 THEN 0 ELSE 3]

\* Four hexadecimal characters, read as a 32-bit word.
Characters(n) == 808464432 + n
TheTokenOf(m, ret) == Characters(1000 * (m.end - m.start) + ret)

The_btbl == << [src |-> 104, dst |-> f], [src |-> 108, dst |-> leaf],
               [src |-> 124, dst |-> f] >>
The_ftbl == << [src |-> 104, lr |-> Characters(12108), type |-> 3],
               [src |-> 108, lr |-> Characters(4112), type |-> 200],
               [src |-> 112, lr |-> 0, type |-> 0],
               [src |-> 124, lr |-> Characters(12128), type |-> 3],
               [src |-> 128, lr |-> 0, type |-> 1] >>
The_fdtbl == << [end |-> 116, type |-> 0], [end |-> 132, type |-> 3],
                [end |-> 136, type |-> 3], [end |-> 148, type |-> 150] >>

\* The theorems of HooksProofs start from these.
ASSUME InstanceAssumption == TextRight
ASSUME InstanceTables == TablesRight
=============================================================================
