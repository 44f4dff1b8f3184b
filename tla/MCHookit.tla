------------------------------ MODULE MCHookit ------------------------------
(***************************************************************************)
(* Texts of three functions, each one of the templates below: the callee   *)
(* of their bl is any of the three or a function outside the text.         *)
(***************************************************************************)
EXTENDS Hookit

TheTextStart == 16
TheHook == 8
TheLibrary == 4

W(op, arg) == [op |-> op, arg |-> arg]

\* c stands for the callee: 1 to 3 for a function, 0 for the library.
Templates ==
  UNION {
    { << W("bl", c), W("pop", 0), W("data", 0), W("data", 0) >>,
      << W("other", 0), W("bx_lr", 0), W("bl", c), W("pop", 3) >>,
      << W("other", 0), W("bl", c) >> } : c \in 0 .. 3 }
  \union
    { << W("other", 0), W("data", 0), W("other", 0), W("pop", 2) >> }
  \union
    { << W("omit", 0), W("bx_lr", 0), W("data", 0) >>,
      << W("blx", 0), W("pop", 1), W("pop_fp_lr", 0), W("pop", 1) >>,
      << W("pop", 17) >> }

\* The text ends in an exit that is not its function's first instruction.
LastTemplates ==
  {t \in Templates : t[Len(t)].op \in {"pop", "bx_lr"} /\ Len(t) > 1}

Link(fs) ==
  LET entry == [c \in 0 .. 3 |->
                  CASE c = 0 -> TheLibrary
                    [] c = 1 -> TheTextStart
                    [] c = 2 -> TheTextStart + 4 * Len(fs[1])
                    [] c = 3 -> TheTextStart + 4 * Len(fs[1] \o fs[2])]
      text == fs[1] \o fs[2] \o fs[3]
  IN  [n \in 1 .. Len(text) |->
         IF text[n].op = "bl" THEN W("bl", entry[text[n].arg]) ELSE text[n]]

ThePrograms == {Link(fs) : fs \in Templates \X Templates \X LastTemplates}
=============================================================================
