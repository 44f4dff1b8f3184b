----------------------------- MODULE CallStack -----------------------------
(***************************************************************************)
(* What an instrumented program owes its source: calls and returns nest.   *)
(* A call resumes at a function the call instruction may name, and a       *)
(* return resumes after the call that entered the function that returns.   *)
(***************************************************************************)
EXTENDS Integers, Sequences

CONSTANTS Fns,      \* entry addresses of the instrumented functions
          Sites,    \* addresses of their call instructions
          Owner,    \* the function a call instruction belongs to
          Targets,  \* the functions a call instruction may call
          Roots,    \* functions called from code that is not instrumented
          Outside   \* the address such a call returns to

VARIABLES at,    \* the address execution resumed at last
          stack  \* return addresses of the calls in progress, newest first

vars == <<at, stack>>

\* The function whose body address a is in.
Body(a) == IF a \in Fns THEN a ELSE Owner[a - 4]

Init ==
  /\ at = Outside
  /\ stack = <<>>

Enter(f) ==
  /\ stack = <<>>
  /\ at' = f
  /\ stack' = <<Outside>>

Call(s, f) ==
  /\ stack # <<>>
  /\ Owner[s] = Body(at)
  /\ f \in Targets[s]
  /\ at' = f
  /\ stack' = <<s + 4>> \o stack

Return ==
  /\ stack # <<>>
  /\ at' = Head(stack)
  /\ stack' = Tail(stack)

Next ==
  \/ \E f \in Roots : Enter(f)
  \/ \E s \in Sites, f \in Fns : Call(s, f)
  \/ Return

Spec == Init /\ [][Next]_vars
=============================================================================
