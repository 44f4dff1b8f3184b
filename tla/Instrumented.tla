---------------------------- MODULE Instrumented ----------------------------
(***************************************************************************)
(* From the compiled program to its calls and returns: hookit goes through *)
(* its text (module Hookit), the tables the script writes are compiled     *)
(* into the program, and the program runs with them (module Hooks).        *)
(*                                                                         *)
(* The constants of Hooks are tied together here: its program is the one   *)
(* the text holds, its tables are those of the script.  The text is that   *)
(* of the binary the tables fit, the one Build is about.                   *)
(***************************************************************************)
EXTENDS Hooks

CONSTANTS
  Text,          \* the words of the program
  text_start,    \* the address of the first one
  Hook,          \* the address of a hook
  TokenOf(_, _)  \* last four characters of encrypt(measurement ^ return address)

VARIABLES
  program, mm, code, current_address, next, i_address, lastAddress,
  cfs, function_table,
  passed,        \* calls the second pass has done
  phase

K == INSTANCE Hookit WITH Programs <- {Text}, k <- passed

script == <<program, mm, code, current_address, next, i_address, lastAddress,
            cfs, function_table, passed, phase>>

ASSUME TextAssumption == K!HookitAssumption

OpAt(a) == K!At(Text, a).op
ArgAt(a) == K!At(Text, a).arg

AddressesOf(op) == {a \in K!Words(Text) : OpAt(a) = op}

\* An instruction belongs to the function with the last entry before it.
Within(a, f) == f <= a /\ \A g \in Fns : g <= a => g <= f

\* The program of Hooks, read off the text.
ASSUME SourceAssumption ==
  /\ Fns \subseteq K!Words(Text)
  /\ BlSites = AddressesOf("bl") /\ BlxSites = AddressesOf("blx")
  /\ PopExits = AddressesOf("pop") /\ BxExits = AddressesOf("bx_lr")
  /\ \A s \in Sites : Within(s, Owner[s])
  /\ \A e \in Exits : Within(e, ExitFn[e])
  /\ \A s \in BlSites : Targets[s] = {ArgAt(s)}
  /\ \A s \in BlxSites : BlxReg[s] = ArgAt(s)
  /\ \A e \in PopExits : Shape[e] = ArgAt(e)

-----------------------------------------------------------------------------
\* get_branches: the direct calls, in the order of the sweep.
BranchTable ==
  /\ Rows(btbl) = {[src |-> c.src, dst |-> c.dst] :
                     c \in {r \in Rows(cfs) : r.type = "bl"}}
  /\ \A m, n \in 1 .. Len(btbl) : m < n => btbl[m].src < btbl[n].src

\* The last characters of lr_value.  Of a call without a measurement the text is
\* too short to have any, a blx has none at all.
lr_value(c) ==
  IF c.measurement = K!None THEN 0 ELSE TokenOf(c.measurement, c.src + 4)

\* get_function_call: all calls.
FunctionCallTable ==
  ftbl = [n \in 1 .. Len(cfs) |->
            [src |-> cfs[n].src, lr |-> lr_value(cfs[n]),
             type |-> cfs[n].rt_type]]

FunctionTable ==
  fdtbl = [m \in 1 .. Len(function_table) |->
             [end |-> function_table[m].end,
              type |-> function_table[m].rt_type]]

\* The program has been linked with what the script wrote.
TablesWritten ==
  phase = "done" /\ BranchTable /\ FunctionCallTable /\ FunctionTable

Script == K!Next /\ UNCHANGED vars
Run == TablesWritten /\ Next /\ UNCHANGED script

SystemInit == Init /\ K!Init

System == SystemInit /\ [][Script \/ Run]_<<vars, script>>

-----------------------------------------------------------------------------
(***************************************************************************)
(* What the script's tables need of the text to be right.                  *)
(***************************************************************************)

DirectlyCalled == UNION {Targets[s] : s \in BlSites}

\* A function called directly has an exit of its own, pops one list wherever
\* it exits, and has at most one bx lr before a pop: the script has one type for
\* a call, that of its callee's first exit or of the one after it.
OneTypeOfExit ==
  \A f \in DirectlyCalled :
    /\ \E e \in Exits : ExitFn[e] = f
    /\ \A e, x \in PopExits :
         ExitFn[e] = f /\ ExitFn[x] = f =>
           Shape[e] = Shape[x] /\ Shape[e] \in PopTypes
    /\ \A e \in PopExits, b, c \in BxExits :
         /\ ExitFn[e] = f /\ ExitFn[b] = f /\ ExitFn[c] = f
         /\ b < e /\ c < e
         => b = c

\* What is called through a register pops a list the hooks know.
KnownLists ==
  \A s \in BlxSites :
    /\ BlxReg[s] \in BlxTypes
    /\ \A e \in PopExits : ExitFn[e] \in Targets[s] => Shape[e] \in PopTypes

\* The function at f is measured up to its first exit, or to a literal pool
\* before that.
Hashed(f) ==
  LET stops == {x \in K!Words(Text) :
                  f <= x /\ (x \in Exits \/ OpAt(x) = "data")}
  IN  [start |-> f, end |-> CHOOSE x \in stops : \A y \in stops : x <= y]

\* The token of call s.
Token(s) == TokenOf(Hashed(ArgAt(s)), s + 4)

TokensDiffer ==
  /\ \A s \in BlSites : IsToken(Token(s))
  /\ \A s, t \in BlSites : Token(s) = Token(t) => s = t

TextRight ==
  /\ AddressesRight /\ RootsRight /\ ReturnsHooked
  /\ OneTypeOfExit /\ KnownLists /\ TokensDiffer
=============================================================================
