--------------------------- MODULE HookRegisters ---------------------------
(***************************************************************************)
(* The assembly of trampoline.c: what a hook leaves in the registers and   *)
(* on the machine stack, against what the instruction it replaces does.    *)
(* hookit gives each `pop {..., pc}` and each `blx rx` a type; the hook    *)
(* selects its final pops and branch by that type.                         *)
(*                                                                         *)
(* Registers are numbered as ARM numbers them, and a value stands for      *)
(* itself: register r holds r before the instruction, the k-th word on the *)
(* stack is Word(k).  The hooks are compiled without optimisation (the     *)
(* Makefile sets no -O): their frame is `push {fp, lr}`, and the operand   *)
(* of an "r" constraint is loaded in r3.                                   *)
(***************************************************************************)
EXTENDS Integers, Sequences, FiniteSets

CONSTANTS PopLists,  \* sets of registers a `pop {..., pc}` names, pc left out
          BlxRegs,   \* registers a `blx rx` names
          Depth      \* words on the stack: those of the longest list and more

FP == 11
IP == 12
LR == 14
Scratch == 3
Registers == (0 .. IP) \union {LR}

\* Values no register and no stack word has before the instruction.
Junk == -1
HookFrame == -2    \* the hook's own fp
AfterBl == -3      \* lr as `bl hook` sets it
Callee == -4       \* what btbl_bsearch gives
ReturnAddress == -5  \* what the shadow stack gives
Token == -6        \* what ftbl_bsearch_lr gives

Word(k) == 100 + k

Before == [r \in Registers |-> r]
StackBefore == [k \in 1 .. Depth |-> Word(k)]

\* A list names none of sp and lr beside pc; the stack holds what it pops.
RegisterAssumption ==
  /\ Depth \in Nat
  /\ PopLists \subseteq SUBSET (0 .. IP)
  /\ BlxRegs \subseteq Registers
  /\ \A L \in PopLists : Cardinality(L) < Depth

VARIABLES instr,  \* the replaced instruction
          type,   \* the type hookit gave it
          regs,
          stack,  \* newest word first
          saved,  \* the hook's local copies of registers
          pc,     \* where control went, when phase is "left"
          phase   \* "program", "hook", "left" or "fell" out of the dispatch

vars == <<instr, type, regs, stack, saved, pc, phase>>

Pops == [kind : {"pop"}, list : PopLists]
Blxs == [kind : {"blx"}, reg : BlxRegs]
Others == {[kind |-> "bl"], [kind |-> "bx_lr"]}

\* The register at position j (from 0) of a list whose last member is pc.
Operand(L, j) ==
  IF j = Cardinality(L) THEN 15
  ELSE CHOOSE r \in L : Cardinality({q \in L : q < r}) = j

\* Mutant: types 1 to 7 without the test for fp.
PopTypeAnyLast(L) ==
  LET n == Cardinality(L) + 1
      From4(k) == Operand(L, 0) = 4 /\ Operand(L, k - 1) = k + 3
  IN  CASE n = 2 /\ Operand(L, 0) = FP -> 0
        [] n \in 3 .. 9 /\ From4(n - 2) -> n - 2
        [] OTHER -> 200

\* rewrite_pop_fp_pc looks at the length and at two or three positions.
PopType(L) ==
  LET n == Cardinality(L) + 1
      From4(k) == Operand(L, 0) = 4 /\ Operand(L, k - 1) = k + 3
  IN  CASE n = 2 /\ Operand(L, 0) = FP -> 0
        [] n \in 3 .. 9 /\ From4(n - 2) /\ Operand(L, n - 2) = FP -> n - 2
        [] n = 10 /\ Operand(L, 0) = 3 /\ Operand(L, 7) = 10
             /\ Operand(L, 8) = FP -> 8
        [] n \in 2 .. 8 /\ From4(n - 1) -> n + 7
        [] n = 9 /\ Operand(L, 0) = 3 /\ Operand(L, 7) = 10 -> 16
        [] n = 1 -> 17
        [] OTHER -> 200

\* rewrite_blx_rx
BlxType(r) ==
  CASE r \in 3 .. 10 -> r - 3
    [] r = 2 -> 8
    [] r \in {FP, IP} -> r - 2
    [] OTHER -> 200

TypeOf(i) == CASE i.kind = "pop" -> PopType(i.list)
               [] i.kind = "blx" -> BlxType(i.reg)
               [] OTHER -> 0

Init ==
  /\ instr \in Pops \union Blxs \union Others
  /\ type = TypeOf(instr)
  /\ regs = Before
  /\ stack = StackBefore
  /\ saved = Before
  /\ pc = Junk
  /\ phase = "program"

-----------------------------------------------------------------------------
\* `pop {S}`: the lowest register gets the word on top.
PopRegs(S, r, st) ==
  [q \in Registers |->
     IF q \in S THEN st[Cardinality({p \in S : p < q}) + 1] ELSE r[q]]
Drop(S, st) == SubSeq(st, Cardinality(S) + 1, Len(st))

\* bl hook: the frame, the copies, then C code with calls, which leaves r0 to
\* r3, ip and lr with anything.
EnterHook ==
  /\ phase = "program"
  /\ saved' = regs
  /\ stack' = <<regs[FP], AfterBl>> \o stack
  /\ regs' = [r \in Registers |->
                CASE r \in {0, 1, 2, 3, IP, LR} -> Junk
                  [] r = FP -> HookFrame
                  [] OTHER -> regs[r]]
  /\ phase' = "hook"
  /\ UNCHANGED <<instr, type, pc>>

\* The end of every branch: control leaves through register `through`.
Leave(r, st, through) ==
  /\ regs' = r
  /\ stack' = st
  /\ pc' = r[through]
  /\ phase' = "left"
  /\ UNCHANGED <<instr, type, saved>>

\* Mutant: lr keeps what the C code left in it.
LeaveBlStaleLr ==
  /\ phase = "hook" /\ instr.kind = "bl"
  /\ LET r == [q \in Registers |->
                 CASE q \in 0 .. 3 -> saved[q]
                   [] q = IP -> Callee
                   [] OTHER -> regs[q]]
     IN  Leave(PopRegs({FP}, r, stack), Drop({FP, IP}, stack), IP)

\* r0 to r2, lr := token, ip := callee, r3; sub sp; pop {fp}; add sp; bx ip
LeaveBl ==
  /\ phase = "hook" /\ instr.kind = "bl"
  /\ LET r == [q \in Registers |->
                 CASE q \in 0 .. 3 -> saved[q]
                   [] q = LR -> Token
                   [] q = IP -> Callee
                   [] OTHER -> regs[q]]
     IN  Leave(PopRegs({FP}, r, stack), Drop({FP, IP}, stack), IP)

\* r0 to r2 and lr (the address after the blx); then by type: r3 := its copy
\* and a branch through the register, except that for ip r3 carries the copy
\* of ip; sub sp; pop {fp, ip}
BlxThrough ==
  CASE type \in 0 .. 7 -> type + 3
    [] type = 8 -> 2
    [] type = 9 -> FP
    [] type = 10 -> IP

LeaveBlx ==
  /\ phase = "hook" /\ instr.kind = "blx" /\ type \in 0 .. 10
  /\ LET r == [q \in Registers |->
                 CASE q \in 0 .. 2 -> saved[q]
                   [] q = Scratch -> IF type = 10 THEN saved[IP]
                                                  ELSE saved[Scratch]
                   [] q = LR -> AfterBl
                   [] OTHER -> regs[q]]
         popped == PopRegs({FP, IP}, r, stack)
         last == IF type = 10 THEN [popped EXCEPT ![IP] = popped[Scratch]]
                              ELSE popped
     IN  Leave(last, Drop({FP, IP}, stack), BlxThrough)

\* r0, r4 to r10; lr := %0; sub sp; pop {fp, ip}; bx %0
LeaveBxLr ==
  /\ phase = "hook" /\ instr.kind = "bx_lr"
  /\ LET r == [q \in Registers |->
                 CASE q \in {0} \union 4 .. 10 -> saved[q]
                   [] q \in {Scratch, LR} -> ReturnAddress
                   [] OTHER -> regs[q]]
     IN  Leave(PopRegs({FP, IP}, r, stack), Drop({FP, IP}, stack), Scratch)

\* The registers the two words of the hook's frame are dropped in, the
\* registers popped after it (ip in the place of pc), the branch register.
FramePop == CASE type \in 0 .. 7 -> {1, 2}
              [] type = 8 -> {2, 3}
              [] type \in 9 .. 17 -> {FP, IP}
ListPop == CASE type \in 0 .. 7 -> 4 .. type + 3 \union {FP, IP}
             [] type = 8 -> 3 .. IP
             [] type \in 9 .. 15 -> 4 .. type - 5 \union {IP}
             [] type = 16 -> 3 .. 10 \union {IP}
             [] type = 17 -> {IP}
\* Mutant: the address stays in r3 for every list.
PopThroughR3 == Scratch

PopThrough == IF type \in {8, 16, 17} THEN 1 ELSE Scratch

\* Mutant: r0 is not put back.
LeavePopNoResult ==
  /\ phase = "hook" /\ instr.kind = "pop" /\ type \in 0 .. 17
  /\ LET r == [q \in Registers |->
                 CASE q \in 4 .. 10 -> saved[q]
                   [] q = PopThrough -> ReturnAddress
                   [] OTHER -> regs[q]]
         bare == PopRegs(FramePop, r, stack)
         rest == Drop(FramePop, stack)
     IN  Leave(PopRegs(ListPop, bare, rest), Drop(ListPop, rest), PopThrough)

LeavePop ==
  /\ phase = "hook" /\ instr.kind = "pop" /\ type \in 0 .. 17
  /\ LET r == [q \in Registers |->
                 CASE q \in {0} \union 4 .. 10 -> saved[q]
                   [] q = PopThrough -> ReturnAddress
                   [] OTHER -> regs[q]]
         bare == PopRegs(FramePop, r, stack)
         rest == Drop(FramePop, stack)
     IN  Leave(PopRegs(ListPop, bare, rest), Drop(ListPop, rest), PopThrough)

\* Mutant: the epilogue pops fp alone.
FallOutShort ==
  /\ phase = "hook"
  /\ \/ instr.kind = "pop" /\ type \notin 0 .. 17
     \/ instr.kind = "blx" /\ type \notin 0 .. 10
  /\ regs' = [regs EXCEPT ![FP] = stack[1]]
  /\ stack' = Drop({FP}, stack)
  /\ pc' = stack[2]
  /\ phase' = "fell"
  /\ UNCHANGED <<instr, type, saved>>

\* No branch for the type: the epilogue of the C function, which returns to
\* the instruction after the replaced one.
FallOut ==
  /\ phase = "hook"
  /\ \/ instr.kind = "pop" /\ type \notin 0 .. 17
     \/ instr.kind = "blx" /\ type \notin 0 .. 10
  /\ regs' = [regs EXCEPT ![FP] = stack[1]]
  /\ stack' = Drop({FP, IP}, stack)
  /\ pc' = stack[2]
  /\ phase' = "fell"
  /\ UNCHANGED <<instr, type, saved>>

Next == EnterHook \/ LeaveBl \/ LeaveBlx \/ LeaveBxLr \/ LeavePop \/ FallOut

Spec == Init /\ [][Next]_vars

-----------------------------------------------------------------------------
\* What the replaced instruction would leave, and where it would go.
NativePop == PopRegs(instr.list, Before, StackBefore)

NativeStack ==
  IF instr.kind = "pop" THEN Drop(instr.list \union {15}, StackBefore)
                        ELSE StackBefore

NativeTarget ==
  CASE instr.kind = "bl" -> Callee
    [] instr.kind = "blx" -> Before[instr.reg]
    [] OTHER -> ReturnAddress

Left(kind) == phase = "left" /\ instr.kind = kind

\* A classified register list is the one the hook pops for its type: checking
\* the length and a few positions of an ascending list is enough.
ClassifiedExactly ==
  instr.kind = "pop" /\ type # 200 =>
    instr.list = ListPop \ {IP}

\* Every hook that leaves through its dispatch goes where the instruction
\* would and has the stack pointer where the instruction would have it: the
\* frame of the hook is gone, and what the caller pushed is still there.
SameControl ==
  phase = "left" => pc = NativeTarget /\ stack = NativeStack

\* An exit hands the caller its callee-saved registers and the result in r0.
ExitRegisters ==
  /\ Left("pop") => \A r \in {0} \union 4 .. FP : regs[r] = NativePop[r]
  /\ Left("bx_lr") => \A r \in {0} \union 4 .. FP : regs[r] = Before[r]

\* A call hands the callee its arguments, the callee-saved registers and the
\* word pushed on the shadow stack in lr.  (A blx through ip loses the fourth
\* argument: r3 has carried the target.)
CallRegisters ==
  \/ Left("bl") \/ Left("blx")
  => /\ \A r \in 0 .. 2 \union 4 .. FP : regs[r] = Before[r]
     /\ type # 10 => regs[3] = Before[3]
     /\ regs[LR] = IF instr.kind = "bl" THEN Token ELSE AfterBl

\* A hook without a branch for its instruction undoes nothing: the program
\* goes on after the call or after the exit, on the same stack.
FellPast ==
  phase = "fell" =>
    pc = AfterBl /\ stack = StackBefore /\ regs[FP] = Before[FP]
=============================================================================
