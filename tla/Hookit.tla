------------------------------- MODULE Hookit -------------------------------
(***************************************************************************)
(* hookit(): the linear sweep over the text section that replaces calls    *)
(* and exits by branches to the hooks, and the pass after it that gives    *)
(* each call the exit type and the measurement of its callee.  What the    *)
(* two write are the tables the hooks of module Hooks search: cfs gives    *)
(* btbl and ftbl, function_table gives fdtbl.                              *)
(*                                                                         *)
(* The text is a sequence of words.  A measurement, the hash of a range of *)
(* words, is modelled by the range.                                        *)
(***************************************************************************)
EXTENDS Integers, Sequences, FiniteSets

CONSTANTS
  Programs,    \* the texts tried, sequences of [op, arg]
  text_start,  \* the address of the first word
  Hook         \* the address of a hook: outside the text

\* bl: the callee.  blx, pop: the type of the register or the list.  The
\* others carry 0.  "omit" is an instruction at one of omit_addresses, "data"
\* a word of a literal pool that decodes as no instruction.
Ops == {"bl", "blx", "pop", "bx_lr", "pop_fp_lr", "omit", "other", "data"}

\* sha256 of nothing measured; rows of a blx have no measurement either.
None == [start |-> 0, end |-> 0]

\* No literal pool lies just before the last exit: every function has more
\* than one instruction.  (The instruction at text_end is hooked when the
\* sweep gets to it, and not when a new chunk would begin there.)  The offset of
\* a bl is in words, and a pop has a type rewrite_pop_fp_pc gives.
ASSUME HookitAssumption ==
  /\ text_start \in Nat \ {0} /\ text_start % 4 = 0
  /\ Hook \in Nat /\ Hook < text_start
  /\ \A p \in Programs :
       /\ p \in Seq([op : Ops, arg : Nat])
       /\ Len(p) > 1 /\ p[1].op # "data"
       /\ p[Len(p) - 1].op # "data" /\ p[Len(p)].op \in {"pop", "bx_lr"}
       /\ \A n \in 1 .. Len(p) :
            /\ p[n].op = "bl" => p[n].arg % 4 = 0
            /\ p[n].op = "pop" => p[n].arg \in 0 .. 17 \union {200}

VARIABLES
  program,         \* the text as compiled
  mm,              \* the text in the mapped file
  code,            \* the text as read for the current chunk
  current_address, \* where the chunk starts
  next,            \* where the disassembler is in it
  i_address,       \* the last instruction it gave (also prev_address)
  lastAddress,     \* the word after the last exit
  cfs,             \* control_flow_statements: the calls
  function_table,  \* a segment for each exit
  k,               \* calls the second pass has done
  phase            \* "sweep", "fix" or "done"

vars == <<program, mm, code, current_address, next, i_address, lastAddress,
          cfs, function_table, k, phase>>

\* The word of text t at address a.
Words(t) == {text_start + 4 * (n - 1) : n \in 1 .. Len(t)}
At(t, a) == t[(a - text_start) \div 4 + 1]

\* The last exit is the last instruction to hook.
text_end == text_start + 4 * (Len(program) - 1)

Init ==
  /\ program \in Programs
  /\ mm = program
  /\ code = program
  /\ current_address = text_start
  /\ next = text_start
  /\ i_address = -1
  /\ lastAddress = text_start
  /\ cfs = <<>>
  /\ function_table = <<>>
  /\ k = 0
  /\ phase = "sweep"

-----------------------------------------------------------------------------
\* The disassembler gives the word at `next`.
Decodes == next \in Words(code) /\ At(code, next).op # "data"

\* Mutant: text_end is the first address not hooked.
StepExclusive ==
  /\ i_address' = next
  /\ IF next + 4 >= text_end THEN phase' = "fix" /\ UNCHANGED next
                             ELSE next' = next + 4 /\ UNCHANGED phase
  /\ UNCHANGED <<program, code, current_address, k>>

\* After text_end the inner loop breaks and so does the outer one.
Step ==
  /\ i_address' = next
  /\ IF next >= text_end THEN phase' = "fix" /\ UNCHANGED next
                         ELSE next' = next + 4 /\ UNCHANGED phase
  /\ UNCHANGED <<program, code, current_address, k>>

\* Mutant: without prev_address.
FreshAlways == phase = "sweep" /\ Decodes

\* A word the disassembler has not just given.
Fresh == phase = "sweep" /\ Decodes /\ next # i_address

Op == At(code, next).op
Arg == At(code, next).arg

\* write_back: a bl to the hook.
Rewrite == mm' = [mm EXCEPT ![(next - text_start) \div 4 + 1] =
                     [op |-> "bl", arg |-> Hook]]

\* What the disassembler gives from a on, before e: it stops at data.
Measure(a, e) ==
  LET stops == {x \in Words(program) :
                  a <= x /\ (x >= e \/ At(program, x).op = "data")}
  IN  [start |-> a, end |-> CHOOSE x \in stops : \A y \in stops : x <= y]

Call(type, dst, rt_type) ==
  [type |-> type, src |-> next, dst |-> dst, rt_type |-> rt_type,
   measurement |-> None]

\* `continue` before anything else.
Duplicate ==
  /\ phase = "sweep"
  /\ Decodes
  /\ next = i_address
  /\ next' = next + 4
  /\ UNCHANGED <<program, mm, code, current_address, i_address, lastAddress,
                 cfs, function_table, k, phase>>

\* omit_addresses, and instructions that are none of those below.
PassOver ==
  /\ Fresh
  /\ Op \in {"omit", "other"}
  /\ Step
  /\ UNCHANGED <<mm, lastAddress, cfs, function_table>>

rewrite_branch_with_link ==
  /\ Fresh
  /\ Op = "bl"
  /\ Rewrite
  /\ cfs' = Append(cfs, Call("bl", Arg, 200))
  /\ Step
  /\ UNCHANGED <<lastAddress, function_table>>

rewrite_blx_rx ==
  /\ Fresh
  /\ Op = "blx"
  /\ Rewrite
  /\ cfs' = Append(cfs, Call("blx", 0, Arg))
  /\ Step
  /\ UNCHANGED <<lastAddress, function_table>>

\* new_function, measured from lastAddress to the exit.
Segment(rt_type) ==
  [start |-> lastAddress, end |-> next, rt_type |-> rt_type,
   measurement |-> Measure(lastAddress, next)]

rewrite_branch_and_exchange_lr ==
  /\ Fresh
  /\ Op = "bx_lr"
  /\ Rewrite
  /\ function_table' = Append(function_table, Segment(150))
  /\ lastAddress' = next + 4
  /\ Step
  /\ UNCHANGED cfs

rewrite_pop_fp_pc ==
  /\ Fresh
  /\ Op = "pop"
  /\ Rewrite
  /\ function_table' = Append(function_table, Segment(Arg))
  /\ lastAddress' = next + 4
  /\ Step
  /\ UNCHANGED cfs

\* A statement of no table: the segment goes on.
rewrite_pop_fp_lr ==
  /\ Fresh
  /\ Op = "pop_fp_lr"
  /\ Rewrite
  /\ Step
  /\ UNCHANGED <<lastAddress, cfs, function_table>>

\* Mutant: the next chunk is the same one.
NextChunkSame ==
  /\ phase = "sweep"
  /\ ~Decodes
  /\ LET a == IF i_address > current_address THEN i_address
                                             ELSE current_address
     IN  IF a >= text_end
           THEN phase' = "fix" /\ UNCHANGED <<current_address, next, code>>
           ELSE /\ current_address' = a
                /\ next' = a
                /\ code' = mm
                /\ UNCHANGED phase
  /\ UNCHANGED <<program, mm, i_address, lastAddress, cfs, function_table, k>>

\* The disassembler stops at data.  The next chunk is read, from the file as
\* rewritten, from the last instruction given, or, when that is where this
\* chunk started or before, from the word after the start.
NextChunk ==
  /\ phase = "sweep"
  /\ ~Decodes
  /\ LET a == IF i_address > current_address THEN i_address
                                             ELSE current_address + 4
     IN  IF a >= text_end
           THEN phase' = "fix" /\ UNCHANGED <<current_address, next, code>>
           ELSE /\ current_address' = a
                /\ next' = a
                /\ code' = mm
                /\ UNCHANGED phase
  /\ UNCHANGED <<program, mm, i_address, lastAddress, cfs, function_table, k>>

-----------------------------------------------------------------------------
\* Mutant: func.end > cfs.dst.
HoldingStrict(a) ==
  LET found == {m \in 1 .. Len(function_table) :
                  function_table[m].start <= a /\ a < function_table[m].end}
  IN  IF found = {} THEN {}
      ELSE {CHOOSE m \in found : \A n \in found : m <= n}

\* The first segment an address is in, if any.
Holding(a) ==
  LET found == {m \in 1 .. Len(function_table) :
                  function_table[m].start <= a /\ a <= function_table[m].end}
  IN  IF found = {} THEN {}
      ELSE {CHOOSE m \in found : \A n \in found : m <= n}

\* func.start = cfs.dst, and the range is measured again.
Trim(m, a) ==
  [function_table EXCEPT
     ![m].start = a,
     ![m].measurement = Measure(a, function_table[m].end)]

\* Mutant: the type of the segment itself, bx lr or not.
RtTypeOwn(m) == function_table[m].rt_type

\* rt_type: of a segment that ends in bx lr (150), that of the segment after.
RtType(m) ==
  IF function_table[m].rt_type # 150 THEN function_table[m].rt_type
  ELSE IF m < Len(function_table) THEN function_table[m + 1].rt_type ELSE 200

\* Mutant: the segment is trimmed but not measured again.
FixCallNoMeasure ==
  /\ phase = "fix"
  /\ k < Len(cfs)
  /\ cfs[k + 1].type = "bl"
  /\ \E m \in Holding(cfs[k + 1].dst) :
       /\ function_table' = [function_table EXCEPT ![m].start = cfs[k + 1].dst]
       /\ cfs' = [cfs EXCEPT
                    ![k + 1].rt_type = RtType(m),
                    ![k + 1].measurement = function_table'[m].measurement]
  /\ k' = k + 1
  /\ UNCHANGED <<program, mm, code, current_address, next, i_address,
                 lastAddress, phase>>

FixCall ==
  /\ phase = "fix"
  /\ k < Len(cfs)
  /\ cfs[k + 1].type = "bl"
  /\ \E m \in Holding(cfs[k + 1].dst) :
       /\ function_table' = Trim(m, cfs[k + 1].dst)
       /\ cfs' = [cfs EXCEPT
                    ![k + 1].rt_type = RtType(m),
                    ![k + 1].measurement = function_table'[m].measurement]
  /\ k' = k + 1
  /\ UNCHANGED <<program, mm, code, current_address, next, i_address,
                 lastAddress, phase>>

\* A blx, or a callee in no segment: the measurement is 0, the type 200.
PassCall ==
  /\ phase = "fix"
  /\ k < Len(cfs)
  /\ cfs[k + 1].type = "blx" \/ Holding(cfs[k + 1].dst) = {}
  /\ k' = k + 1
  /\ UNCHANGED <<program, mm, code, current_address, next, i_address,
                 lastAddress, cfs, function_table, phase>>

Finish ==
  /\ phase = "fix"
  /\ k = Len(cfs)
  /\ phase' = "done"
  /\ UNCHANGED <<program, mm, code, current_address, next, i_address,
                 lastAddress, cfs, function_table, k>>

Next ==
  \/ Duplicate \/ PassOver
  \/ rewrite_branch_with_link \/ rewrite_blx_rx
  \/ rewrite_branch_and_exchange_lr \/ rewrite_pop_fp_pc \/ rewrite_pop_fp_lr
  \/ NextChunk
  \/ FixCall \/ PassCall \/ Finish

\* A script with one thread that is never blocked.
Spec == Init /\ [][Next]_vars /\ WF_vars(Next)

-----------------------------------------------------------------------------
Calls == {a \in Words(program) : At(program, a).op \in {"bl", "blx"}}
Exits == {a \in Words(program) : At(program, a).op \in {"pop", "bx_lr"}}
Hooked == {a \in Words(program) :
             At(program, a).op \in {"bl", "blx", "pop", "bx_lr", "pop_fp_lr"}}

Swept == phase # "sweep"

\* The first exit at or after an address.
FirstExit(a) ==
  CHOOSE e \in Exits : e >= a /\ \A x \in Exits : x >= a => e <= x

Inst == [op : Ops, arg : Nat]
Extent == [start : Nat, end : Nat]

\* Types of the variables: positions are words of the text, and both copies of
\* the file have its length.
TypeOK ==
  /\ program \in Programs
  /\ mm \in Seq(Inst) /\ Len(mm) = Len(program)
  /\ code \in Seq(Inst) /\ Len(code) = Len(program)
  /\ current_address \in Words(program) /\ next \in Words(program)
  /\ i_address \in Words(program) \union {-1}
  /\ lastAddress \in Nat
  /\ cfs \in Seq([type : {"bl", "blx"}, src : Nat, dst : Nat, rt_type : Nat,
                  measurement : Extent])
  /\ function_table \in Seq([start : Nat, end : Nat, rt_type : Nat,
                             measurement : Extent])
  /\ k \in 0 .. Len(cfs)
  /\ phase \in {"sweep", "fix", "done"}

\* The sweep replaces every call and every exit of the text and nothing else,
\* data in between and restarts of the disassembler notwithstanding, the
\* instruction at text_end included: a call or an exit that is missed puts the
\* shadow stack out of step for good.
SweepComplete ==
  Swept =>
    \A a \in Words(program) :
      At(mm, a) = IF a \in Hooked THEN [op |-> "bl", arg |-> Hook]
                                  ELSE At(program, a)

\* One row for each call and one segment for each exit, in address order with
\* the binary's operands: the order TableSearch needs, and the one row for
\* each address Hooks needs.  An instruction given twice by the disassembler
\* is not hooked twice.
TablesOrdered ==
  /\ \A m, n \in 1 .. Len(cfs) : m < n => cfs[m].src < cfs[n].src
  /\ \A m, n \in 1 .. Len(function_table) :
       m < n => function_table[m].end < function_table[n].start
  /\ \A n \in 1 .. Len(cfs) :
       cfs[n].type = "bl" => cfs[n].dst = At(program, cfs[n].src).arg
  /\ Swept =>
       /\ {cfs[n].src : n \in 1 .. Len(cfs)} = Calls
       /\ {function_table[m].end : m \in 1 .. Len(function_table)} = Exits

\* A call whose callee is in the text and has an exit after it.
Measured(n) ==
  /\ cfs[n].type = "bl"
  /\ cfs[n].dst \in Words(program)
  /\ \E e \in Exits : e >= cfs[n].dst

\* What the trusted application digests at run time: all bytes from the entry
\* of the callee to its exit (sta_ripte.c:381).
Digest(n) == [start |-> cfs[n].dst, end |-> FirstExit(cfs[n].dst)]

\* No literal pool lies between the entry of the callee and its exit.
NoPool(n) ==
  \A a \in Words(program) :
    Digest(n).start <= a /\ a < Digest(n).end => At(program, a).op # "data"

\* The measurement of a call is what the trusted application digests of its
\* callee, from entry to first exit, unless a pool lies in between, whatever
\* calls trimmed the segment before.  (It is None when a function without exits
\* shares the segment with the functions after it and one of those was called
\* first: then the callee is in no segment.)
MeasurementOfCallee ==
  \A n \in 1 .. k :
    cfs[n].measurement # None =>
      /\ Measured(n)
      /\ cfs[n].measurement.start = cfs[n].dst
      /\ cfs[n].measurement = Digest(n) <=> NoPool(n)

\* Functions without an exit of their own: another function is called
\* between their entry and the first exit.
Exitless(a) ==
  \E n \in 1 .. Len(cfs) :
    /\ cfs[n].type = "bl"
    /\ a < cfs[n].dst /\ cfs[n].dst <= FirstExit(a)

\* Only a callee outside the text or without an exit is left without a
\* measurement, that is, with the token 0.
TokenForEveryReturn ==
  \A n \in 1 .. k :
    Measured(n) /\ ~Exitless(cfs[n].dst) => cfs[n].measurement # None

\* The type of a call is the register list of the callee's first pop, also
\* when an early bx lr comes before it: hook_pop_fp_pc restores what the
\* callee saved.
PopTypeOfCallee ==
  \A n \in 1 .. k :
    Measured(n) /\ ~Exitless(cfs[n].dst) =>
      LET e == FirstExit(cfs[n].dst)
          x == FirstExit(e + 4)
      IN  CASE At(program, e).op = "pop" -> cfs[n].rt_type = At(program, e).arg
            [] /\ At(program, e).op = "bx_lr"
               /\ \E y \in Exits : y > e
               /\ At(program, x).op = "pop" ->
                 cfs[n].rt_type = At(program, x).arg
            [] OTHER -> cfs[n].rt_type \in {150, 200}

\* The sweep and the pass end.
HookitEnds == <>(phase = "done")
=============================================================================
