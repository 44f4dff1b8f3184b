---------------------------- MODULE HookitProofs ----------------------------
(***************************************************************************)
(* For every text, hookit() rewrites every call and every exit once, its   *)
(* tables are complete and in order, and its second pass gives each call   *)
(* the measurement and the exit type of its callee.                        *)
(***************************************************************************)
EXTENDS Hookit, Inductions

\* What the sweep has gone through.
reach == IF phase = "sweep" THEN i_address ELSE text_end

\* Where the disassembler may be: at the start of a chunk, which lies at the
\* last instruction given or in the data after it, or behind that instruction.
\* Words not given yet are as they were compiled, and no instruction is data.
Position ==
  phase = "sweep" =>
    /\ k = 0
    /\ current_address < text_end
    /\ \/ next = current_address /\ i_address <= current_address
       \/ next = i_address + 4 /\ i_address >= current_address
    /\ \A a \in Words(program) :
         i_address < a /\ a < next => At(program, a).op = "data"
    /\ \A a \in Words(program) :
         /\ a > i_address => At(code, a) = At(program, a)
         /\ At(code, a).op = "data" => At(program, a).op = "data"

\* The file is rewritten as far as the sweep has come.
Rewritten ==
  \A a \in Words(program) :
    At(mm, a) = IF a <= reach /\ a \in Hooked THEN [op |-> "bl", arg |-> Hook]
                                              ELSE At(program, a)

\* A row for each call so far, with its operand, in order, and without a
\* measurement until its turn comes.
CallsFound ==
  /\ \A n \in 1 .. Len(cfs) :
       /\ cfs[n].src \in Calls
       /\ cfs[n].src <= reach
       /\ cfs[n].type = At(program, cfs[n].src).op
       /\ cfs[n].type = "bl" => cfs[n].dst = At(program, cfs[n].src).arg
       /\ n > k => cfs[n].measurement = None
  /\ \A m, n \in 1 .. Len(cfs) : m < n => cfs[m].src < cfs[n].src
  /\ \A a \in Calls : a <= reach => \E n \in 1 .. Len(cfs) : cfs[n].src = a

Row == [type : {"bl", "blx"}, src : Nat, dst : Nat, rt_type : Nat,
        measurement : Extent]
Part == [start : Nat, end : Nat, rt_type : Nat, measurement : Extent]

\* The type of an exit.
ExitType(e) == IF At(program, e).op = "bx_lr" THEN 150 ELSE At(program, e).arg

\* A segment for each exit so far; segments do not overlap, trimmed or not.
SegmentsFound ==
  /\ \A m \in 1 .. Len(function_table) :
       /\ function_table[m].end \in Exits
       /\ function_table[m].end <= reach
       /\ text_start <= function_table[m].start
       /\ function_table[m].start <= function_table[m].end
       /\ function_table[m].rt_type = ExitType(function_table[m].end)
  /\ \A m, n \in 1 .. Len(function_table) :
       m < n => function_table[m].end < function_table[n].start
  /\ \A a \in Exits :
       a <= reach => \E m \in 1 .. Len(function_table) : function_table[m].end = a

\* Between any word before address s and s there is an exit.
AfterExit(s) ==
  \A a \in Words(program) : a < s => \E e \in Exits : a <= e /\ e < s

\* The next segment begins after the last exit.
LastExit ==
  phase = "sweep" =>
    /\ text_start <= lastAddress
    /\ lastAddress <= IF i_address = -1 THEN text_start ELSE i_address + 4
    /\ \A m \in 1 .. Len(function_table) : function_table[m].end < lastAddress
    /\ AfterExit(lastAddress)

\* A segment begins after an exit, or where it was trimmed to, at a callee.
Origins ==
  \A m \in 1 .. Len(function_table) :
    \/ AfterExit(function_table[m].start)
    \/ \E n \in 1 .. Len(cfs) :
         cfs[n].type = "bl" /\ cfs[n].dst = function_table[m].start

\* A measurement is that of the callee up to its first exit.
MeasuredSoFar ==
  \A n \in 1 .. k :
    cfs[n].measurement # None =>
      /\ Measured(n)
      /\ cfs[n].measurement = Measure(cfs[n].dst, FirstExit(cfs[n].dst))

\* PopTypeOfCallee for one call of the callee at a.
TypeFits(a, rt_type) ==
  LET e == FirstExit(a)
      x == FirstExit(e + 4)
  IN  CASE At(program, e).op = "pop" -> rt_type = At(program, e).arg
        [] /\ At(program, e).op = "bx_lr"
           /\ \E y \in Exits : y > e
           /\ At(program, x).op = "pop" -> rt_type = At(program, x).arg
        [] OTHER -> rt_type \in {150, 200}

IInv ==
  /\ TypeOK
  /\ Position
  /\ Rewritten
  /\ CallsFound
  /\ SegmentsFound
  /\ LastExit
  /\ Origins
  /\ MeasuredSoFar
  /\ TokenForEveryReturn
  /\ PopTypeOfCallee

-----------------------------------------------------------------------------
(* The text.                                                               *)

\* A program is a sequence of instructions.
LEMMA ProgramFacts ==
  ASSUME NEW p \in Programs
  PROVE  /\ p \in Seq(Inst)
         /\ Len(p) \in Nat /\ Len(p) > 1
         /\ text_start \in Nat /\ text_start > 0 /\ text_start % 4 = 0
<1>1. \A q \in Programs :
        q \in Seq([op : Ops, arg : Nat]) /\ Len(q) > 1
  BY HookitAssumption, Zenon
<1>2. text_start \in Nat \ {0} /\ text_start % 4 = 0
  BY HookitAssumption, Zenon
<1>3. p \in Seq(Inst)
  BY <1>1, Zenon DEF Inst
<1> QED
  BY <1>1, <1>2, <1>3

\* A word is four bytes.
LEMMA Quarter ==
  ASSUME NEW n \in Int, NEW x \in Int, x = 4 * n
  PROVE  x \div 4 = n
  OBVIOUS

\* Addresses of words and their places in the text.
LEMMA WordFacts ==
  ASSUME NEW p \in Programs
  PROVE  /\ \A n \in 1 .. Len(p) :
              /\ text_start + 4 * (n - 1) \in Words(p)
              /\ (text_start + 4 * (n - 1) - text_start) \div 4 + 1 = n
         /\ \A a \in Words(p) :
              /\ a \in Nat /\ text_start <= a
              /\ a <= text_start + 4 * (Len(p) - 1)
              /\ (a - text_start) \div 4 + 1 \in 1 .. Len(p)
              /\ a = text_start + 4 * ((a - text_start) \div 4)
<1>1. /\ Len(p) \in Nat /\ Len(p) > 1
      /\ text_start \in Nat
  BY ProgramFacts
<1>2. \A n \in 1 .. Len(p) :
        /\ text_start + 4 * (n - 1) \in Words(p)
        /\ (text_start + 4 * (n - 1) - text_start) \div 4 + 1 = n
  BY <1>1 DEF Words
<1>3. ASSUME NEW a \in Words(p)
      PROVE  /\ a \in Nat /\ text_start <= a
             /\ a <= text_start + 4 * (Len(p) - 1)
             /\ (a - text_start) \div 4 + 1 \in 1 .. Len(p)
             /\ a = text_start + 4 * ((a - text_start) \div 4)
  <2>1. PICK n \in 1 .. Len(p) : a = text_start + 4 * (n - 1)
    BY DEF Words
  <2>2. (a - text_start) \div 4 + 1 = n
    <3>1. n - 1 \in Int /\ a - text_start \in Int /\ a - text_start = 4 * (n - 1)
      BY <1>1, <2>1
    <3>2. (a - text_start) \div 4 = n - 1
      BY <3>1, Quarter
    <3> QED
      BY <3>2
  <2> QED
    BY <1>1, <2>1, <2>2
<1> QED
  BY <1>2, <1>3

\* Words follow each other at a distance of 4.
LEMMA NextWord ==
  ASSUME NEW p \in Programs, NEW a \in Words(p)
  PROVE  /\ a < text_start + 4 * (Len(p) - 1) => a + 4 \in Words(p)
         /\ a > text_start => a - 4 \in Words(p)
         /\ \A b \in Words(p) : a < b => a + 4 <= b
         /\ \A b \in Words(p) :
              (a - text_start) \div 4 = (b - text_start) \div 4 => a = b
<1>1. Len(p) \in Nat /\ text_start \in Nat
  BY ProgramFacts
<1>2. PICK n \in 1 .. Len(p) : a = text_start + 4 * (n - 1)
  BY DEF Words
<1>3. a < text_start + 4 * (Len(p) - 1) => a + 4 \in Words(p)
  <2>1. SUFFICES ASSUME a < text_start + 4 * (Len(p) - 1)
                 PROVE  a + 4 \in Words(p)
    OBVIOUS
  <2>2. n + 1 \in 1 .. Len(p) /\ a + 4 = text_start + 4 * ((n + 1) - 1)
    BY <1>1, <1>2, <2>1
  <2> QED
    BY <2>2 DEF Words
<1>4. a > text_start => a - 4 \in Words(p)
  <2>1. SUFFICES ASSUME a > text_start
                 PROVE  a - 4 \in Words(p)
    OBVIOUS
  <2>2. n - 1 \in 1 .. Len(p) /\ a - 4 = text_start + 4 * ((n - 1) - 1)
    BY <1>1, <1>2, <2>1
  <2> QED
    BY <2>2 DEF Words
<1>5. ASSUME NEW b \in Words(p), a < b
      PROVE  a + 4 <= b
  <2>1. PICK m \in 1 .. Len(p) : b = text_start + 4 * (m - 1)
    BY DEF Words
  <2> QED
    BY <1>1, <1>2, <1>5, <2>1
<1>6. ASSUME NEW b \in Words(p), (a - text_start) \div 4 = (b - text_start) \div 4
      PROVE  a = b
  BY <1>6, WordFacts
<1> QED
  BY <1>3, <1>4, <1>5, <1>6

\* The last exit is a word, the last one, and none of the two before it is data.
LEMMA TextEnd ==
  ASSUME program \in Programs
  PROVE  /\ text_end \in Words(program) /\ text_end \in Nat
         /\ text_end - 4 \in Words(program)
         /\ text_start \in Words(program)
         /\ text_start < text_end
         /\ \A a \in Words(program) : a <= text_end
         /\ At(program, text_end).op \in {"pop", "bx_lr"}
         /\ At(program, text_end - 4).op # "data"
<1>1. /\ Len(program) \in Nat /\ Len(program) > 1
      /\ text_start \in Nat
  BY ProgramFacts
<1>2. text_end = text_start + 4 * (Len(program) - 1)
  BY DEF text_end
<1>0. ASSUME NEW n \in 1 .. Len(program), NEW a, a = text_start + 4 * (n - 1)
      PROVE  a \in Words(program) /\ (a - text_start) \div 4 + 1 = n
  <2>1. a \in Words(program)
    BY <1>0 DEF Words
  <2>2. n - 1 \in Int /\ a - text_start \in Int /\ a - text_start = 4 * (n - 1)
    BY <1>0, <1>1
  <2>3. (a - text_start) \div 4 = n - 1
    BY <2>2, Quarter
  <2> QED
    BY <2>1, <2>3
<1>3. /\ text_end \in Words(program)
      /\ (text_end - text_start) \div 4 + 1 = Len(program)
  <2>1. Len(program) \in 1 .. Len(program)
    BY <1>1
  <2> QED
    BY <1>0, <1>2, <2>1
<1>4. /\ text_end - 4 \in Words(program)
      /\ (text_end - 4 - text_start) \div 4 + 1 = Len(program) - 1
  <2>1. Len(program) - 1 \in 1 .. Len(program)
    BY <1>1
  <2>2. text_end - 4 = text_start + 4 * ((Len(program) - 1) - 1)
    BY <1>1, <1>2
  <2> QED
    BY <1>0, <2>1, <2>2
<1>5. text_start \in Words(program)
  <2>1. 1 \in 1 .. Len(program) /\ text_start = text_start + 4 * (1 - 1)
    BY <1>1
  <2> QED
    BY <1>0, <2>1
<1>6. \A a \in Words(program) : a <= text_end
  BY <1>2, WordFacts
<1> QED
  <2>1. /\ program[Len(program) - 1].op # "data"
        /\ program[Len(program)].op \in {"pop", "bx_lr"}
    BY HookitAssumption, Zenon
  <2>2. /\ At(program, text_end) = program[Len(program)]
        /\ At(program, text_end - 4) = program[Len(program) - 1]
    BY <1>3, <1>4 DEF At
  <2>3. text_end \in Nat /\ text_start < text_end
    BY <1>1, <1>2
  <2> QED
    BY <1>3, <1>4, <1>5, <1>6, <2>1, <2>2, <2>3, Zenon

\* Instructions are records of the text.
LEMMA AtProgram ==
  ASSUME program \in Programs, NEW a \in Words(program)
  PROVE  /\ At(program, a) \in Inst
         /\ At(program, a).op = "bl" => At(program, a).arg % 4 = 0
         /\ At(program, a).op = "pop" =>
              At(program, a).arg \in 0 .. 17 \union {200}
<1>1. (a - text_start) \div 4 + 1 \in 1 .. Len(program)
  BY WordFacts
<1>2. program \in Seq(Inst)
  BY ProgramFacts
<1>3. \A n \in 1 .. Len(program) :
        /\ program[n].op = "bl" => program[n].arg % 4 = 0
        /\ program[n].op = "pop" => program[n].arg \in 0 .. 17 \union {200}
  BY HookitAssumption, Zenon
<1>4. program[(a - text_start) \div 4 + 1] \in Inst
  BY <1>1, <1>2
<1> QED
  BY <1>1, <1>3, <1>4, Zenon DEF At

\* What the definitions say of a program that stays as it is.
LEMMA SameProgram ==
  ASSUME program' = program
  PROVE  /\ text_end' = text_end
         /\ Calls' = Calls
         /\ Exits' = Exits
         /\ Hooked' = Hooked
  BY DEF text_end, Calls, Exits, Hooked, Words, At

\* The addresses of words are the multiples of 4 in the text.
LEMMA Aligned ==
  ASSUME program \in Programs,
         NEW a \in Nat, a % 4 = 0, text_start <= a, a <= text_end
  PROVE  a \in Words(program)
<1>1. /\ Len(program) \in Nat /\ Len(program) > 1
      /\ text_start \in Nat /\ text_start % 4 = 0
  BY ProgramFacts
<1>2. text_end = text_start + 4 * (Len(program) - 1)
  BY DEF text_end
<1> DEFINE n == (a \div 4) - (text_start \div 4) + 1
<1>3. a = 4 * (a \div 4) /\ a \div 4 \in Int
  OBVIOUS
<1>4. text_start = 4 * (text_start \div 4) /\ text_start \div 4 \in Int
  BY <1>1
<1>5. n \in 1 .. Len(program) /\ a = text_start + 4 * (n - 1)
  BY <1>1, <1>2, <1>3, <1>4
<1> QED
  BY <1>5 DEF Words

\* Writing to a word changes that word alone.
LEMMA Written ==
  ASSUME program \in Programs, mm \in Seq(Inst), Len(mm) = Len(program),
         next \in Words(program), Rewrite, NEW a \in Words(program)
  PROVE  At(mm', a) = IF a = next THEN [op |-> "bl", arg |-> Hook]
                                  ELSE At(mm, a)
<1> DEFINE i == (a - text_start) \div 4 + 1
           j == (next - text_start) \div 4 + 1
<1>1. i \in 1 .. Len(mm) /\ j \in 1 .. Len(mm)
  BY WordFacts
<1>2. i = j <=> a = next
  <2>1. (a - text_start) \div 4 \in Int /\ (next - text_start) \div 4 \in Int
    <3>1. a \in Nat /\ next \in Nat /\ text_start \in Nat
      BY WordFacts, ProgramFacts
    <3> QED
      BY <3>1
  <2>2. i = j => (a - text_start) \div 4 = (next - text_start) \div 4
    BY <2>1
  <2> QED
    BY <2>2, NextWord, Zenon
<1>3. mm' = [mm EXCEPT ![j] = [op |-> "bl", arg |-> Hook]]
  BY DEF Rewrite
<1> HIDE DEF i, j
<1>4. mm'[i] = IF i = j THEN [op |-> "bl", arg |-> Hook] ELSE mm[i]
  BY <1>1, <1>3
<1>5. At(mm', a) = mm'[i] /\ At(mm, a) = mm[i]
  BY DEF At, i
<1> QED
  BY <1>2, <1>4, <1>5, Zenon

-----------------------------------------------------------------------------
(* The sweep.                                                              *)

\* A word that is handled is new, as compiled, and the first since the last.
LEMMA FreshFacts ==
  ASSUME IInv, Fresh
  PROVE  /\ program \in Programs /\ phase = "sweep"
         /\ next \in Words(program) /\ next \in Nat
         /\ i_address \in Int /\ i_address < next
         /\ At(code, next) = At(program, next)
         /\ reach = i_address
         /\ \A a \in Words(program) :
              a <= next => a <= i_address \/ a = next
                                          \/ At(program, a).op = "data"
         /\ Op \in Ops \ {"data"} /\ Arg \in Nat
<1>1. program \in Programs /\ next \in Words(program)
      /\ i_address \in Words(program) \union {-1}
  BY DEF IInv, TypeOK
<1>2. phase = "sweep" /\ next # i_address /\ Op # "data"
  BY DEF Fresh, Decodes, Op
<1>3. \A a \in Words(program) : a \in Nat
  BY <1>1, WordFacts
<1>4. /\ next \in Nat /\ i_address \in Int
  BY <1>1, <1>3
<1>5. \/ next = current_address /\ i_address <= current_address
      \/ next = i_address + 4 /\ i_address >= current_address
  BY <1>2 DEF IInv, Position
<1>6. i_address < next
  BY <1>2, <1>4, <1>5
<1>7. /\ \A a \in Words(program) :
           i_address < a /\ a < next => At(program, a).op = "data"
      /\ \A a \in Words(program) : a > i_address => At(code, a) = At(program, a)
  BY <1>2 DEF IInv, Position
<1>8. At(code, next) = At(program, next)
  BY <1>1, <1>4, <1>6, <1>7
<1>9. Op \in Ops \ {"data"} /\ Arg \in Nat
  BY <1>1, <1>2, <1>8, AtProgram DEF Op, Arg, Inst
<1>10. ASSUME NEW a \in Words(program), a <= next
       PROVE  a <= i_address \/ a = next \/ At(program, a).op = "data"
  BY <1>3, <1>4, <1>7, <1>10
<1>11. reach = i_address
  BY <1>2 DEF reach
<1> QED
  BY <1>1, <1>2, <1>4, <1>6, <1>8, <1>9, <1>10, <1>11, Zenon

\* A step goes on to the next word, or to the second pass after the last.
LEMMA StepPosition ==
  ASSUME IInv, Fresh, Step
  PROVE  /\ program' = program /\ code' = code /\ k' = 0 /\ k = 0
         /\ current_address' = current_address
         /\ i_address' = next
         /\ reach' = next
         /\ next' \in Words(program)
         /\ phase' \in {"sweep", "fix"}
         /\ Position'
<1>1. /\ program' = program /\ code' = code /\ k' = k
      /\ current_address' = current_address /\ i_address' = next
      /\ IF next >= text_end THEN phase' = "fix" /\ next' = next
                             ELSE next' = next + 4 /\ phase' = phase
  BY DEF Step
<1>2. /\ k = 0 /\ current_address < text_end
      /\ \/ next = current_address /\ i_address <= current_address
         \/ next = i_address + 4 /\ i_address >= current_address
      /\ \A a \in Words(program) :
           /\ a > i_address => At(code, a) = At(program, a)
           /\ At(code, a).op = "data" => At(program, a).op = "data"
  BY FreshFacts DEF IInv, Position
<1>3. /\ text_end \in Nat /\ text_end' = text_end
      /\ \A a \in Words(program) : a <= text_end
  BY <1>1, FreshFacts, TextEnd, SameProgram
<1>4. /\ next \in Words(program) /\ next \in Nat /\ i_address \in Int
      /\ i_address < next /\ phase = "sweep" /\ program \in Programs
  BY FreshFacts
<1>5. CASE next >= text_end
  <2>1. phase' = "fix" /\ next' = next /\ next = text_end
    BY <1>1, <1>3, <1>4, <1>5
  <2>2. reach' = next /\ Position'
    BY <1>3, <2>1 DEF reach, Position
  <2> QED
    BY <1>1, <1>2, <1>4, <2>1, <2>2
<1>6. CASE ~(next >= text_end)
  <2>1. phase' = "sweep" /\ next' = next + 4
    BY <1>1, <1>4, <1>6
  <2>2. reach' = next
    BY <1>1, <2>1 DEF reach
  <2>3. next' \in Words(program)
    BY <1>3, <1>4, <1>6, <2>1, NextWord DEF text_end
  <2>4. current_address \in Nat
    BY <1>2, <1>4, WordFacts DEF IInv, TypeOK
  <2>5. \/ next' = current_address' /\ i_address' <= current_address'
        \/ next' = i_address' + 4 /\ i_address' >= current_address'
    BY <1>1, <1>2, <1>4, <2>1, <2>4
  <2>6. \A a \in Words(program) : ~(next < a /\ a < next + 4)
    <3>1. \A a \in Words(program) : a \in Nat /\ (next < a => next + 4 <= a)
      BY <1>4, NextWord, WordFacts
    <3> QED
      BY <1>4, <3>1
  <2>7. \A a \in Words(program) : a > next => At(code, a) = At(program, a)
    <3>1. \A a \in Words(program) : a \in Nat
      BY <1>4, WordFacts
    <3> QED
      BY <1>2, <1>4, <3>1
  <2>8. Words(program)' = Words(program) /\ \A a : At(code, a)' = At(code, a)
                                   /\ At(program, a)' = At(program, a)
    BY <1>1 DEF Words, At
  <2>9. Position'
    <3>1. k' = 0 /\ current_address' < text_end'
      BY <1>1, <1>2, <1>3
    <3>2. \A a \in Words(program)' :
            i_address' < a /\ a < next' => At(program, a)'.op = "data"
      BY <1>1, <2>1, <2>6, <2>8
    <3>3. \A a \in Words(program)' :
            /\ a > i_address' => At(code, a)' = At(program, a)'
            /\ At(code, a)'.op = "data" => At(program, a)'.op = "data"
      BY <1>1, <1>2, <2>7, <2>8
    <3> QED
      BY <2>5, <3>1, <3>2, <3>3, Zenon DEF Position
  <2> QED
    BY <1>1, <1>2, <2>1, <2>2, <2>3, <2>9
<1> QED
  BY <1>5, <1>6

\* Primed, the definitions are about the same text.
LEMMA SameText ==
  ASSUME program' = program
  PROVE  /\ Words(program)' = Words(program)
         /\ \A a : At(program, a)' = At(program, a)
         /\ \A a : ExitType(a)' = ExitType(a)
         /\ \A a : AfterExit(a)' = AfterExit(a)
         /\ \A a : FirstExit(a)' = FirstExit(a)
         /\ \A a, e : Measure(a, e)' = Measure(a, e)
<1>1. /\ Words(program)' = Words(program)
      /\ \A a : At(program, a)' = At(program, a)
      /\ Exits' = Exits
  BY SameProgram DEF Words, At
<1>2. \A a : ExitType(a)' = ExitType(a)
  BY <1>1 DEF ExitType
<1>3. \A a : AfterExit(a)' = AfterExit(a)
  BY <1>1 DEF AfterExit
<1>4. \A a : FirstExit(a)' = FirstExit(a)
  BY <1>1 DEF FirstExit
<1>5. \A a, e : Measure(a, e)' = Measure(a, e)
  BY <1>1 DEF Measure
<1> QED
  BY <1>1, <1>2, <1>3, <1>4, <1>5, Zenon

\* The word handled, and that alone, is written back when it is hooked.
LEMMA StepRewritten ==
  ASSUME IInv, Fresh, Step,
         \/ next \in Hooked /\ Rewrite
         \/ next \notin Hooked /\ mm' = mm
  PROVE  /\ Rewritten'
         /\ mm' \in Seq(Inst) /\ Len(mm') = Len(program')
<1>1. /\ program' = program /\ reach' = next /\ program \in Programs
      /\ next \in Words(program) /\ next \in Nat
      /\ i_address \in Int /\ i_address < next /\ reach = i_address
  BY FreshFacts, StepPosition
<1>2. /\ mm \in Seq(Inst) /\ Len(mm) = Len(program)
      /\ \A a \in Words(program) :
           At(mm, a) = IF a <= reach /\ a \in Hooked
                         THEN [op |-> "bl", arg |-> Hook] ELSE At(program, a)
  BY DEF IInv, TypeOK, Rewritten
<1>3. [op |-> "bl", arg |-> Hook] \in Inst
  BY HookitAssumption DEF Inst, Ops
<1>4. /\ mm' \in Seq(Inst) /\ Len(mm') = Len(program)
      /\ \A a \in Words(program) :
           At(mm', a) = IF a = next /\ next \in Hooked
                          THEN [op |-> "bl", arg |-> Hook] ELSE At(mm, a)
  <2>1. CASE next \in Hooked /\ Rewrite
    <3>1. mm' = [mm EXCEPT ![(next - text_start) \div 4 + 1] =
                    [op |-> "bl", arg |-> Hook]]
      BY <2>1 DEF Rewrite
    <3>2. mm' \in Seq(Inst) /\ Len(mm') = Len(program)
      <4>1. (next - text_start) \div 4 + 1 \in 1 .. Len(program)
        BY <1>1, WordFacts
      <4> QED
        BY <1>2, <1>3, <3>1, <4>1
    <3>3. \A a \in Words(program) :
            At(mm', a) = IF a = next THEN [op |-> "bl", arg |-> Hook]
                                     ELSE At(mm, a)
      BY <1>1, <1>2, <2>1, Written
    <3> QED
      BY <2>1, <3>2, <3>3
  <2>2. CASE next \notin Hooked /\ mm' = mm
    BY <1>2, <2>2
  <2> QED
    BY <2>1, <2>2
<1>5. ASSUME NEW a \in Words(program)
      PROVE  At(mm', a) = IF a <= next /\ a \in Hooked
                            THEN [op |-> "bl", arg |-> Hook] ELSE At(program, a)
  <2>1. a \in Nat
    BY <1>1, WordFacts
  <2>2. a \in Hooked => At(program, a).op # "data"
    BY DEF Hooked
  <2>3. a <= next => a <= i_address \/ a = next \/ At(program, a).op = "data"
    BY FreshFacts
  <2>4. CASE a = next
    BY <1>1, <1>2, <1>4, <2>4
  <2>5. CASE a # next
    BY <1>1, <1>2, <1>4, <2>1, <2>2, <2>3, <2>5
  <2> QED
    BY <2>4, <2>5
<1>6. Hooked' = Hooked /\ Words(program)' = Words(program)
      /\ (\A a : At(program, a)' = At(program, a))
      /\ (\A a : At(mm, a)' = At(mm', a))
  BY <1>1, SameProgram DEF Words, At
<1>7. Rewritten'
  BY <1>1, <1>5, <1>6 DEF Rewritten
<1> QED
  BY <1>1, <1>4, <1>7

\* The word handled gets a row when it is a call.
LEMMA StepCalls ==
  ASSUME IInv, Fresh, Step,
         \/ /\ next \in Calls
            /\ \E c : /\ cfs' = Append(cfs, c)
                      /\ c \in Row
                      /\ c.src = next /\ c.type = Op
                      /\ c.type = "bl" => c.dst = Arg
                      /\ c.measurement = None
         \/ next \notin Calls /\ cfs' = cfs
  PROVE  /\ CallsFound'
         /\ cfs' \in Seq(Row)
         /\ k' \in 0 .. Len(cfs')
         /\ Len(cfs) <= Len(cfs')
         /\ \A n \in 1 .. Len(cfs) : cfs'[n] = cfs[n]
<1>1. /\ program' = program /\ reach' = next /\ program \in Programs
      /\ next \in Words(program) /\ next \in Nat /\ k = 0 /\ k' = 0
      /\ i_address \in Int /\ i_address < next /\ reach = i_address
      /\ At(code, next) = At(program, next)
  BY FreshFacts, StepPosition
<1>2. /\ cfs \in Seq(Row) /\ Len(cfs) \in Nat
      /\ \A n \in 1 .. Len(cfs) :
           /\ cfs[n].src \in Calls
           /\ cfs[n].src <= reach
           /\ cfs[n].type = At(program, cfs[n].src).op
           /\ cfs[n].type = "bl" => cfs[n].dst = At(program, cfs[n].src).arg
           /\ n > k => cfs[n].measurement = None
      /\ \A m, n \in 1 .. Len(cfs) : m < n => cfs[m].src < cfs[n].src
      /\ \A a \in Calls : a <= reach => \E n \in 1 .. Len(cfs) : cfs[n].src = a
  BY DEF IInv, TypeOK, CallsFound, Row
<1>3. \A a \in Calls : a <= next => a <= i_address \/ a = next
  BY FreshFacts DEF Calls
<1>4. Calls \subseteq Nat
  BY <1>1, WordFacts DEF Calls
<1>5. \A n \in 1 .. Len(cfs) : cfs[n] \in Row /\ cfs[n].src \in Nat
  <2>1. \A n \in 1 .. Len(cfs) : cfs[n] \in Row
    BY <1>2
  <2> QED
    BY <1>2, <1>4, <2>1
<1>6. /\ cfs' \in Seq(Row) /\ Len(cfs') \in Nat /\ Len(cfs) <= Len(cfs')
      /\ \A n \in 1 .. Len(cfs) : cfs'[n] = cfs[n]
      /\ \A n \in 1 .. Len(cfs') :
           /\ cfs'[n].src \in Calls
           /\ cfs'[n].src <= next
           /\ cfs'[n].type = At(program, cfs'[n].src).op
           /\ cfs'[n].type = "bl" => cfs'[n].dst = At(program, cfs'[n].src).arg
           /\ cfs'[n].measurement = None
      /\ \A m, n \in 1 .. Len(cfs') : m < n => cfs'[m].src < cfs'[n].src
      /\ \A a \in Calls : a <= next => \E n \in 1 .. Len(cfs') : cfs'[n].src = a
  <2>1. CASE next \notin Calls /\ cfs' = cfs
    <3>1. \A n \in 1 .. Len(cfs) : cfs[n].src <= next
      BY <1>1, <1>2, <1>5
    <3>2. \A n \in 1 .. Len(cfs) : n > k
      BY <1>1
    <3>3. \A a \in Calls : a <= next => a <= reach
      BY <1>1, <1>3, <2>1
    <3> QED
      BY <1>2, <2>1, <3>1, <3>2, <3>3
  <2>2. CASE next \in Calls
    <3>1. PICK c : /\ cfs' = Append(cfs, c) /\ c \in Row
                   /\ c.src = next /\ c.type = At(program, next).op
                   /\ c.type = "bl" => c.dst = At(program, next).arg
                   /\ c.measurement = None
      BY <1>1, <2>2 DEF Op, Arg
    <3>2. /\ cfs' \in Seq(Row) /\ Len(cfs') = Len(cfs) + 1
          /\ \A n \in 1 .. Len(cfs) : cfs'[n] = cfs[n]
          /\ cfs'[Len(cfs) + 1] = c
      BY <1>2, <3>1
    <3>3. \A n \in 1 .. Len(cfs') : n \in 1 .. Len(cfs) \/ n = Len(cfs) + 1
      BY <1>2, <3>2
    <3>4. ASSUME NEW n \in 1 .. Len(cfs')
          PROVE  /\ cfs'[n].src \in Calls
                 /\ cfs'[n].src <= next
                 /\ cfs'[n].type = At(program, cfs'[n].src).op
                 /\ cfs'[n].type = "bl" =>
                      cfs'[n].dst = At(program, cfs'[n].src).arg
                 /\ cfs'[n].measurement = None
      <4>1. CASE n \in 1 .. Len(cfs)
        BY <1>1, <1>2, <1>5, <3>2, <4>1
      <4>2. CASE n = Len(cfs) + 1
        BY <1>1, <2>2, <3>1, <3>2, <4>2
      <4> QED
        BY <3>3, <4>1, <4>2
    <3>5. ASSUME NEW m \in 1 .. Len(cfs'), NEW n \in 1 .. Len(cfs'), m < n
          PROVE  cfs'[m].src < cfs'[n].src
      <4>1. m \in 1 .. Len(cfs)
        BY <1>2, <3>2, <3>5
      <4>2. CASE n \in 1 .. Len(cfs)
        BY <1>2, <3>2, <3>5, <4>1, <4>2
      <4>3. CASE n = Len(cfs) + 1
        BY <1>1, <1>2, <1>5, <3>1, <3>2, <4>1, <4>3
      <4> QED
        BY <3>3, <4>2, <4>3
    <3>6. ASSUME NEW a \in Calls, a <= next
          PROVE  \E n \in 1 .. Len(cfs') : cfs'[n].src = a
      <4>1. CASE a <= i_address
        BY <1>1, <1>2, <3>2, <4>1
      <4>2. CASE a = next
        BY <1>2, <3>1, <3>2, <4>2
      <4> QED
        BY <1>3, <3>6, <4>1, <4>2
    <3> QED
      BY <1>2, <3>2, <3>4, <3>5, <3>6
  <2> QED
    BY <2>1, <2>2
<1>7. Calls' = Calls /\ \A a : At(program, a)' = At(program, a)
  BY <1>1, SameProgram, SameText, Zenon
<1>8. CallsFound'
  BY <1>1, <1>6, <1>7 DEF CallsFound
<1> QED
  BY <1>1, <1>6, <1>8

\* A measurement begins where it is told to, and ends at the first data or at
\* the exit.
LEMMA MeasureFacts ==
  ASSUME program \in Programs,
         NEW a \in Nat, NEW e \in Words(program), a <= e
  PROVE  /\ Measure(a, e) \in Extent
         /\ Measure(a, e).start = a
         /\ Measure(a, e).end = e \/ At(program, Measure(a, e).end).op = "data"
         /\ Measure(a, e).end \in Words(program)
         /\ a <= Measure(a, e).end /\ Measure(a, e).end <= e
         /\ \A x \in Words(program) :
              a <= x /\ At(program, x).op = "data" => Measure(a, e).end <= x
<1> DEFINE stops == {x \in Words(program) :
                       a <= x /\ (x >= e \/ At(program, x).op = "data")}
           s == CHOOSE x \in stops : \A y \in stops : x <= y
<1>1. \A x \in Words(program) : x \in Nat
  BY WordFacts
<1>2. stops \in SUBSET Nat /\ e \in stops
  BY <1>1
<1>3. \E x \in stops : \A y \in stops : x <= y
  BY <1>2, LeastElement
<1>4. s \in stops /\ \A y \in stops : s <= y
  BY <1>3
<1>5. Measure(a, e) = [start |-> a, end |-> s]
  BY DEF Measure
<1>6. s \in Words(program) /\ s \in Nat /\ a <= s /\ s <= e
      /\ (s = e \/ At(program, s).op = "data")
      /\ \A x \in Words(program) :
           a <= x /\ At(program, x).op = "data" => s <= x
  BY <1>1, <1>2, <1>4
<1> HIDE DEF s
<1> QED
  BY <1>5, <1>6 DEF Extent

\* The word handled gets a segment when it is an exit, from the exit before.
LEMMA StepSegments ==
  ASSUME IInv, Fresh, Step,
         Len(cfs) <= Len(cfs'), \A n \in 1 .. Len(cfs) : cfs'[n] = cfs[n],
         Len(cfs) \in Nat, Len(cfs') \in Nat,
         \/ /\ next \in Exits
            /\ function_table' = Append(function_table, Segment(ExitType(next)))
            /\ lastAddress' = next + 4
         \/ /\ next \notin Exits
            /\ function_table' = function_table
            /\ lastAddress' = lastAddress
  PROVE  /\ SegmentsFound'
         /\ LastExit'
         /\ Origins'
         /\ function_table' \in Seq(Part)
         /\ lastAddress' \in Nat
<1>1. /\ program' = program /\ reach' = next /\ program \in Programs
      /\ next \in Words(program) /\ next \in Nat /\ i_address' = next
      /\ i_address \in Int /\ i_address < next /\ reach = i_address
      /\ phase = "sweep"
  BY FreshFacts, StepPosition
<1>2. /\ function_table \in Seq(Part) /\ Len(function_table) \in Nat
      /\ \A m \in 1 .. Len(function_table) :
           /\ function_table[m].end \in Exits
           /\ function_table[m].end <= i_address
           /\ text_start <= function_table[m].start
           /\ function_table[m].start <= function_table[m].end
           /\ function_table[m].rt_type = ExitType(function_table[m].end)
      /\ \A m, n \in 1 .. Len(function_table) :
           m < n => function_table[m].end < function_table[n].start
      /\ \A a \in Exits :
           a <= i_address =>
             \E m \in 1 .. Len(function_table) : function_table[m].end = a
  BY <1>1 DEF IInv, TypeOK, SegmentsFound, Part
<1>3. /\ lastAddress \in Nat /\ text_start \in Nat
      /\ text_start <= lastAddress
      /\ lastAddress <= IF i_address = -1 THEN text_start ELSE i_address + 4
      /\ \A m \in 1 .. Len(function_table) : function_table[m].end < lastAddress
      /\ AfterExit(lastAddress)
  BY <1>1, ProgramFacts DEF IInv, TypeOK, LastExit
<1>4. Exits \subseteq Nat /\ Exits \subseteq Words(program)
  BY <1>1, WordFacts DEF Exits
<1>5. \A a \in Exits : a <= next => a <= i_address \/ a = next
  BY FreshFacts DEF Exits
<1>6. \A m \in 1 .. Len(function_table) :
        /\ function_table[m] \in Part
        /\ function_table[m].end \in Nat /\ function_table[m].start \in Nat
  <2>1. \A m \in 1 .. Len(function_table) : function_table[m] \in Part
    BY <1>2
  <2> QED
    BY <2>1 DEF Part
<1>7. lastAddress <= next
  <2>1. text_start <= next
    BY <1>1, WordFacts
  <2>2. CASE i_address = -1
    BY <1>1, <1>3, <2>1, <2>2
  <2>3. CASE i_address # -1
    <3>1. i_address \in Words(program)
      BY <2>3 DEF IInv, TypeOK
    <3>2. i_address + 4 <= next
      BY <1>1, <3>1, NextWord
    <3> QED
      BY <1>1, <1>3, <2>3, <3>2
  <2> QED
    BY <2>2, <2>3
<1>8. \A m \in 1 .. Len(function_table) :
        \/ AfterExit(function_table[m].start)
        \/ \E n \in 1 .. Len(cfs') :
             cfs'[n].type = "bl" /\ cfs'[n].dst = function_table[m].start
  <2>1. \A m \in 1 .. Len(function_table) :
          \/ AfterExit(function_table[m].start)
          \/ \E n \in 1 .. Len(cfs) :
               cfs[n].type = "bl" /\ cfs[n].dst = function_table[m].start
    BY DEF IInv, Origins
  <2>2. \A n \in 1 .. Len(cfs) : n \in 1 .. Len(cfs')
    OBVIOUS
  <2> QED
    BY <2>1, <2>2
<1>9. /\ Exits' = Exits /\ Words(program)' = Words(program)
      /\ \A a : ExitType(a)' = ExitType(a)
      /\ \A a : AfterExit(a)' = AfterExit(a)
  BY <1>1, SameProgram, SameText, Zenon
<1>10. CASE next \notin Exits
  <2>1. function_table' = function_table /\ lastAddress' = lastAddress
    BY <1>10
  <2>2. SegmentsFound'
    <3>1. \A m \in 1 .. Len(function_table) : function_table[m].end <= next
      BY <1>1, <1>2, <1>6
    <3>2. \A a \in Exits : a <= next => a <= i_address
      BY <1>5, <1>10
    <3> QED
      BY <1>1, <1>2, <1>9, <2>1, <3>1, <3>2 DEF SegmentsFound
  <2>3. LastExit'
    <3>1. lastAddress <= next + 4 /\ next # -1
      BY <1>1, <1>3, <1>7
    <3> QED
      BY <1>1, <1>3, <1>9, <2>1, <3>1 DEF LastExit
  <2>4. Origins'
    BY <1>8, <1>9, <2>1 DEF Origins
  <2> QED
    BY <1>2, <1>3, <2>1, <2>2, <2>3, <2>4
<1>11. CASE next \in Exits
  <2> DEFINE N == Len(function_table)
             g == Segment(ExitType(next))
  <2>1. function_table' = Append(function_table, g) /\ lastAddress' = next + 4
    BY <1>11
  <2>2. /\ g.start = lastAddress /\ g.end = next /\ g.rt_type = ExitType(next)
        /\ g \in Part
    <3>1. g = [start |-> lastAddress, end |-> next, rt_type |-> ExitType(next),
               measurement |-> Measure(lastAddress, next)]
      BY DEF Segment
    <3>2. Measure(lastAddress, next) \in Extent
      BY <1>1, <1>3, <1>7, MeasureFacts
    <3>3. ExitType(next) \in Nat
      BY <1>1, AtProgram DEF ExitType, Inst
    <3> HIDE DEF g
    <3> QED
      BY <1>1, <1>3, <3>1, <3>2, <3>3 DEF Part
  <2> HIDE DEF g
  <2>3. /\ function_table' \in Seq(Part) /\ Len(function_table') = N + 1
        /\ \A m \in 1 .. N : function_table'[m] = function_table[m]
        /\ function_table'[N + 1] = g
    BY <1>2, <2>1, <2>2
  <2>4. \A m \in 1 .. Len(function_table') : m \in 1 .. N \/ m = N + 1
    BY <1>2, <2>3
  <2>5. ASSUME NEW m \in 1 .. Len(function_table')
        PROVE  /\ function_table'[m].end \in Exits
               /\ function_table'[m].end <= next
               /\ text_start <= function_table'[m].start
               /\ function_table'[m].start <= function_table'[m].end
               /\ function_table'[m].rt_type = ExitType(function_table'[m].end)
    <3>1. CASE m \in 1 .. N
      BY <1>1, <1>2, <1>6, <2>3, <3>1
    <3>2. CASE m = N + 1
      BY <1>1, <1>3, <1>7, <1>11, <2>2, <2>3, <3>2
    <3> QED
      BY <2>4, <3>1, <3>2
  <2>6. ASSUME NEW m \in 1 .. Len(function_table'),
               NEW n \in 1 .. Len(function_table'), m < n
        PROVE  function_table'[m].end < function_table'[n].start
    <3>1. m \in 1 .. N
      BY <1>2, <2>3, <2>6
    <3>2. CASE n \in 1 .. N
      BY <1>2, <2>3, <2>6, <3>1, <3>2
    <3>3. CASE n = N + 1
      BY <1>3, <2>2, <2>3, <3>1, <3>3
    <3> QED
      BY <2>4, <3>2, <3>3
  <2>7. ASSUME NEW a \in Exits, a <= next
        PROVE  \E m \in 1 .. Len(function_table') : function_table'[m].end = a
    <3>1. CASE a <= i_address
      BY <1>2, <2>3, <3>1
    <3>2. CASE a = next
      BY <1>2, <2>2, <2>3, <3>2
    <3> QED
      BY <1>5, <2>7, <3>1, <3>2
  <2>8. SegmentsFound'
    BY <1>1, <1>9, <2>5, <2>6, <2>7 DEF SegmentsFound
  <2>9. AfterExit(next + 4)
    <3>1. \A a \in Words(program) : a < next + 4 => a <= next
      <4>1. \A a \in Words(program) : a \in Nat /\ (next < a => next + 4 <= a)
        BY <1>1, NextWord, WordFacts
      <4> QED
        BY <1>1, <4>1
    <3> QED
      BY <1>1, <1>11, <3>1 DEF AfterExit
  <2>10. LastExit'
    <3>1. /\ text_start <= next + 4 /\ next # -1
      BY <1>1, <1>3, <1>7
    <3>2. ASSUME NEW m \in 1 .. Len(function_table')
          PROVE  function_table'[m].end < next + 4
      <4>1. function_table'[m].end \in Nat /\ function_table'[m].end <= next
        BY <1>4, <2>5
      <4> QED
        BY <1>1, <4>1
    <3> QED
      BY <1>1, <1>9, <2>1, <2>9, <3>1, <3>2 DEF LastExit
  <2>11. Origins'
    <3>1. ASSUME NEW m \in 1 .. Len(function_table')
          PROVE  \/ AfterExit(function_table'[m].start)
                 \/ \E n \in 1 .. Len(cfs') :
                      /\ cfs'[n].type = "bl"
                      /\ cfs'[n].dst = function_table'[m].start
      BY <1>3, <1>8, <2>2, <2>3, <2>4
    <3> QED
      BY <1>9, <3>1 DEF Origins
  <2> QED
    BY <1>1, <2>1, <2>3, <2>8, <2>10, <2>11
<1> QED
  BY <1>10, <1>11

\* In the sweep, nothing is said yet of what the second pass writes.
LEMMA BeforePass ==
  ASSUME k' = 0
  PROVE  MeasuredSoFar' /\ TokenForEveryReturn' /\ PopTypeOfCallee'
<1>1. \A n \in 1 .. k' : FALSE
  OBVIOUS
<1> QED
  BY <1>1 DEF MeasuredSoFar, TokenForEveryReturn, PopTypeOfCallee

\* A word handled keeps the invariant: hooked or not, call, exit or neither.
LEMMA StepInvariant ==
  ASSUME IInv, Fresh, Step,
         \/ next \in Hooked /\ Rewrite
         \/ next \notin Hooked /\ mm' = mm,
         \/ /\ next \in Calls
            /\ \E c : /\ cfs' = Append(cfs, c)
                      /\ c \in Row
                      /\ c.src = next /\ c.type = Op
                      /\ c.type = "bl" => c.dst = Arg
                      /\ c.measurement = None
         \/ next \notin Calls /\ cfs' = cfs,
         \/ /\ next \in Exits
            /\ function_table' = Append(function_table, Segment(ExitType(next)))
            /\ lastAddress' = next + 4
         \/ /\ next \notin Exits
            /\ function_table' = function_table
            /\ lastAddress' = lastAddress
  PROVE  IInv'
<1>1. /\ program' = program /\ code' = code /\ k' = 0
      /\ current_address' = current_address /\ i_address' = next
      /\ next' \in Words(program) /\ phase' \in {"sweep", "fix"}
      /\ next \in Words(program)
      /\ Position'
  BY StepPosition, FreshFacts
<1>2. Rewritten' /\ mm' \in Seq(Inst) /\ Len(mm') = Len(program')
  BY StepRewritten
<1>3. /\ CallsFound' /\ cfs' \in Seq(Row) /\ k' \in 0 .. Len(cfs')
      /\ Len(cfs) <= Len(cfs') /\ \A n \in 1 .. Len(cfs) : cfs'[n] = cfs[n]
  BY StepCalls
<1>4. Len(cfs) \in Nat /\ Len(cfs') \in Nat
  BY <1>3 DEF IInv, TypeOK
<1>5. /\ SegmentsFound' /\ LastExit' /\ Origins'
      /\ function_table' \in Seq(Part) /\ lastAddress' \in Nat
  BY <1>3, <1>4, StepSegments
<1>6. TypeOK'
  <2>1. Words(program)' = Words(program) /\ Len(program') = Len(program)
    BY <1>1 DEF Words
  <2>2. /\ program \in Programs /\ code \in Seq(Inst) /\ Len(code) = Len(program)
        /\ current_address \in Words(program)
    BY DEF IInv, TypeOK
  <2> QED
    BY <1>1, <1>2, <1>3, <1>5, <2>1, <2>2 DEF TypeOK, Row, Part
<1> QED
  BY <1>1, <1>2, <1>3, <1>5, <1>6, BeforePass DEF IInv

\* Which words are calls, exits and hooked is a matter of their instruction.
LEMMA FreshKinds ==
  ASSUME IInv, Fresh
  PROVE  /\ next \in Calls <=> Op \in {"bl", "blx"}
         /\ next \in Exits <=> Op \in {"pop", "bx_lr"}
         /\ next \in Hooked <=>
              Op \in {"bl", "blx", "pop", "bx_lr", "pop_fp_lr"}
         /\ ExitType(next) = IF Op = "bx_lr" THEN 150 ELSE Arg
         /\ Op = "pop" => Arg \in 0 .. 17 \union {200}
         /\ Op \in Ops \ {"data"} /\ Arg \in Nat /\ next \in Nat
<1>1. /\ program \in Programs /\ next \in Words(program)
      /\ At(code, next) = At(program, next)
      /\ Op \in Ops \ {"data"} /\ Arg \in Nat /\ next \in Nat
  BY FreshFacts
<1>2. Op = At(program, next).op /\ Arg = At(program, next).arg
  BY <1>1 DEF Op, Arg
<1>3. Op = "pop" => Arg \in 0 .. 17 \union {200}
  BY <1>1, <1>2, AtProgram
<1> QED
  BY <1>1, <1>2, <1>3 DEF Calls, Exits, Hooked, ExitType

\* An instruction given twice is passed over.
LEMMA DuplicateInvariant ==
  ASSUME IInv, Duplicate
  PROVE  IInv'
<1>1. /\ phase = "sweep" /\ next = i_address /\ next' = next + 4
      /\ UNCHANGED <<program, mm, code, current_address, i_address, lastAddress,
                     cfs, function_table, k, phase>>
  BY DEF Duplicate
<1>2. /\ k = 0 /\ current_address < text_end
      /\ \/ next = current_address /\ i_address <= current_address
         \/ next = i_address + 4 /\ i_address >= current_address
      /\ \A a \in Words(program) :
           /\ a > i_address => At(code, a) = At(program, a)
           /\ At(code, a).op = "data" => At(program, a).op = "data"
  BY <1>1 DEF IInv, Position
<1>3. program \in Programs /\ next \in Words(program) /\ next \in Nat
  BY WordFacts DEF IInv, TypeOK
<1>4. next < text_end /\ next >= current_address
  BY <1>1, <1>2, <1>3
<1>5. next' \in Words(program)
  BY <1>1, <1>3, <1>4, NextWord DEF text_end
<1>6. /\ Words(program)' = Words(program)
      /\ \A a : At(program, a)' = At(program, a) /\ At(code, a)' = At(code, a)
                /\ At(mm, a)' = At(mm, a)
      /\ \A a : AfterExit(a)' = AfterExit(a) /\ ExitType(a)' = ExitType(a)
      /\ text_end' = text_end /\ reach' = reach
      /\ Calls' = Calls /\ Exits' = Exits /\ Hooked' = Hooked
  <2>1. \A a : At(code, a)' = At(code, a) /\ At(mm, a)' = At(mm, a)
    BY <1>1 DEF At
  <2>2. text_end' = text_end /\ reach' = reach
    BY <1>1, SameProgram DEF reach
  <2> QED
    BY <1>1, <2>1, <2>2, SameProgram, SameText, Zenon
<1>7. TypeOK'
  BY <1>1, <1>5, <1>6 DEF IInv, TypeOK
<1>8. Position'
  <2>1. ASSUME NEW a \in Words(program)
        PROVE  ~(next < a /\ a < next + 4)
    BY <1>3, NextWord, WordFacts
  <2> QED
    BY <1>1, <1>2, <1>3, <1>4, <1>6, <2>1 DEF Position
<1>9. Rewritten' /\ CallsFound' /\ SegmentsFound' /\ LastExit' /\ Origins'
  BY <1>1, <1>6 DEF IInv, Rewritten, CallsFound, SegmentsFound, LastExit, Origins
<1> QED
  BY <1>1, <1>2, <1>7, <1>8, <1>9, BeforePass DEF IInv

\* A chunk begins with instructions not handled yet, before the last exit, or
\* with the last one handled.
LEMMA NextChunkInvariant ==
  ASSUME IInv, NextChunk
  PROVE  IInv'
<1> DEFINE a == IF i_address > current_address THEN i_address
                                               ELSE current_address + 4
<1>1. /\ phase = "sweep"
      /\ IF a >= text_end
           THEN phase' = "fix" /\ UNCHANGED <<current_address, next, code>>
           ELSE /\ current_address' = a /\ next' = a /\ code' = mm
                /\ phase' = phase
      /\ UNCHANGED <<program, mm, i_address, lastAddress, cfs, function_table, k>>
  BY DEF NextChunk
<1>2. /\ k = 0 /\ current_address < text_end
      /\ \/ next = current_address /\ i_address <= current_address
         \/ next = i_address + 4 /\ i_address >= current_address
      /\ \A x \in Words(program) :
           i_address < x /\ x < next => At(program, x).op = "data"
      /\ \A x \in Words(program) :
           /\ x > i_address => At(code, x) = At(program, x)
           /\ At(code, x).op = "data" => At(program, x).op = "data"
  BY <1>1 DEF IInv, Position
<1>3. /\ program \in Programs /\ next \in Words(program) /\ next \in Nat
      /\ current_address \in Words(program) /\ current_address \in Nat
      /\ i_address \in Words(program) \union {-1} /\ i_address \in Int
  <2>1. /\ program \in Programs /\ next \in Words(program)
        /\ current_address \in Words(program)
        /\ i_address \in Words(program) \union {-1}
    BY DEF IInv, TypeOK
  <2> QED
    BY <2>1, WordFacts
<1>4. At(program, next).op = "data"
  <2>1. Words(code) = Words(program)
    BY DEF IInv, TypeOK, Words
  <2>2. At(code, next).op = "data"
    BY <1>3, <2>1 DEF NextChunk, Decodes
  <2> QED
    BY <1>2, <1>3, <2>2
<1>5. /\ text_end \in Nat /\ text_end' = text_end
      /\ \A x \in Words(program) : x <= text_end
      /\ next # text_end /\ next # text_end - 4
  BY <1>1, <1>3, <1>4, TextEnd, SameProgram
<1>6. next + 4 \in Words(program) /\ next + 4 < text_end
  <2>1. next < text_end
    BY <1>3, <1>5
  <2>2. next + 4 \in Words(program)
    BY <1>3, <2>1, NextWord DEF text_end
  <2> QED
    BY <1>3, <1>5, <2>2
<1>7. /\ a \in Words(program) /\ a \in Nat /\ a < text_end /\ i_address <= a
      /\ a <= next + 4
  <2>1. CASE i_address > current_address
    <3>1. a = i_address /\ next = i_address + 4
      BY <1>2, <1>3, <2>1
    <3> QED
      BY <1>3, <1>5, <1>6, <2>1, <3>1
  <2>2. CASE ~(i_address > current_address)
    <3>1. a = current_address + 4 /\ (a = next \/ a = next + 4)
      BY <1>2, <1>3, <2>2
    <3> QED
      BY <1>3, <1>5, <1>6, <2>2, <3>1
  <2> QED
    BY <2>1, <2>2
<1> HIDE DEF a
<1>8. /\ current_address' = a /\ next' = a /\ code' = mm /\ phase' = phase
  BY <1>1, <1>5, <1>7
<1>9. /\ Words(program)' = Words(program)
      /\ \A x : At(program, x)' = At(program, x) /\ At(code, x)' = At(mm, x)
                /\ At(mm, x)' = At(mm, x)
      /\ \A x : AfterExit(x)' = AfterExit(x) /\ ExitType(x)' = ExitType(x)
      /\ reach' = reach /\ reach = i_address
      /\ Calls' = Calls /\ Exits' = Exits /\ Hooked' = Hooked
  <2>1. \A x : At(code, x)' = At(mm, x) /\ At(mm, x)' = At(mm, x)
    BY <1>1, <1>8 DEF At
  <2>2. reach' = reach /\ reach = i_address
    BY <1>1, <1>5, <1>8 DEF reach
  <2> QED
    BY <1>1, <2>1, <2>2, SameProgram, SameText, Zenon
<1>10. TypeOK'
  BY <1>1, <1>7, <1>8, <1>9 DEF IInv, TypeOK
<1>11. Position'
  <2>1. ASSUME NEW x \in Words(program), i_address < x, x < a
        PROVE  At(program, x).op = "data"
    <3>1. x \in Nat
      BY <1>3, WordFacts
    <3>2. x < next \/ x = next
      <4>1. next < x => next + 4 <= x
        BY <1>3, NextWord
      <4> QED
        BY <1>3, <1>7, <2>1, <3>1, <4>1
    <3> QED
      BY <1>2, <1>4, <2>1, <3>2
  <2>2. ASSUME NEW x \in Words(program)
        PROVE  /\ x > i_address => At(mm, x) = At(program, x)
               /\ At(mm, x).op = "data" => At(program, x).op = "data"
    <3>1. At(mm, x) = IF x <= i_address /\ x \in Hooked
                        THEN [op |-> "bl", arg |-> Hook] ELSE At(program, x)
      BY <1>9 DEF IInv, Rewritten
    <3>2. x \in Nat
      BY <1>3, WordFacts
    <3> QED
      BY <1>3, <3>1, <3>2
  <2> QED
    BY <1>1, <1>2, <1>5, <1>7, <1>8, <1>9, <2>1, <2>2 DEF Position
<1>12. Rewritten' /\ CallsFound' /\ SegmentsFound' /\ LastExit' /\ Origins'
  BY <1>1, <1>8, <1>9
  DEF IInv, Rewritten, CallsFound, SegmentsFound, LastExit, Origins
<1> QED
  BY <1>1, <1>2, <1>10, <1>11, <1>12, BeforePass DEF IInv

\* The sweep keeps the invariant, whatever the instruction is.
LEMMA SweepInvariant ==
  ASSUME IInv,
         \/ PassOver \/ rewrite_branch_with_link \/ rewrite_blx_rx
         \/ rewrite_branch_and_exchange_lr \/ rewrite_pop_fp_pc
         \/ rewrite_pop_fp_lr
  PROVE  IInv'
<1>0. Fresh /\ Step
  BY DEF PassOver, rewrite_branch_with_link, rewrite_blx_rx,
         rewrite_branch_and_exchange_lr, rewrite_pop_fp_pc, rewrite_pop_fp_lr
<1>1. /\ next \in Calls <=> Op \in {"bl", "blx"}
      /\ next \in Exits <=> Op \in {"pop", "bx_lr"}
      /\ next \in Hooked <=> Op \in {"bl", "blx", "pop", "bx_lr", "pop_fp_lr"}
      /\ ExitType(next) = IF Op = "bx_lr" THEN 150 ELSE Arg
      /\ Arg \in Nat /\ next \in Nat
  BY <1>0, FreshKinds
<1>2. CASE PassOver
  <2>1. /\ Op \in {"omit", "other"}
        /\ UNCHANGED <<mm, lastAddress, cfs, function_table>>
    BY <1>2 DEF PassOver
  <2>2. next \notin Calls /\ next \notin Exits /\ next \notin Hooked
    BY <1>1, <2>1
  <2> QED
    BY <1>0, <2>1, <2>2, StepInvariant
<1>3. CASE rewrite_branch_with_link
  <2>1. /\ Op = "bl" /\ Rewrite /\ cfs' = Append(cfs, Call("bl", Arg, 200))
        /\ UNCHANGED <<lastAddress, function_table>>
    BY <1>3 DEF rewrite_branch_with_link
  <2>2. next \in Calls /\ next \notin Exits /\ next \in Hooked
    BY <1>1, <2>1
  <2>3. LET c == Call("bl", Arg, 200)
        IN  c \in Row /\ c.src = next /\ c.type = Op /\ c.dst = Arg
            /\ c.measurement = None
    BY <1>1, <2>1 DEF Call, Row, None, Extent
  <2> QED
    BY <1>0, <2>1, <2>2, <2>3, StepInvariant
<1>4. CASE rewrite_blx_rx
  <2>1. /\ Op = "blx" /\ Rewrite /\ cfs' = Append(cfs, Call("blx", 0, Arg))
        /\ UNCHANGED <<lastAddress, function_table>>
    BY <1>4 DEF rewrite_blx_rx
  <2>2. next \in Calls /\ next \notin Exits /\ next \in Hooked
    BY <1>1, <2>1
  <2>3. LET c == Call("blx", 0, Arg)
        IN  c \in Row /\ c.src = next /\ c.type = Op /\ c.type # "bl"
            /\ c.measurement = None
    BY <1>1, <2>1 DEF Call, Row, None, Extent
  <2> QED
    BY <1>0, <2>1, <2>2, <2>3, StepInvariant
<1>5. CASE rewrite_branch_and_exchange_lr \/ rewrite_pop_fp_pc
  <2>1. /\ Op \in {"bx_lr", "pop"} /\ Rewrite
        /\ function_table' = Append(function_table,
                               Segment(IF Op = "bx_lr" THEN 150 ELSE Arg))
        /\ lastAddress' = next + 4 /\ cfs' = cfs
    BY <1>5 DEF rewrite_branch_and_exchange_lr, rewrite_pop_fp_pc
  <2>2. next \notin Calls /\ next \in Exits /\ next \in Hooked
    BY <1>1, <2>1
  <2> QED
    BY <1>0, <1>1, <2>1, <2>2, StepInvariant
<1>6. CASE rewrite_pop_fp_lr
  <2>1. Op = "pop_fp_lr" /\ Rewrite
        /\ UNCHANGED <<lastAddress, cfs, function_table>>
    BY <1>6 DEF rewrite_pop_fp_lr
  <2>2. next \notin Calls /\ next \notin Exits /\ next \in Hooked
    BY <1>1, <2>1
  <2> QED
    BY <1>0, <2>1, <2>2, StepInvariant
<1> QED
  BY <1>2, <1>3, <1>4, <1>5, <1>6

-----------------------------------------------------------------------------
(* The second pass.                                                        *)

\* The first exit after an address, when there is one.
LEMMA FirstExitFacts ==
  ASSUME program \in Programs, NEW a \in Nat, NEW x \in Exits, a <= x
  PROVE  /\ FirstExit(a) \in Exits /\ a <= FirstExit(a)
         /\ \A y \in Exits : a <= y => FirstExit(a) <= y
<1> DEFINE S == {y \in Exits : a <= y}
<1>1. Exits \subseteq Nat
  BY WordFacts DEF Exits
<1>2. S \in SUBSET Nat /\ S # {}
  BY <1>1
<1>3. PICK e \in S : \A y \in S : e <= y
  BY <1>2, LeastElement
<1>4. e \in Exits /\ e >= a /\ \A y \in Exits : y >= a => e <= y
  BY <1>1, <1>3
<1>5. /\ FirstExit(a) \in Exits /\ FirstExit(a) >= a
      /\ \A y \in Exits : y >= a => FirstExit(a) <= y
  BY <1>4 DEF FirstExit
<1> QED
  BY <1>1, <1>5

\* It is the one without exits before it.
LEMMA FirstExitIs ==
  ASSUME program \in Programs, NEW a \in Nat, NEW e \in Exits, a <= e,
         \A y \in Exits : a <= y => e <= y
  PROVE  FirstExit(a) = e
<1>1. Exits \subseteq Nat
  BY WordFacts DEF Exits
<1>2. /\ FirstExit(a) \in Exits /\ a <= FirstExit(a)
      /\ \A y \in Exits : a <= y => FirstExit(a) <= y
  BY FirstExitFacts
<1>3. FirstExit(a) <= e /\ e <= FirstExit(a)
  BY <1>2
<1>4. FirstExit(a) \in Nat /\ e \in Nat
  BY <1>1, <1>2
<1> QED
  BY <1>3, <1>4

\* The search for the segment finds one when there is one.
LEMMA HoldingFacts ==
  ASSUME Len(function_table) \in Nat, NEW a
  PROVE  /\ \A m \in Holding(a) :
              /\ m \in 1 .. Len(function_table)
              /\ function_table[m].start <= a /\ a <= function_table[m].end
         /\ \A m \in 1 .. Len(function_table) :
              function_table[m].start <= a /\ a <= function_table[m].end
                => Holding(a) # {}
<1> DEFINE found == {m \in 1 .. Len(function_table) :
                       function_table[m].start <= a /\ a <= function_table[m].end}
<1>1. Holding(a) = IF found = {} THEN {}
                   ELSE {CHOOSE m \in found : \A n \in found : m <= n}
  BY DEF Holding
<1>2. CASE found = {}
  BY <1>1, <1>2
<1>3. CASE found # {}
  <2>1. found \in SUBSET Nat
    OBVIOUS
  <2>2. \E m \in found : \A n \in found : m <= n
    BY <1>3, <2>1, LeastElement
  <2>3. (CHOOSE m \in found : \A n \in found : m <= n) \in found
    BY <2>2
  <2> QED
    BY <1>1, <1>3, <2>3
<1> QED
  BY <1>2, <1>3

\* What the second pass knows of the tables.
LEMMA TablesFacts ==
  ASSUME IInv, phase # "sweep"
  PROVE  /\ program \in Programs /\ reach = text_end
         /\ Exits \subseteq Nat /\ Exits \subseteq Words(program)
         /\ function_table \in Seq(Part) /\ Len(function_table) \in Nat
         /\ \A m \in 1 .. Len(function_table) :
              /\ function_table[m].end \in Exits
              /\ function_table[m].start \in Nat
              /\ text_start <= function_table[m].start
              /\ function_table[m].start <= function_table[m].end
              /\ function_table[m].rt_type = ExitType(function_table[m].end)
         /\ \A m, n \in 1 .. Len(function_table) :
              m < n => function_table[m].end < function_table[n].start
         /\ \A e \in Exits :
              \E m \in 1 .. Len(function_table) : function_table[m].end = e
<1>1. program \in Programs /\ reach = text_end
  BY DEF IInv, TypeOK, reach
<1>2. Exits \subseteq Nat /\ Exits \subseteq Words(program)
  BY <1>1, WordFacts DEF Exits
<1>3. \A e \in Exits : e <= reach
  BY <1>1, TextEnd DEF Exits
<1>4. function_table \in Seq(Part) /\ Len(function_table) \in Nat
  BY DEF IInv, TypeOK, Part
<1>5. \A m \in 1 .. Len(function_table) : function_table[m] \in Part
  BY <1>4
<1>6. \A m \in 1 .. Len(function_table) : function_table[m].start \in Nat
  BY <1>5 DEF Part
<1> QED
  BY <1>1, <1>2, <1>3, <1>4, <1>6 DEF IInv, SegmentsFound

\* The segment an address is in ends at the first exit after it, and the
\* segment after that one at the second.
LEMMA SegmentOf ==
  ASSUME IInv, phase # "sweep", NEW a \in Nat,
         NEW m \in 1 .. Len(function_table),
         function_table[m].start <= a, a <= function_table[m].end
  PROVE  /\ FirstExit(a) = function_table[m].end
         /\ m < Len(function_table) =>
              /\ FirstExit(function_table[m].end + 4) = function_table[m + 1].end
              /\ function_table[m + 1].end > function_table[m].end
         /\ m = Len(function_table) =>
              \A e \in Exits : e <= function_table[m].end
<1> DEFINE f == function_table
<1>1. /\ program \in Programs /\ Exits \subseteq Nat
      /\ Exits \subseteq Words(program) /\ Len(f) \in Nat
      /\ \A n \in 1 .. Len(f) :
           /\ f[n].end \in Exits /\ f[n].start \in Nat
           /\ f[n].start <= f[n].end
      /\ \A i, n \in 1 .. Len(f) : i < n => f[i].end < f[n].start
      /\ \A e \in Exits : \E n \in 1 .. Len(f) : f[n].end = e
  BY TablesFacts
<1>2. /\ m \in 1 .. Len(f)
      /\ f[m].end \in Nat /\ f[m].end \in Exits /\ f[m].end \in Words(program)
  BY <1>1
<1> HIDE DEF f
<1>3. ASSUME NEW e \in Exits, a <= e
      PROVE  f[m].end <= e
  <2>1. PICK n \in 1 .. Len(f) : f[n].end = e
    BY <1>1
  <2>2. CASE n < m
    BY <1>1, <1>3, <2>1, <2>2 DEF f
  <2>3. CASE m < n
    BY <1>1, <1>2, <2>1, <2>3
  <2> QED
    BY <1>2, <2>1, <2>2, <2>3
<1>4. FirstExit(a) = f[m].end
  BY <1>1, <1>3, FirstExitIs DEF f
<1>5. ASSUME m < Len(f)
      PROVE  FirstExit(f[m].end + 4) = f[m + 1].end /\ f[m + 1].end > f[m].end
  <2>1. m + 1 \in 1 .. Len(f) /\ m < m + 1
    BY <1>1, <1>5
  <2>2. f[m].end < f[m + 1].start /\ f[m + 1].start <= f[m + 1].end
        /\ f[m + 1].end \in Exits /\ f[m + 1].start \in Nat
    BY <1>1, <2>1
  <2>3. f[m].end < f[m + 1].end /\ f[m + 1].end \in Nat
        /\ f[m + 1].end \in Words(program)
    <3>1. f[m + 1].end \in Nat /\ f[m + 1].end \in Words(program)
      BY <1>1, <2>2
    <3> QED
      BY <1>2, <2>2, <3>1
  <2>4. f[m].end + 4 <= f[m + 1].end
    BY <1>1, <1>2, <2>3, NextWord
  <2>5. ASSUME NEW e \in Exits, f[m].end + 4 <= e
        PROVE  f[m + 1].end <= e
    <3>1. PICK n \in 1 .. Len(f) : f[n].end = e
      BY <1>1
    <3>2. CASE n < m
      <4>1. f[n].end < f[m].start /\ f[m].start <= f[m].end
            /\ f[m].start \in Nat /\ e \in Nat
        BY <1>1, <1>2, <3>1, <3>2
      <4> QED
        BY <1>2, <2>5, <3>1, <4>1
    <3>3. CASE n = m
      BY <1>2, <2>5, <3>1, <3>3
    <3>4. CASE n = m + 1
      BY <2>3, <3>1, <3>4
    <3>5. CASE m + 1 < n
      <4>1. f[m + 1].end < f[n].start /\ f[n].start <= f[n].end
            /\ f[n].start \in Nat /\ e \in Nat
        BY <1>1, <2>1, <3>1, <3>5
      <4> QED
        BY <2>3, <3>1, <4>1
    <3> QED
      BY <3>2, <3>3, <3>4, <3>5
  <2>6. f[m].end + 4 \in Nat
    BY <1>2
  <2> QED
    BY <1>1, <2>2, <2>3, <2>4, <2>5, <2>6, FirstExitIs
<1>6. ASSUME m = Len(f), NEW e \in Exits
      PROVE  e <= f[m].end
  <2>1. PICK n \in 1 .. Len(f) : f[n].end = e
    BY <1>1
  <2>2. CASE n < m
    <3>1. e < f[m].start /\ f[m].start <= f[m].end /\ f[m].start \in Nat
          /\ e \in Nat
      BY <1>1, <1>2, <2>1, <2>2
    <3> QED
      BY <1>2, <3>1
  <2>3. CASE n = m
    BY <1>2, <2>1, <2>3
  <2> QED
    BY <1>1, <1>6, <2>2, <2>3
<1> QED
  BY <1>4, <1>5, <1>6 DEF f

\* A callee with an exit of its own is in a segment.
LEMMA CalleeHeld ==
  ASSUME IInv, phase # "sweep", NEW n \in 1 .. Len(cfs),
         Measured(n), ~Exitless(cfs[n].dst)
  PROVE  Holding(cfs[n].dst) # {}
<1> DEFINE d == cfs[n].dst
           f == function_table
<1>1. /\ program \in Programs /\ Exits \subseteq Nat /\ Len(f) \in Nat
      /\ \A m \in 1 .. Len(f) :
           /\ f[m].end \in Exits /\ f[m].start \in Nat
           /\ f[m].start <= f[m].end
      /\ \A e \in Exits : \E m \in 1 .. Len(f) : f[m].end = e
  BY TablesFacts
<1>2. d \in Words(program) /\ \E e \in Exits : e >= d
  BY DEF Measured
<1>3. d \in Nat
  BY <1>1, <1>2, WordFacts
<1> HIDE DEF d
<1>4. PICK x \in Exits : d <= x
  BY <1>1, <1>2, <1>3
<1>5. /\ FirstExit(d) \in Exits /\ d <= FirstExit(d)
      /\ \A y \in Exits : d <= y => FirstExit(d) <= y
  BY <1>1, <1>3, <1>4, FirstExitFacts
<1>6. PICK m \in 1 .. Len(f) : f[m].end = FirstExit(d)
  BY <1>1, <1>5
<1>7. f[m].start <= d
  <2>1. SUFFICES ASSUME d < f[m].start
                 PROVE  FALSE
    BY <1>1, <1>3, <1>6
  <2>2. CASE AfterExit(f[m].start)
    <3>1. PICK e \in Exits : d <= e /\ e < f[m].start
      BY <1>2, <2>1, <2>2 DEF AfterExit
    <3>2. FirstExit(d) <= e /\ f[m].start <= FirstExit(d)
      BY <1>1, <1>5, <1>6, <3>1
    <3>3. e \in Nat /\ f[m].start \in Nat /\ FirstExit(d) \in Nat
      BY <1>1, <1>5, <1>6
    <3> QED
      BY <3>1, <3>2, <3>3
  <2>3. CASE \E i \in 1 .. Len(cfs) :
               cfs[i].type = "bl" /\ cfs[i].dst = f[m].start
    <3>1. PICK i \in 1 .. Len(cfs) :
            cfs[i].type = "bl" /\ cfs[i].dst = f[m].start
      BY <2>3
    <3>2. d < cfs[i].dst /\ cfs[i].dst <= FirstExit(d)
      BY <1>1, <1>6, <2>1, <3>1
    <3>3. Exitless(d)
      BY <3>1, <3>2 DEF Exitless
    <3> QED
      BY <3>3 DEF d
  <2> QED
    BY <2>2, <2>3 DEF IInv, Origins
<1>8. d <= f[m].end
  BY <1>5, <1>6
<1> QED
  BY <1>1, <1>7, <1>8, HoldingFacts DEF d

\* The callee of a bl that is in a segment: a word, with an exit.
LEMMA CalleeFacts ==
  ASSUME IInv, phase # "sweep", NEW n \in 1 .. Len(cfs),
         cfs[n].type = "bl", NEW m \in Holding(cfs[n].dst)
  PROVE  /\ m \in 1 .. Len(function_table)
         /\ cfs[n].dst \in Words(program) /\ cfs[n].dst \in Nat
         /\ function_table[m].start <= cfs[n].dst
         /\ cfs[n].dst <= function_table[m].end
         /\ text_start <= cfs[n].dst
         /\ Measured(n)
         /\ FirstExit(cfs[n].dst) = function_table[m].end
<1> DEFINE d == cfs[n].dst
           f == function_table
<1>1. /\ program \in Programs /\ Exits \subseteq Nat
      /\ Exits \subseteq Words(program) /\ Len(f) \in Nat
      /\ \A i \in 1 .. Len(f) :
           f[i].end \in Exits /\ f[i].start \in Nat /\ text_start <= f[i].start
  BY TablesFacts
<1>2. m \in 1 .. Len(f) /\ f[m].start <= d /\ d <= f[m].end
  BY <1>1, HoldingFacts
<1>3. d = At(program, cfs[n].src).arg /\ At(program, cfs[n].src).op = "bl"
      /\ cfs[n].src \in Words(program)
  BY DEF IInv, CallsFound, Calls
<1>4. d \in Nat /\ d % 4 = 0
  <2>1. At(program, cfs[n].src) \in Inst /\ At(program, cfs[n].src).arg % 4 = 0
    BY <1>1, <1>3, AtProgram
  <2> QED
    BY <1>3, <2>1 DEF Inst
<1>5. text_start \in Nat /\ text_end \in Nat /\ f[m].end <= text_end
      /\ f[m].end \in Nat
  BY <1>1, <1>2, TextEnd, ProgramFacts
<1>6. text_start <= d /\ d <= text_end
  BY <1>1, <1>2, <1>4, <1>5
<1>7. d \in Words(program)
  BY <1>1, <1>4, <1>6, Aligned
<1>8. Measured(n)
  <2>1. f[m].end >= d
    BY <1>2, <1>4, <1>5
  <2> QED
    BY <1>1, <1>2, <1>7, <2>1 DEF Measured
<1>9. FirstExit(d) = f[m].end
  BY <1>2, <1>4, SegmentOf
<1> QED
  BY <1>2, <1>4, <1>6, <1>7, <1>8, <1>9

\* The type a call is given.
LEMMA RtTypeFacts ==
  ASSUME IInv, phase # "sweep", NEW a \in Nat,
         NEW m \in 1 .. Len(function_table),
         function_table[m].start <= a, a <= function_table[m].end
  PROVE  TypeFits(a, RtType(m))
<1> DEFINE f == function_table
           e == FirstExit(a)
           x == FirstExit(e + 4)
<1>1. /\ program \in Programs /\ Exits \subseteq Nat /\ Len(f) \in Nat
      /\ Exits \subseteq Words(program)
      /\ \A i \in 1 .. Len(f) :
           f[i].end \in Exits /\ f[i].rt_type = ExitType(f[i].end)
  BY TablesFacts
<1>2. /\ e = f[m].end
      /\ m < Len(f) => x = f[m + 1].end /\ f[m + 1].end > f[m].end
      /\ m = Len(f) => \A y \in Exits : y <= e
  BY SegmentOf
<1> HIDE DEF f, e, x
<1>3. e \in Exits /\ e \in Nat /\ f[m].rt_type = ExitType(e)
  BY <1>1, <1>2 DEF f
<1>4. /\ At(program, e).op \in {"pop", "bx_lr"}
      /\ At(program, e).op = "pop" =>
           At(program, e).arg \in 0 .. 17 \union {200}
  BY <1>1, <1>3, AtProgram DEF Exits
<1>5. RtType(m) = IF f[m].rt_type # 150 THEN f[m].rt_type
                  ELSE IF m < Len(f) THEN f[m + 1].rt_type ELSE 200
  BY DEF RtType, f
<1>6. CASE At(program, e).op = "pop"
  <2>1. f[m].rt_type = At(program, e).arg /\ f[m].rt_type # 150
    <3>1. f[m].rt_type = At(program, e).arg
      BY <1>3, <1>6 DEF ExitType
    <3>2. At(program, e).arg \in 0 .. 17 \union {200}
      BY <1>4, <1>6
    <3>3. \A t \in 0 .. 17 \union {200} : t # 150
      OBVIOUS
    <3> QED
      BY <3>1, <3>2, <3>3
  <2> QED
    BY <1>5, <1>6, <2>1 DEF e, x, TypeFits
<1>7. CASE At(program, e).op = "bx_lr" /\ m < Len(f)
  <2>1. f[m].rt_type = 150 /\ RtType(m) = f[m + 1].rt_type
    BY <1>3, <1>5, <1>7 DEF ExitType
  <2>2. x \in Exits /\ f[m + 1].rt_type = ExitType(x) /\ x > e
    <3>1. m + 1 \in 1 .. Len(f)
      BY <1>1, <1>7 DEF f
    <3> QED
      BY <1>1, <1>2, <1>7, <3>1
  <2>3. At(program, x).op \in {"pop", "bx_lr"}
    BY <2>2 DEF Exits
  <2>4. At(program, x).op = "pop" => RtType(m) = At(program, x).arg
    BY <2>1, <2>2 DEF ExitType
  <2>5. At(program, x).op # "pop" => RtType(m) = 150
    BY <2>1, <2>2, <2>3 DEF ExitType
  <2> QED
    BY <1>7, <2>2, <2>4, <2>5 DEF e, x, TypeFits
<1>8. CASE At(program, e).op = "bx_lr" /\ ~(m < Len(f))
  <2>1. RtType(m) = 200
    BY <1>3, <1>5, <1>8 DEF ExitType
  <2>2. m = Len(f)
    BY <1>1, <1>8 DEF f
  <2>3. ~\E y \in Exits : y > e
    BY <1>1, <1>2, <1>3, <2>2
  <2> QED
    BY <1>8, <2>1, <2>3 DEF e, x, TypeFits
<1> QED
  BY <1>4, <1>6, <1>7, <1>8

\* A step of the second pass keeps all that the sweep found out, when it
\* changes no more of a call than its type and its measurement.
LEMMA PassKeeps ==
  ASSUME IInv, phase = "fix", phase' # "sweep",
         UNCHANGED <<program, mm>>,
         Len(cfs') = Len(cfs), k \in Nat, k' \in Nat, k <= k', k' <= Len(cfs),
         \A n \in 1 .. Len(cfs) :
           /\ cfs'[n].type = cfs[n].type
           /\ cfs'[n].src = cfs[n].src
           /\ cfs'[n].dst = cfs[n].dst
           /\ n <= k => cfs'[n] = cfs[n]
           /\ n > k' => cfs'[n] = cfs[n]
  PROVE  /\ Position' /\ Rewritten' /\ CallsFound' /\ LastExit'
         /\ \A n \in 1 .. Len(cfs) :
              /\ Measured(n)' <=> Measured(n)
              /\ Exitless(cfs[n].dst)' <=> Exitless(cfs[n].dst)
         /\ reach' = reach
<1>1. /\ Words(program)' = Words(program)
      /\ \A a : At(program, a)' = At(program, a)
      /\ \A a : FirstExit(a)' = FirstExit(a)
      /\ Calls' = Calls /\ Exits' = Exits /\ Hooked' = Hooked
  BY SameProgram, SameText, Zenon
<1>2. /\ Len(cfs) \in Nat
      /\ \A a : At(mm, a)' = At(mm, a)
  BY DEF IInv, TypeOK, At
<1>3. reach' = reach
  BY SameProgram DEF reach
<1>4. Position' /\ LastExit'
  BY DEF Position, LastExit
<1>5. Rewritten'
  BY <1>1, <1>2, <1>3 DEF IInv, Rewritten
<1>6. CallsFound'
  <2>1. ASSUME NEW n \in 1 .. Len(cfs), n > k'
        PROVE  cfs'[n].measurement = None
    <3>1. n > k
      BY <2>1
    <3> QED
      BY <2>1, <3>1 DEF IInv, CallsFound
  <2> QED
    BY <1>1, <1>3, <2>1 DEF IInv, CallsFound
<1>7. ASSUME NEW n \in 1 .. Len(cfs)
      PROVE  /\ Measured(n)' <=> Measured(n)
             /\ Exitless(cfs[n].dst)' <=> Exitless(cfs[n].dst)
  <2>1. Measured(n)' <=> Measured(n)
    BY <1>1 DEF Measured
  <2>2. cfs[n].dst' = cfs[n].dst
    OBVIOUS
  <2>3. Exitless(cfs[n].dst)' <=> Exitless(cfs[n].dst)
    BY <1>1, <2>2 DEF Exitless
  <2> QED
    BY <2>1, <2>3
<1> QED
  BY <1>3, <1>4, <1>5, <1>6, <1>7

\* The calls the pass has not done are as the sweep left them, those it has
\* done are as they are to be: what is to be shown of one step.
LEMMA PassInvariant ==
  ASSUME IInv, phase = "fix", phase' # "sweep",
         UNCHANGED <<program, mm>>,
         Len(cfs') = Len(cfs), k \in Nat, k' \in Nat, k <= k', k' <= Len(cfs),
         \A n \in 1 .. Len(cfs) :
           /\ cfs'[n].type = cfs[n].type
           /\ cfs'[n].src = cfs[n].src
           /\ cfs'[n].dst = cfs[n].dst
           /\ n <= k => cfs'[n] = cfs[n]
           /\ n > k' => cfs'[n] = cfs[n],
         TypeOK', SegmentsFound', Origins',
         \A n \in 1 .. Len(cfs) : k < n /\ n <= k' =>
           /\ cfs'[n].measurement # None =>
                /\ Measured(n)
                /\ cfs'[n].measurement =
                     Measure(cfs[n].dst, FirstExit(cfs[n].dst))
           /\ Measured(n) /\ ~Exitless(cfs[n].dst) =>
                /\ cfs'[n].measurement # None
                /\ TypeFits(cfs[n].dst, cfs'[n].rt_type)
  PROVE  IInv'
<1>1. /\ Position' /\ Rewritten' /\ CallsFound' /\ LastExit'
      /\ \A n \in 1 .. Len(cfs) :
           /\ Measured(n)' <=> Measured(n)
           /\ Exitless(cfs[n].dst)' <=> Exitless(cfs[n].dst)
  BY PassKeeps
<1>2. /\ \A a : At(program, a)' = At(program, a)
      /\ \A a : FirstExit(a)' = FirstExit(a)
      /\ \A a, e : Measure(a, e)' = Measure(a, e)
      /\ Exits' = Exits
  BY SameProgram, SameText, Zenon
<1>3. \A n \in 1 .. k' : n \in 1 .. Len(cfs) /\ (n \in 1 .. k \/ (k < n /\ n <= k'))
  <2>1. Len(cfs) \in Nat
    BY DEF IInv, TypeOK
  <2> QED
    BY <2>1
<1>4. MeasuredSoFar'
  <2>1. ASSUME NEW n \in 1 .. k', cfs'[n].measurement # None
        PROVE  /\ Measured(n)'
               /\ cfs'[n].measurement =
                    Measure(cfs[n].dst, FirstExit(cfs[n].dst))
    <3>1. CASE n \in 1 .. k
      <4>1. cfs'[n] = cfs[n] /\ n \in 1 .. Len(cfs)
        BY <1>3, <3>1
      <4> QED
        BY <1>1, <2>1, <3>1, <4>1 DEF IInv, MeasuredSoFar
    <3>2. CASE k < n /\ n <= k'
      BY <1>1, <1>3, <2>1, <3>2
    <3> QED
      BY <1>3, <3>1, <3>2
  <2>2. \A n \in 1 .. k' : cfs'[n].dst = cfs[n].dst
    BY <1>3
  <2> QED
    BY <1>2, <2>1, <2>2 DEF MeasuredSoFar
<1>5. ASSUME NEW n \in 1 .. k', Measured(n)', ~Exitless(cfs[n].dst)'
      PROVE  /\ cfs'[n].measurement # None
             /\ TypeFits(cfs[n].dst, cfs'[n].rt_type)
  <2>1. Measured(n) /\ ~Exitless(cfs[n].dst)
    BY <1>1, <1>3, <1>5
  <2>2. CASE n \in 1 .. k
    <3>1. cfs'[n] = cfs[n]
      BY <1>3, <2>2
    <3>2. cfs[n].measurement # None
      BY <2>1, <2>2 DEF IInv, TokenForEveryReturn
    <3>3. TypeFits(cfs[n].dst, cfs[n].rt_type)
      BY <2>1, <2>2, Zenon DEF IInv, PopTypeOfCallee, TypeFits
    <3> QED
      BY <3>1, <3>2, <3>3
  <2>3. CASE k < n /\ n <= k'
    BY <1>3, <2>1, <2>3
  <2> QED
    BY <1>3, <2>2, <2>3
<1>6. TokenForEveryReturn'
  BY <1>5 DEF TokenForEveryReturn
<1>7. PopTypeOfCallee'
  <2>1. ASSUME NEW n \in 1 .. k', Measured(n)', ~Exitless(cfs[n].dst)'
        PROVE  TypeFits(cfs[n].dst, cfs[n].rt_type)'
    <3>1. TypeFits(cfs[n].dst, cfs'[n].rt_type) /\ cfs'[n].dst = cfs[n].dst
      BY <1>3, <1>5, <2>1
    <3>2. TypeFits(cfs[n].dst, cfs[n].rt_type)'
            <=> TypeFits(cfs'[n].dst, cfs'[n].rt_type)
      BY <1>2, Zenon DEF TypeFits
    <3> QED
      BY <3>1, <3>2, Zenon
  <2> QED
    BY <2>1, Zenon DEF PopTypeOfCallee, TypeFits
<1> QED
  BY <1>1, <1>4, <1>6, <1>7 DEF IInv

\* One place of a sequence is given another value.
LEMMA OneReplaced ==
  ASSUME NEW P, NEW q \in Seq(P), NEW j \in 1 .. Len(q), NEW v \in P,
         NEW r, r = [q EXCEPT ![j] = v]
  PROVE  /\ r \in Seq(P) /\ Len(r) = Len(q) /\ r[j] = v
         /\ \A n \in 1 .. Len(q) : n # j => r[n] = q[n]
  OBVIOUS

\* A call whose callee is in a segment: the segment is trimmed to the callee,
\* ends where it did, and is still behind the segments before it.
LEMMA FixCallInvariant ==
  ASSUME IInv, FixCall
  PROVE  IInv'
<1> DEFINE c == k + 1
           d == cfs[c].dst
           f == function_table
<1>1. /\ phase = "fix" /\ k < Len(cfs) /\ cfs[c].type = "bl" /\ k' = k + 1
      /\ UNCHANGED <<program, mm, code, current_address, next, i_address,
                     lastAddress, phase>>
  BY DEF FixCall
<1>2. PICK m \in Holding(d) :
        /\ function_table' = Trim(m, d)
        /\ cfs' = [cfs EXCEPT
                     ![c].rt_type = RtType(m),
                     ![c].measurement = function_table'[m].measurement]
  BY DEF FixCall
<1>3. /\ cfs \in Seq(Row) /\ Len(cfs) \in Nat /\ k \in Nat
      /\ f \in Seq(Part) /\ Len(f) \in Nat
  BY DEF IInv, TypeOK, Row, Part
<1>4. c \in 1 .. Len(cfs) /\ k' = c
  BY <1>1, <1>3
<1>5. /\ m \in 1 .. Len(f) /\ d \in Words(program) /\ d \in Nat
      /\ f[m].start <= d /\ d <= f[m].end /\ text_start <= d
      /\ Measured(c) /\ FirstExit(d) = f[m].end
  BY <1>1, <1>2, <1>4, CalleeFacts
<1>6. /\ program \in Programs /\ Exits \subseteq Nat
      /\ Exits \subseteq Words(program)
      /\ \A n \in 1 .. Len(f) :
           /\ f[n].end \in Exits /\ f[n].start \in Nat
           /\ text_start <= f[n].start
           /\ f[n].start <= f[n].end
           /\ f[n].rt_type = ExitType(f[n].end)
      /\ \A i, n \in 1 .. Len(f) : i < n => f[i].end < f[n].start
  BY <1>1, TablesFacts
<1>7. \A n \in 1 .. Len(f) : f[n] \in Part
  BY <1>3
<1>8. /\ Measure(d, f[m].end) \in Extent /\ Measure(d, f[m].end).start = d
  BY <1>5, <1>6, MeasureFacts
<1> DEFINE M == Measure(d, f[m].end)
<1> HIDE DEF M
<1>9. /\ Len(function_table') = Len(f)
      /\ \A n \in 1 .. Len(f) : n # m => function_table'[n] = f[n]
      /\ function_table'[m].start = d /\ function_table'[m].end = f[m].end
      /\ function_table'[m].rt_type = f[m].rt_type
      /\ function_table'[m].measurement = M
      /\ function_table' \in Seq(Part)
  <2>1. function_table' = [f EXCEPT ![m] = [@ EXCEPT !.start = d,
                                                     !.measurement = M]]
    BY <1>2, <1>3, <1>5, <1>7 DEF Trim, M, Part
  <2>2. [f[m] EXCEPT !.start = d, !.measurement = M] \in Part
    BY <1>5, <1>7, <1>8 DEF Part, M
  <2>3. f \in Seq(Part) /\ m \in 1 .. Len(f)
    BY <1>3, <1>5
  <2> HIDE DEF f, d
  <2> DEFINE v == [f[m] EXCEPT !.start = d, !.measurement = M]
             r == function_table'
  <2>4. r = [f EXCEPT ![m] = v] /\ v \in Part
    BY <2>1, <2>2, Zenon
  <2> HIDE DEF v, r
  <2>5. /\ r \in Seq(Part) /\ Len(r) = Len(f) /\ r[m] = v
        /\ \A n \in 1 .. Len(f) : n # m => r[n] = f[n]
    BY <2>3, <2>4, OneReplaced
  <2>6. v.start = d /\ v.end = f[m].end /\ v.rt_type = f[m].rt_type
        /\ v.measurement = M
    BY <1>7, <2>3 DEF v, Part
  <2> QED
    BY <2>5, <2>6, Zenon DEF r
<1>10. /\ Len(cfs') = Len(cfs)
       /\ \A n \in 1 .. Len(cfs) : n # c => cfs'[n] = cfs[n]
       /\ cfs'[c].type = cfs[c].type /\ cfs'[c].src = cfs[c].src
       /\ cfs'[c].dst = cfs[c].dst
       /\ cfs'[c].rt_type = RtType(m) /\ cfs'[c].measurement = M
       /\ cfs' \in Seq(Row)
  <2>1. RtType(m) \in Nat
    <3>1. \A n \in 1 .. Len(f) : f[n].rt_type \in Nat
      BY <1>7 DEF Part
    <3>2. m < Len(f) => m + 1 \in 1 .. Len(f)
      BY <1>3, <1>5
    <3> QED
      BY <1>5, <3>1, <3>2 DEF RtType
  <2>2. cfs[c] \in Row
    BY <1>3, <1>4
  <2>3. cfs' = [cfs EXCEPT ![c] = [@ EXCEPT !.rt_type = RtType(m),
                                            !.measurement = M]]
    BY <1>2, <1>3, <1>4, <1>9, <2>2 DEF Row
  <2>4. [cfs[c] EXCEPT !.rt_type = RtType(m), !.measurement = M] \in Row
    BY <1>8, <2>1, <2>2 DEF Row, M
  <2> HIDE DEF c
  <2> QED
    BY <1>3, <1>4, <2>2, <2>3, <2>4 DEF Row
<1>11. /\ Words(program)' = Words(program) /\ Exits' = Exits
       /\ \A a : ExitType(a)' = ExitType(a)
       /\ \A a : AfterExit(a)' = AfterExit(a)
       /\ reach' = reach
  <2>1. reach' = reach
    BY <1>1, SameProgram DEF reach
  <2> QED
    BY <1>1, <2>1, SameProgram, SameText, Zenon
<1> HIDE DEF c, d, f
<1>12. TypeOK'
  <2>1. k' \in 0 .. Len(cfs')
    BY <1>3, <1>4, <1>10
  <2> QED
    BY <1>1, <1>9, <1>10, <1>11, <2>1 DEF IInv, TypeOK, Row, Part
<1>13. SegmentsFound'
  <2>1. /\ \A n \in 1 .. Len(f) :
             /\ function_table'[n].end = f[n].end
             /\ function_table'[n].rt_type = f[n].rt_type
             /\ f[n].start <= function_table'[n].start
             /\ function_table'[n].start <= f[n].end
             /\ text_start <= function_table'[n].start
    <3>1. ASSUME NEW n \in 1 .. Len(f)
          PROVE  /\ function_table'[n].end = f[n].end
                 /\ function_table'[n].rt_type = f[n].rt_type
                 /\ f[n].start <= function_table'[n].start
                 /\ function_table'[n].start <= f[n].end
                 /\ text_start <= function_table'[n].start
      <4>1. CASE n = m
        BY <1>5, <1>9, <4>1
      <4>2. CASE n # m
        BY <1>6, <1>9, <4>2
      <4> QED
        BY <4>1, <4>2
    <3> QED
      BY <3>1
  <2>2. ASSUME NEW i \in 1 .. Len(f), NEW n \in 1 .. Len(f), i < n
        PROVE  function_table'[i].end < function_table'[n].start
    <3>1. f[i].end < f[n].start /\ f[i].end \in Nat /\ f[n].start \in Nat
      BY <1>6, <2>2
    <3>2. function_table'[n].start \in Nat
      BY <1>5, <1>6, <1>9
    <3> QED
      BY <2>1, <3>1, <3>2
  <2>3. /\ \A n \in 1 .. Len(f) : f[n].end <= reach
        /\ \A a \in Exits : a <= reach => \E n \in 1 .. Len(f) : f[n].end = a
    BY DEF IInv, SegmentsFound, f
  <2> QED
    BY <1>6, <1>9, <1>11, <2>1, <2>2, <2>3 DEF SegmentsFound
<1>14. Origins'
  <2>1. ASSUME NEW n \in 1 .. Len(f)
        PROVE  \/ AfterExit(function_table'[n].start)
               \/ \E i \in 1 .. Len(cfs') :
                    cfs'[i].type = "bl" /\ cfs'[i].dst = function_table'[n].start
    <3>1. CASE n = m
      BY <1>1, <1>4, <1>9, <1>10, <3>1 DEF d
    <3>2. CASE n # m
      <4>1. \A i \in 1 .. Len(cfs) :
              cfs'[i].type = cfs[i].type /\ cfs'[i].dst = cfs[i].dst
        BY <1>10
      <4>2. \/ AfterExit(f[n].start)
            \/ \E i \in 1 .. Len(cfs) :
                 cfs[i].type = "bl" /\ cfs[i].dst = f[n].start
        BY DEF IInv, Origins, f
      <4> QED
        BY <1>9, <1>10, <3>2, <4>1, <4>2
    <3> QED
      BY <3>1, <3>2
  <2> QED
    BY <1>9, <1>11, <2>1 DEF Origins
<1>15. /\ cfs'[c].measurement # None
       /\ cfs'[c].measurement = Measure(d, FirstExit(d))
       /\ TypeFits(d, cfs'[c].rt_type)
  <2>1. M # None
    <3>1. d # 0
      BY <1>5, <1>6, ProgramFacts
    <3> QED
      BY <1>8, <3>1 DEF M, None
  <2>2. TypeFits(d, RtType(m))
    BY <1>1, <1>5, RtTypeFacts DEF f
  <2> QED
    BY <1>5, <1>10, <2>1, <2>2 DEF M
<1>16. \A n \in 1 .. Len(cfs) :
         /\ cfs'[n].type = cfs[n].type
         /\ cfs'[n].src = cfs[n].src
         /\ cfs'[n].dst = cfs[n].dst
         /\ n <= k => cfs'[n] = cfs[n]
         /\ n > k' => cfs'[n] = cfs[n]
         /\ k < n /\ n <= k' => n = c
  BY <1>3, <1>4, <1>10 DEF c
<1>17. phase' # "sweep" /\ k <= k' /\ k' <= Len(cfs) /\ k' \in Nat
  BY <1>1, <1>3, <1>4
<1> QED
  BY <1>1, <1>3, <1>5, <1>10, <1>12, <1>13, <1>14, <1>15, <1>16, <1>17,
     PassInvariant DEF d

\* A call that is passed has no callee in the text or none with an exit of its
\* own.
LEMMA PassCallInvariant ==
  ASSUME IInv, PassCall
  PROVE  IInv'
<1>1. /\ phase = "fix" /\ k < Len(cfs) /\ k' = k + 1
      /\ cfs[k + 1].type = "blx" \/ Holding(cfs[k + 1].dst) = {}
      /\ UNCHANGED <<program, mm, code, current_address, next, i_address,
                     lastAddress, cfs, function_table, phase>>
  BY DEF PassCall
<1>2. Len(cfs) \in Nat /\ k \in Nat /\ k + 1 \in 1 .. Len(cfs)
  BY <1>1 DEF IInv, TypeOK
<1>3. /\ Words(program)' = Words(program) /\ Exits' = Exits
      /\ \A a : ExitType(a)' = ExitType(a)
      /\ \A a : AfterExit(a)' = AfterExit(a)
      /\ reach' = reach
  <2>1. reach' = reach
    BY <1>1, SameProgram DEF reach
  <2> QED
    BY <1>1, <2>1, SameProgram, SameText, Zenon
<1>4. TypeOK'
  <2>1. k' \in 0 .. Len(cfs)
    BY <1>1, <1>2
  <2> QED
    BY <1>1, <1>3, <2>1 DEF IInv, TypeOK
<1>5. SegmentsFound' /\ Origins'
  BY <1>1, <1>3 DEF IInv, SegmentsFound, Origins
<1>6. cfs[k + 1].measurement = None
  BY <1>2 DEF IInv, CallsFound
<1>7. ~(Measured(k + 1) /\ ~Exitless(cfs[k + 1].dst))
  <2>1. SUFFICES ASSUME Measured(k + 1), ~Exitless(cfs[k + 1].dst)
                 PROVE  FALSE
    OBVIOUS
  <2>2. Holding(cfs[k + 1].dst) # {}
    BY <1>1, <1>2, <2>1, CalleeHeld
  <2>3. cfs[k + 1].type = "bl"
    BY <2>1 DEF Measured
  <2> QED
    BY <1>1, <2>2, <2>3
<1>8. \A n \in 1 .. Len(cfs) : k < n /\ n <= k' => n = k + 1
  BY <1>1, <1>2
<1>9. phase' # "sweep" /\ k <= k' /\ k' <= Len(cfs) /\ k' \in Nat
  BY <1>1, <1>2
<1> QED
  BY <1>1, <1>2, <1>4, <1>5, <1>6, <1>7, <1>8, <1>9, PassInvariant

\* The end changes nothing but the phase.
LEMMA FinishInvariant ==
  ASSUME IInv, Finish
  PROVE  IInv'
<1>1. /\ phase = "fix" /\ k = Len(cfs) /\ phase' = "done"
      /\ UNCHANGED <<program, mm, code, current_address, next, i_address,
                     lastAddress, cfs, function_table, k>>
  BY DEF Finish
<1>2. Len(cfs) \in Nat /\ k \in Nat
  BY DEF IInv, TypeOK
<1>3. /\ Words(program)' = Words(program) /\ Exits' = Exits
      /\ \A a : ExitType(a)' = ExitType(a)
      /\ \A a : AfterExit(a)' = AfterExit(a)
      /\ reach' = reach
  <2>1. reach' = reach
    BY <1>1, SameProgram DEF reach
  <2> QED
    BY <1>1, <2>1, SameProgram, SameText, Zenon
<1>4. TypeOK'
  BY <1>1, <1>3 DEF IInv, TypeOK
<1>5. SegmentsFound' /\ Origins'
  BY <1>1, <1>3 DEF IInv, SegmentsFound, Origins
<1>6. \A n \in 1 .. Len(cfs) : ~(k < n /\ n <= k')
  BY <1>1, <1>2
<1> QED
  BY <1>1, <1>2, <1>4, <1>5, <1>6, PassInvariant

-----------------------------------------------------------------------------
(* The theorems.                                                           *)

\* Nothing is swept yet.
LEMMA InitInvariant ==
  ASSUME Init
  PROVE  IInv
<1>1. /\ program \in Programs /\ mm = program /\ code = program
      /\ current_address = text_start /\ next = text_start /\ i_address = -1
      /\ lastAddress = text_start /\ cfs = <<>> /\ function_table = <<>>
      /\ k = 0 /\ phase = "sweep"
  BY DEF Init
<1>2. /\ program \in Seq(Inst) /\ text_start \in Nat
      /\ text_start \in Words(program) /\ text_start < text_end
      /\ text_end \in Nat
      /\ \A a \in Words(program) : a \in Nat /\ text_start <= a
  BY <1>1, ProgramFacts, WordFacts, TextEnd
<1>3. TypeOK
  BY <1>1, <1>2 DEF TypeOK
<1>4. Position
  BY <1>1, <1>2 DEF Position
<1>5. reach = -1
  BY <1>1 DEF reach
<1>6. Calls \subseteq Words(program) /\ Exits \subseteq Words(program)
  BY DEF Calls, Exits
<1>7. Rewritten
  BY <1>1, <1>2, <1>5 DEF Rewritten
<1>8. CallsFound /\ SegmentsFound
  <2>1. \A a \in Words(program) : ~(a <= reach)
    BY <1>2, <1>5
  <2> QED
    BY <1>1, <1>6, <2>1 DEF CallsFound, SegmentsFound
<1>9. LastExit /\ Origins
  <2>1. AfterExit(text_start)
    BY <1>2 DEF AfterExit
  <2> QED
    BY <1>1, <1>2, <2>1 DEF LastExit, Origins
<1>10. MeasuredSoFar /\ TokenForEveryReturn /\ PopTypeOfCallee
  <2>1. \A n \in 1 .. k : FALSE
    BY <1>1
  <2> QED
    BY <2>1 DEF MeasuredSoFar, TokenForEveryReturn, PopTypeOfCallee
<1> QED
  BY <1>3, <1>4, <1>7, <1>8, <1>9, <1>10 DEF IInv

\* A step that changes nothing keeps the invariant.
LEMMA StutterInvariant ==
  ASSUME IInv, UNCHANGED vars
  PROVE  IInv'
<1>1. UNCHANGED <<program, mm, code, current_address, next, i_address,
                  lastAddress, cfs, function_table, k, phase>>
  BY DEF vars
<1>2. /\ Words(program)' = Words(program) /\ Exits' = Exits
      /\ Calls' = Calls /\ Hooked' = Hooked /\ text_end' = text_end
      /\ \A a : At(program, a)' = At(program, a) /\ At(code, a)' = At(code, a)
                /\ At(mm, a)' = At(mm, a)
      /\ \A a : ExitType(a)' = ExitType(a) /\ AfterExit(a)' = AfterExit(a)
      /\ \A a : FirstExit(a)' = FirstExit(a)
      /\ \A a, e : Measure(a, e)' = Measure(a, e)
      /\ reach' = reach
  <2>1. \A a : At(code, a)' = At(code, a) /\ At(mm, a)' = At(mm, a)
    BY <1>1 DEF At
  <2>2. reach' = reach
    BY <1>1, SameProgram DEF reach
  <2> QED
    BY <1>1, <2>1, <2>2, SameProgram, SameText, Zenon
<1>3. TypeOK' /\ Position' /\ Rewritten' /\ CallsFound'
  BY <1>1, <1>2 DEF IInv, TypeOK, Position, Rewritten, CallsFound
<1>4. SegmentsFound' /\ LastExit' /\ Origins'
  BY <1>1, <1>2 DEF IInv, SegmentsFound, LastExit, Origins
<1>5. MeasuredSoFar' /\ TokenForEveryReturn' /\ PopTypeOfCallee'
  BY <1>1, <1>2, Zenon
  DEF IInv, MeasuredSoFar, TokenForEveryReturn, PopTypeOfCallee, Measured,
      Exitless
<1> QED
  BY <1>3, <1>4, <1>5 DEF IInv

\* Every step keeps the invariant.
LEMMA InvariantStep ==
  ASSUME IInv, [Next]_vars
  PROVE  IInv'
  BY DuplicateInvariant, SweepInvariant, NextChunkInvariant, FixCallInvariant,
     PassCallInvariant, FinishInvariant, StutterInvariant DEF Next

\* The inductive invariant.
THEOREM Invariant == Spec => []IInv
<1>1. Init => IInv
  BY InitInvariant
<1>2. IInv /\ [Next]_vars => IInv'
  BY InvariantStep
<1> QED
  BY <1>1, <1>2, PTL DEF Spec

\* Positions stay in the text, and what is written to the file is a text of the
\* same length: hookit() reads and writes nothing outside the text section.
THEOREM TypeCorrect == Spec => []TypeOK
<1>1. IInv => TypeOK
  BY DEF IInv
<1> QED
  BY <1>1, Invariant, PTL

\* Every call and every exit of a text is replaced, once, and nothing else.
THEOREM SweepIsComplete == Spec => []SweepComplete
<1>1. IInv => SweepComplete
  <2>1. SUFFICES ASSUME IInv, Swept
                 PROVE  \A a \in Words(program) :
                          At(mm, a) = IF a \in Hooked
                                        THEN [op |-> "bl", arg |-> Hook]
                                        ELSE At(program, a)
    BY DEF SweepComplete
  <2>2. reach = text_end /\ program \in Programs
    BY <2>1 DEF IInv, TypeOK, Swept, reach
  <2>3. \A a \in Words(program) : a <= reach
    BY <2>2, TextEnd
  <2> QED
    BY <2>1, <2>3 DEF IInv, Rewritten
<1> QED
  BY <1>1, Invariant, PTL

\* The tables hooks search have a row for each call and a segment for each
\* exit, in the order of addresses, with the operands of the text.
THEOREM TablesInOrder == Spec => []TablesOrdered
<1>1. IInv => TablesOrdered
  <2>1. SUFFICES ASSUME IInv
                 PROVE  TablesOrdered
    OBVIOUS
  <2>2. /\ \A m, n \in 1 .. Len(cfs) : m < n => cfs[m].src < cfs[n].src
        /\ \A m, n \in 1 .. Len(function_table) :
             m < n => function_table[m].end < function_table[n].start
        /\ \A n \in 1 .. Len(cfs) :
             cfs[n].type = "bl" => cfs[n].dst = At(program, cfs[n].src).arg
    BY <2>1 DEF IInv, CallsFound, SegmentsFound
  <2>3. ASSUME Swept
        PROVE  /\ {cfs[n].src : n \in 1 .. Len(cfs)} = Calls
               /\ {function_table[m].end : m \in 1 .. Len(function_table)} = Exits
    <3>1. reach = text_end /\ program \in Programs
      BY <2>1, <2>3 DEF IInv, TypeOK, Swept, reach
    <3>2. /\ \A a \in Calls : a <= reach
          /\ \A a \in Exits : a <= reach
      BY <3>1, TextEnd DEF Calls, Exits
    <3>3. \A n \in 1 .. Len(cfs) : cfs[n].src \in Calls
      BY <2>1 DEF IInv, CallsFound
    <3>4. \A a \in Calls : \E n \in 1 .. Len(cfs) : cfs[n].src = a
      BY <2>1, <3>2 DEF IInv, CallsFound
    <3>5. \A m \in 1 .. Len(function_table) : function_table[m].end \in Exits
      BY <2>1 DEF IInv, SegmentsFound
    <3>6. \A a \in Exits :
            \E m \in 1 .. Len(function_table) : function_table[m].end = a
      BY <2>1, <3>2 DEF IInv, SegmentsFound
    <3> QED
      BY <3>3, <3>4, <3>5, <3>6
  <2> QED
    BY <2>2, <2>3 DEF TablesOrdered
<1> QED
  BY <1>1, Invariant, PTL

\* A measurement that is not None is that of the callee of the call, entry to
\* first exit, except where a literal pool lies in between.
THEOREM MeasuresCallee == Spec => []MeasurementOfCallee
<1>1. IInv => MeasurementOfCallee
  <2>1. SUFFICES ASSUME IInv, NEW n \in 1 .. k, cfs[n].measurement # None
                 PROVE  /\ Measured(n)
                        /\ cfs[n].measurement.start = cfs[n].dst
                        /\ cfs[n].measurement = Digest(n) <=> NoPool(n)
    BY DEF MeasurementOfCallee
  <2> DEFINE d == cfs[n].dst
             e == FirstExit(d)
             M == Measure(d, e)
  <2>2. /\ Measured(n) /\ cfs[n].measurement = M
    BY <2>1 DEF IInv, MeasuredSoFar
  <2>3. program \in Programs /\ d \in Words(program) /\ d \in Nat
        /\ \E x \in Exits : x >= d
    BY <2>1, <2>2, WordFacts DEF IInv, TypeOK, Measured
  <2>4. Exits \subseteq Nat /\ Exits \subseteq Words(program)
    BY <2>3, WordFacts DEF Exits
  <2> HIDE DEF d
  <2>5. e \in Words(program) /\ e \in Nat /\ d <= e
    <3>1. PICK x \in Exits : d <= x
      BY <2>3, <2>4
    <3>2. e \in Exits /\ d <= e
      BY <2>3, <3>1, FirstExitFacts
    <3> QED
      BY <2>4, <3>2
  <2> HIDE DEF e
  <2>6. /\ M \in Extent /\ M.start = d
        /\ M.end = e \/ At(program, M.end).op = "data"
        /\ M.end \in Words(program) /\ d <= M.end /\ M.end <= e
        /\ \A x \in Words(program) :
             d <= x /\ At(program, x).op = "data" => M.end <= x
    BY <2>3, <2>5, MeasureFacts
  <2> HIDE DEF M
  <2>7. M = [start |-> d, end |-> e] <=> M.end = e
    BY <2>6 DEF Extent
  <2>8. M.end = e <=> \A a \in Words(program) :
                        d <= a /\ a < e => At(program, a).op # "data"
    <3>1. ASSUME M.end = e, NEW a \in Words(program), d <= a, a < e
          PROVE  At(program, a).op # "data"
      <4>1. a \in Nat
        BY <2>3, WordFacts
      <4> QED
        BY <2>5, <2>6, <3>1, <4>1
    <3>2. ASSUME M.end # e
          PROVE  \E a \in Words(program) :
                   d <= a /\ a < e /\ At(program, a).op = "data"
      <4>1. M.end \in Nat
        BY <2>3, <2>6, WordFacts
      <4> QED
        BY <2>5, <2>6, <3>2, <4>1
    <3> QED
      BY <3>1, <3>2
  <2>9. Digest(n) = [start |-> d, end |-> e]
    BY DEF Digest, d, e
  <2>10. NoPool(n) <=> \A a \in Words(program) :
                         d <= a /\ a < e => At(program, a).op # "data"
    BY <2>9 DEF NoPool
  <2> QED
    BY <2>2, <2>6, <2>7, <2>8, <2>9, <2>10 DEF d
<1> QED
  BY <1>1, Invariant, PTL

\* A call gets a token unless its callee is not in the text or has no exit of
\* its own.
THEOREM TokensForReturns == Spec => []TokenForEveryReturn
<1>1. IInv => TokenForEveryReturn
  BY DEF IInv
<1> QED
  BY <1>1, Invariant, PTL

\* A call gets the register list its callee pops.
THEOREM PopTypesOfCallees == Spec => []PopTypeOfCallee
<1>1. IInv => PopTypeOfCallee
  BY DEF IInv
<1> QED
  BY <1>1, Invariant, PTL

-----------------------------------------------------------------------------
(* The tables when the script ends.                                        *)

\* A row of a blx keeps the register it names, and the pass ends after the last
\* call.
Settled ==
  /\ \A n \in 1 .. Len(cfs) :
       cfs[n].type = "blx" => cfs[n].rt_type = At(program, cfs[n].src).arg
  /\ phase = "done" => k = Len(cfs)

\* What is compiled into the program is right for its text: rows and segments
\* as the text has calls and exits, and for a call of a function with an exit of
\* its own the measurement up to that exit and the type found there.
TablesFit ==
  /\ program \in Programs
  /\ cfs \in Seq(Row) /\ function_table \in Seq(Part)
  /\ \A n \in 1 .. Len(cfs) :
       /\ cfs[n].src \in Calls
       /\ cfs[n].type = At(program, cfs[n].src).op
       /\ cfs[n].type = "bl" => cfs[n].dst = At(program, cfs[n].src).arg
       /\ cfs[n].type = "blx" =>
            /\ cfs[n].rt_type = At(program, cfs[n].src).arg
            /\ cfs[n].measurement = None
  /\ \A m, n \in 1 .. Len(cfs) : m < n => cfs[m].src < cfs[n].src
  /\ \A a \in Calls : \E n \in 1 .. Len(cfs) : cfs[n].src = a
  /\ \A m \in 1 .. Len(function_table) :
       /\ function_table[m].end \in Exits
       /\ function_table[m].rt_type = ExitType(function_table[m].end)
  /\ \A e \in Exits : \E m \in 1 .. Len(function_table) : function_table[m].end = e
  /\ \A n \in 1 .. Len(cfs) :
       Measured(n) /\ ~Exitless(cfs[n].dst) =>
         /\ cfs[n].measurement # None
         /\ cfs[n].measurement = Measure(cfs[n].dst, FirstExit(cfs[n].dst))
         /\ TypeFits(cfs[n].dst, cfs[n].rt_type)

LEMMA SettledStep ==
  ASSUME IInv, Settled, [Next]_vars
  PROVE  Settled'
<1> DEFINE Named(c) == c.type = "blx" => c.rt_type = At(program, c.src).arg
<1>1. /\ cfs \in Seq(Row) /\ Len(cfs) \in Nat
      /\ \A n \in 1 .. Len(cfs) : Named(cfs[n])
      /\ phase = "done" => k = Len(cfs)
  BY DEF IInv, TypeOK, Row, Settled
<1> HIDE DEF Named
<1>2. ASSUME program' = program,
             \A n \in 1 .. Len(cfs') : Named(cfs'[n]),
             phase' = "done" => k' = Len(cfs')
      PROVE  Settled'
  BY <1>2, SameText DEF Settled, Named
<1>3. CASE cfs' = cfs /\ program' = program /\ (phase' = "done" => k' = Len(cfs))
  BY <1>1, <1>2, <1>3
<1>4. ASSUME NEW c, Named(c), cfs' = Append(cfs, c), program' = program,
             phase' # "done"
      PROVE  Settled'
  <2>1. Len(cfs') = Len(cfs) + 1 /\ cfs'[Len(cfs) + 1] = c
        /\ \A n \in 1 .. Len(cfs) : cfs'[n] = cfs[n]
    BY <1>1, <1>4
  <2>2. \A n \in 1 .. Len(cfs') : n \in 1 .. Len(cfs) \/ n = Len(cfs) + 1
    BY <1>1, <2>1
  <2> QED
    BY <1>1, <1>2, <1>4, <2>1, <2>2
<1>5. ASSUME Fresh, Step
      PROVE  program' = program /\ phase' # "done"
  BY <1>5, StepPosition
<1>6. CASE \/ Duplicate \/ PassOver \/ rewrite_branch_and_exchange_lr
           \/ rewrite_pop_fp_pc \/ rewrite_pop_fp_lr
  <2>1. cfs' = cfs
    BY <1>6 DEF Duplicate, PassOver, rewrite_branch_and_exchange_lr,
                rewrite_pop_fp_pc, rewrite_pop_fp_lr
  <2>2. program' = program /\ phase' # "done"
    BY <1>5, <1>6 DEF Duplicate, PassOver, rewrite_branch_and_exchange_lr,
                      rewrite_pop_fp_pc, rewrite_pop_fp_lr
  <2> QED
    BY <1>3, <2>1, <2>2
<1>7. CASE rewrite_branch_with_link
  <2>1. /\ Fresh /\ Step /\ cfs' = Append(cfs, Call("bl", Arg, 200))
    BY <1>7 DEF rewrite_branch_with_link
  <2>2. Named(Call("bl", Arg, 200))
    BY DEF Named, Call
  <2> QED
    BY <1>4, <1>5, <2>1, <2>2
<1>8. CASE rewrite_blx_rx
  <2>1. /\ Fresh /\ Step /\ cfs' = Append(cfs, Call("blx", 0, Arg))
    BY <1>8 DEF rewrite_blx_rx
  <2>2. At(code, next) = At(program, next)
    BY <2>1, FreshFacts
  <2>3. Named(Call("blx", 0, Arg))
    BY <2>2 DEF Named, Call, Arg
  <2> QED
    BY <1>4, <1>5, <2>1, <2>3
<1>9. CASE NextChunk
  BY <1>3, <1>9 DEF NextChunk
<1>10. CASE FixCall
  <2>1. /\ phase = "fix" /\ k < Len(cfs) /\ cfs[k + 1].type = "bl"
        /\ program' = program /\ phase' = phase
    BY <1>10 DEF FixCall
  <2>2. PICK t, M : cfs' = [cfs EXCEPT ![k + 1].rt_type = t, ![k + 1].measurement = M]
    BY <1>10 DEF FixCall
  <2>3. k + 1 \in 1 .. Len(cfs) /\ cfs[k + 1] \in Row
    BY <1>1, <2>1 DEF IInv, TypeOK
  <2>4. Len(cfs') = Len(cfs) /\ \A n \in 1 .. Len(cfs) : n # k + 1 => cfs'[n] = cfs[n]
    BY <1>1, <2>2, <2>3
  <2>5. cfs'[k + 1].type = "bl"
    BY <1>1, <2>1, <2>2, <2>3 DEF Row
  <2>6. Named(cfs'[k + 1])
    BY <2>5 DEF Named
  <2> QED
    BY <1>1, <1>2, <2>1, <2>4, <2>6
<1>11. CASE PassCall
  BY <1>3, <1>11 DEF PassCall
<1>12. CASE Finish
  BY <1>3, <1>12 DEF Finish
<1>13. CASE UNCHANGED vars
  BY <1>1, <1>3, <1>13 DEF vars
<1> QED
  BY <1>6, <1>7, <1>8, <1>9, <1>10, <1>11, <1>12, <1>13 DEF Next

LEMMA DoneFits ==
  ASSUME IInv, Settled, phase = "done"
  PROVE  TablesFit
<1>1. /\ program \in Programs /\ reach = text_end
      /\ function_table \in Seq(Part)
      /\ \A m \in 1 .. Len(function_table) :
           /\ function_table[m].end \in Exits
           /\ function_table[m].rt_type = ExitType(function_table[m].end)
      /\ \A e \in Exits :
           \E m \in 1 .. Len(function_table) : function_table[m].end = e
  BY TablesFacts
<1>2. cfs \in Seq(Row)
  BY DEF IInv, TypeOK, Row
<1>3. k = Len(cfs)
  BY DEF Settled
<1>4. \A a \in Calls : a <= reach
  BY <1>1, TextEnd DEF Calls
<1>5. /\ \A n \in 1 .. Len(cfs) :
           /\ cfs[n].src \in Calls
           /\ cfs[n].type = At(program, cfs[n].src).op
           /\ cfs[n].type = "bl" => cfs[n].dst = At(program, cfs[n].src).arg
      /\ \A m, n \in 1 .. Len(cfs) : m < n => cfs[m].src < cfs[n].src
      /\ \A a \in Calls : \E n \in 1 .. Len(cfs) : cfs[n].src = a
  BY <1>4 DEF IInv, CallsFound
<1>6. ASSUME NEW n \in 1 .. Len(cfs), cfs[n].type = "blx"
      PROVE  /\ cfs[n].rt_type = At(program, cfs[n].src).arg
             /\ cfs[n].measurement = None
  BY <1>3, <1>6 DEF Settled, IInv, MeasuredSoFar, Measured
<1>7. ASSUME NEW n \in 1 .. Len(cfs), Measured(n), ~Exitless(cfs[n].dst)
      PROVE  /\ cfs[n].measurement # None
             /\ cfs[n].measurement = Measure(cfs[n].dst, FirstExit(cfs[n].dst))
             /\ TypeFits(cfs[n].dst, cfs[n].rt_type)
  <2>1. cfs[n].measurement # None
    BY <1>3, <1>7 DEF IInv, TokenForEveryReturn
  <2>2. cfs[n].measurement = Measure(cfs[n].dst, FirstExit(cfs[n].dst))
    BY <1>3, <2>1 DEF IInv, MeasuredSoFar
  <2>3. TypeFits(cfs[n].dst, cfs[n].rt_type)
    BY <1>3, <1>7, Zenon DEF IInv, PopTypeOfCallee, TypeFits
  <2> QED
    BY <2>1, <2>2, <2>3
<1> QED
  BY <1>1, <1>2, <1>5, <1>6, <1>7 DEF TablesFit

Complete == phase = "done" => TablesFit

\* When the script ends its tables fit the text, however long the text is and
\* whatever it calls.
THEOREM TablesFitText == Init /\ [][Next]_vars => []Complete
<1>1. Init => IInv /\ Settled
  <2>1. Init => cfs = <<>> /\ phase # "done"
    BY DEF Init
  <2> QED
    BY <2>1, InitInvariant DEF Settled
<1>2. IInv /\ Settled /\ [Next]_vars => IInv' /\ Settled'
  BY InvariantStep, SettledStep
<1>3. IInv /\ Settled => Complete
  BY DoneFits DEF Complete
<1> QED
  BY <1>1, <1>2, <1>3, PTL
=============================================================================
