---------------------------- MODULE HooksProofs ----------------------------
(***************************************************************************)
(* With the tables a program should have (TablesRight), the hooks of       *)
(* trampoline.c return every call, direct, indirect or recursive, to where *)
(* the source returns it, at every depth; and what they do with any        *)
(* tables.  From SameScript on, the tables are those hookit makes of the   *)
(* program's text: only there TextAssumption and SourceAssumption are      *)
(* used.                                                                   *)
(***************************************************************************)
EXTENDS Instrumented, SequenceTheorems, Inductions

\* What putting an element in front of a sequence does.
LEMMA PushSeq ==
  ASSUME NEW S, NEW x \in S, NEW q \in Seq(S)
  PROVE  /\ <<x>> \o q \in Seq(S)
         /\ <<x>> \o q # <<>>
         /\ Head(<<x>> \o q) = x
         /\ Len(<<x>> \o q) = Len(q) + 1
         /\ (<<x>> \o q)[1] = x
         /\ \A k \in 1 .. Len(q) : (<<x>> \o q)[k + 1] = q[k]
         /\ \A k \in 2 .. Len(q) + 1 : (<<x>> \o q)[k] = q[k - 1]
  OBVIOUS

\* What taking the first element off does.
LEMMA PopSeq ==
  ASSUME NEW S, NEW q \in Seq(S), q # <<>>
  PROVE  /\ Head(q) = q[1]
         /\ Head(q) \in S
         /\ Len(q) \in Nat
         /\ Len(q) >= 1
         /\ Tail(q) \in Seq(S)
         /\ Len(Tail(q)) = Len(q) - 1
         /\ \A k \in 1 .. Len(q) - 1 : Tail(q)[k] = q[k + 1]
         /\ Tail(q) = <<>> <=> Len(q) = 1
<1>1. Len(q) \in Nat /\ Len(q) >= 1
  OBVIOUS
<1>2. Head(q) = q[1] /\ Head(q) \in S
  BY <1>1
<1>3. Tail(q) \in Seq(S) /\ Len(Tail(q)) = Len(q) - 1
  BY <1>1
<1>4. \A k \in 1 .. Len(q) - 1 : Tail(q)[k] = q[k + 1]
  BY <1>1
<1>5. Tail(q) = <<>> <=> Len(q) = 1
  <2>1. Len(Tail(q)) = 0 => Tail(q) = <<>>
    BY <1>3, EmptySeq
  <2>2. Tail(q) = <<>> => Len(Tail(q)) = 0
    BY EmptySeq
  <2> QED
    BY <1>1, <1>3, <2>1, <2>2
<1> QED
  BY <1>1, <1>2, <1>3, <1>4, <1>5

-----------------------------------------------------------------------------
\* A call instruction has one row in ftbl, and the search finds it.
LEMMA RowOfCall ==
  ASSUME TablesRight, NEW s \in Sites
  PROVE  \E k \in 1 .. Len(ftbl) :
            /\ ftbl[k].src = s
            /\ (CHOOSE r \in Rows(ftbl) : r.src = s) = ftbl[k]
<1>1. PICK r \in Rows(ftbl) : r.src = s
  BY DEF TablesRight, RowsRight
<1> DEFINE c == CHOOSE q \in Rows(ftbl) : q.src = s
<1>2. c \in Rows(ftbl) /\ c.src = s
  BY <1>1
<1>3. PICK k \in 1 .. Len(ftbl) : c = ftbl[k]
  BY <1>2 DEF Rows
<1> QED
  BY <1>2, <1>3

\* ta_decrypt_test finds, for the token of a row, that row.
LEMMA TokenFindsRow ==
  ASSUME TablesRight, NEW k \in 1 .. Len(ftbl), IsToken(ftbl[k].lr)
  PROVE  ta_decrypt_test(ftbl[k].lr) = ftbl[k].src + 4
<1> DEFINE found == {j \in 1 .. Len(ftbl) : ftbl[j].lr = ftbl[k].lr}
<1>1. found = {k}
  BY DEF TablesRight, TokensRight
<1>2. Len(ftbl) \in Nat
  BY TableAssumption
<1>3. (CHOOSE j \in found : \A i \in found : j <= i) = k
  BY <1>1, <1>2
<1> QED
  BY <1>1, <1>3 DEF ta_decrypt_test

\* The word pushed for a call decodes to the address after the call, is never
\* NULL, and is a token exactly for a direct call.
LEMMA WordDecodes ==
  ASSUME TablesRight, NEW s \in Sites
  PROVE  /\ Word(s) \in Words
         /\ Word(s) # NULL
         /\ Decode(Word(s)) = s + 4
         /\ IsToken(Word(s)) <=> s \in BlSites
<1>1. s \in Nat
  BY ProgramAssumption DEF Sites
<1>2. ~IsToken(s + 4)
  BY DEF TablesRight, AddressesRight
<1>3. CASE s \in BlSites
  <2>1. PICK k \in 1 .. Len(ftbl) :
               /\ ftbl[k].src = s
               /\ (CHOOSE r \in Rows(ftbl) : r.src = s) = ftbl[k]
    BY RowOfCall
  <2>2. Word(s) = ftbl[k].lr
    BY <1>3, <2>1 DEF Word, ftbl_bsearch_lr
  <2>3. IsToken(ftbl[k].lr)
    BY <1>3, <2>1 DEF TablesRight, TokensRight
  <2>4. Decode(Word(s)) = s + 4
    BY <2>1, <2>2, <2>3, TokenFindsRow DEF Decode
  <2>5. Word(s) \in Words
    BY <2>2 DEF Words, Rows
  <2> QED
    BY <1>3, <2>2, <2>3, <2>4, <2>5, TableAssumption DEF IsToken, NULL
<1>4. CASE s \notin BlSites
  BY <1>1, <1>2, <1>4 DEF Word, Decode, NULL, Words
<1> QED
  BY <1>3, <1>4

\* The row's type is the register list of the callee's exit.
LEMMA TypeOfCall ==
  ASSUME TablesRight, NEW s \in BlSites, NEW e \in PopExits,
         ExitFn[e] \in Targets[s]
  PROVE  /\ ftbl_bsearch_type(s + 4) = Shape[e]
         /\ Shape[e] \in PopTypes
<1>1. s \in Sites /\ (s + 4) - 4 = s
  BY ProgramAssumption DEF Sites
<1>2. PICK k \in 1 .. Len(ftbl) :
             /\ ftbl[k].src = s
             /\ (CHOOSE r \in Rows(ftbl) : r.src = s) = ftbl[k]
  BY <1>1, RowOfCall
<1>3. ftbl_bsearch_type(s + 4) = ftbl[k].type
  BY <1>1, <1>2 DEF ftbl_bsearch_type
<1> QED
  BY <1>2, <1>3 DEF TablesRight, TypesRight

\* ... and for an indirect call the number of the register it names.
LEMMA RegisterOfCall ==
  ASSUME TablesRight, NEW s \in BlxSites
  PROVE  /\ ftbl_bsearch_type(s + 4) = BlxReg[s]
         /\ BlxReg[s] \in BlxTypes
<1>1. s \in Sites /\ (s + 4) - 4 = s
  BY ProgramAssumption DEF Sites
<1>2. PICK k \in 1 .. Len(ftbl) :
             /\ ftbl[k].src = s
             /\ (CHOOSE r \in Rows(ftbl) : r.src = s) = ftbl[k]
  BY <1>1, RowOfCall
<1>3. ftbl_bsearch_type(s + 4) = ftbl[k].type
  BY <1>1, <1>2 DEF ftbl_bsearch_type
<1> QED
  BY <1>2, <1>3 DEF TablesRight, TypesRight

\* hook_bl branches to the callee.
LEMMA TargetOfCall ==
  ASSUME TablesRight, NEW s \in BlSites
  PROVE  Targets[s] = {btbl_bsearch(s)}
<1>1. PICK r \in Rows(btbl) : r.src = s
  BY DEF TablesRight, RowsRight
<1> DEFINE c == CHOOSE q \in Rows(btbl) : q.src = s
<1>2. c \in Rows(btbl) /\ c.src = s
  BY <1>1
<1> QED
  BY <1>2 DEF TablesRight, RowsRight, btbl_bsearch

\* What is called through a hook is instrumented.
LEMMA TargetsHooked ==
  ASSUME TablesRight, NEW s \in Sites
  PROVE  Targets[s] \subseteq Fns /\ Targets[s] \intersect Plain = {}
  BY ProgramAssumption DEF TablesRight, ReturnsHooked

-----------------------------------------------------------------------------
\* The inductive invariant.
IInv == TypeOK /\ ShadowMirrorsFrames /\ OnTrack

\* A hooked call, whichever hook makes it.
CallStep(s, f, lr) ==
  /\ Running(Owner[s])
  /\ f \in Targets[s]
  /\ lr \in Words
  /\ pc' = f
  /\ program_stack' = <<Word(s)>> \o program_stack
  /\ frames' = <<Frame(f, lr, s + 4, TRUE)>> \o frames
  /\ regs' = regs
  /\ bl_count' \in Nat
  /\ blx_count' \in Nat

\* A return, whichever hook makes it.
ReturnStep ==
  /\ frames # <<>>
  /\ pc' = Head(frames).ret
  /\ program_stack' = Rest
  /\ frames' = Tail(frames)
  /\ regs'
  /\ bl_count' \in Nat
  /\ blx_count' \in Nat

LEMMA CallPreserves ==
  ASSUME TablesRight, IInv, NEW s \in Sites, NEW f, NEW lr, CallStep(s, f, lr)
  PROVE  IInv'
<1> DEFINE new == Frame(f, lr, s + 4, TRUE)
<1>1. f \in Fns
  BY TargetsHooked DEF CallStep
<1>2. new \in FrameType
  BY <1>1 DEF CallStep, Frame, FrameType, Addresses
<1>3. frames \in Seq(FrameType) /\ frames # <<>>
  BY DEF IInv, TypeOK, CallStep, Running
<1>4. program_stack \in Seq(Words) /\ Word(s) \in Words
  BY WordDecodes DEF IInv, TypeOK
<1>0. frames' = <<new>> \o frames
  BY DEF CallStep
<1> HIDE DEF new
<1>5. /\ frames' \in Seq(FrameType)
      /\ frames' # <<>>
      /\ Head(frames') = new
      /\ Len(frames') = Len(frames) + 1
      /\ frames'[1] = new
      /\ \A k \in 1 .. Len(frames) : frames'[k + 1] = frames[k]
  BY <1>0, <1>2, <1>3, PushSeq
<1>6. /\ program_stack' \in Seq(Words)
      /\ Len(program_stack') = Len(program_stack) + 1
      /\ program_stack'[1] = Word(s)
      /\ \A k \in 1 .. Len(program_stack) :
           program_stack'[k + 1] = program_stack[k]
  BY <1>4, PushSeq DEF CallStep
<1>7. Len(frames) = Len(program_stack) + 1 /\ Len(program_stack) \in Nat
  BY <1>3, <1>4 DEF IInv, ShadowMirrorsFrames
<1>8. TypeOK'
  BY <1>1, <1>5, <1>6 DEF TypeOK, CallStep, Running, Addresses, IInv
<1>9. ShadowMirrorsFrames'
  <2>1. Len(frames') = Len(program_stack') + 1
    BY <1>5, <1>6, <1>7
  <2>2. ASSUME NEW k \in 1 .. Len(program_stack')
        PROVE  \E t \in Sites : CalledBy(k, t)' /\ program_stack'[k] = Word(t)
    <3>1. CASE k = 1
      <4>1. frames'[k + 1] = Head(frames)
        BY <3>1, <1>3, <1>5, <1>7, PopSeq
      <4>2. frames'[k].fn = f /\ frames'[k].ret = s + 4
        BY <3>1, <1>5 DEF new, Frame
      <4>3. Head(frames).fn = Owner[s]
        BY DEF CallStep, Running
      <4>4. program_stack'[k] = Word(s)
        BY <3>1, <1>6
      <4> QED
        BY <4>1, <4>2, <4>3, <4>4 DEF CalledBy, CallStep
    <3>2. CASE k # 1
      <4>1. k - 1 \in 1 .. Len(program_stack) /\ (k - 1) + 1 = k
        BY <1>6, <1>7, <3>2
      <4>2. PICK t \in Sites :
                  CalledBy(k - 1, t) /\ program_stack[k - 1] = Word(t)
        BY <4>1, <1>3 DEF IInv, ShadowMirrorsFrames
      <4>3. frames'[k] = frames[k - 1] /\ frames'[k + 1] = frames[k]
        BY <4>1, <1>5, <1>7
      <4>4. program_stack'[k] = program_stack[k - 1]
        BY <4>1, <1>6
      <4> QED
        BY <4>1, <4>2, <4>3, <4>4 DEF CalledBy
    <3> QED
      BY <3>1, <3>2
  <2>3. frames'[Len(frames')] = frames[Len(frames)]
    BY <1>5, <1>7
  <2>4. /\ frames[Len(frames)].fn \in Roots
        /\ frames[Len(frames)].lr = Outside
            /\ frames[Len(frames)].ret = Outside
    BY <1>3 DEF IInv, ShadowMirrorsFrames
  <2> QED
    BY <1>5, <2>1, <2>2, <2>3, <2>4 DEF ShadowMirrorsFrames, Word
<1>10. OnTrack'
  BY <1>5 DEF OnTrack, CallStep, Running, InBody, new, Frame
<1> QED
  BY <1>8, <1>9, <1>10 DEF IInv

LEMMA ReturnPreserves ==
  ASSUME TablesRight, IInv, ReturnStep
  PROVE  IInv'
<1>1. frames \in Seq(FrameType) /\ frames # <<>>
  BY DEF IInv, TypeOK, ReturnStep
<1>2. program_stack \in Seq(Words) /\ Len(program_stack) \in Nat
  BY DEF IInv, TypeOK
<1>3. Len(frames) = Len(program_stack) + 1
  BY <1>1 DEF IInv, ShadowMirrorsFrames
<1>4. /\ Head(frames) = frames[1]
      /\ Head(frames) \in FrameType
      /\ frames' \in Seq(FrameType)
      /\ Len(frames') = Len(frames) - 1
      /\ \A k \in 1 .. Len(frames) - 1 : frames'[k] = frames[k + 1]
      /\ frames' = <<>> <=> Len(frames) = 1
  BY <1>1, PopSeq DEF ReturnStep
<1>5. CASE program_stack = <<>>
  <2>1. Len(frames) = 1 /\ frames' = <<>> /\ program_stack' = <<>>
    BY <1>3, <1>4, <1>5 DEF ReturnStep, Rest
  <2>2. pc' = Outside
    BY <2>1, <1>1, <1>4 DEF ReturnStep, IInv, ShadowMirrorsFrames
  <2> QED
    BY <2>1, <2>2, <1>4, <1>2, <1>5
       DEF IInv, TypeOK, ShadowMirrorsFrames, OnTrack, ReturnStep, Addresses
<1>6. CASE program_stack # <<>>
  <2>1. /\ program_stack' \in Seq(Words)
        /\ Len(program_stack) >= 1
        /\ Len(program_stack') = Len(program_stack) - 1
        /\ \A k \in 1 .. Len(program_stack) - 1 :
             program_stack'[k] = program_stack[k + 1]
    BY <1>2, <1>6, PopSeq DEF ReturnStep, Rest
  <2>2. frames' # <<>>
    BY <1>2, <1>3, <1>4, <2>1
  <2>3. PICK s \in Sites : CalledBy(1, s)
    BY <1>1, <1>2, <2>1 DEF IInv, ShadowMirrorsFrames
  <2>4. pc' = s + 4 /\ Head(frames').fn = Owner[s]
    <3>1. Head(frames') = frames'[1]
      BY <1>4, <2>2, PopSeq
    <3>2. frames'[1] = frames[1 + 1]
      BY <1>2, <1>3, <1>4, <2>1
    <3>3. frames[1].ret = s + 4 /\ frames[1 + 1].fn = Owner[s]
      BY <2>3 DEF CalledBy
    <3> QED
      BY <3>1, <3>2, <3>3, <1>4 DEF ReturnStep
  <2>5. TypeOK'
    BY <1>4, <2>1, <2>4 DEF TypeOK, ReturnStep, Addresses
  <2>6. ShadowMirrorsFrames'
    <3>1. Len(frames') = Len(program_stack') + 1
      BY <1>2, <1>3, <1>4, <2>1
    <3>2. ASSUME NEW k \in 1 .. Len(program_stack')
          PROVE  \E t \in Sites : CalledBy(k, t)' /\ program_stack'[k] = Word(t)
      <4>1. k + 1 \in 1 .. Len(program_stack) /\ k \in 1 .. Len(program_stack) - 1
        BY <1>2, <2>1
      <4>2. PICK t \in Sites :
                  CalledBy(k + 1, t) /\ program_stack[k + 1] = Word(t)
        BY <4>1, <1>1 DEF IInv, ShadowMirrorsFrames
      <4>3. frames'[k] = frames[k + 1] /\ frames'[k + 1] = frames[k + 1 + 1]
        BY <4>1, <1>2, <1>3, <1>4
      <4> QED
        BY <4>1, <4>2, <4>3, <2>1 DEF CalledBy
    <3>3. frames'[Len(frames')] = frames[Len(frames)]
      BY <1>2, <1>3, <1>4, <2>1
    <3>4. /\ frames[Len(frames)].fn \in Roots
          /\ frames[Len(frames)].lr = Outside
          /\ frames[Len(frames)].ret = Outside
      BY <1>1 DEF IInv, ShadowMirrorsFrames
    <3> QED
      BY <2>2, <3>1, <3>2, <3>3, <3>4 DEF ShadowMirrorsFrames, Word
  <2>7. OnTrack'
    <3>1. (s + 4) - 4 = s
      BY ProgramAssumption DEF Sites
    <3> QED
      BY <2>2, <2>4, <3>1 DEF OnTrack, ReturnStep, InBody
  <2> QED
    BY <2>5, <2>6, <2>7 DEF IInv
<1> QED
  BY <1>5, <1>6

-----------------------------------------------------------------------------
\* What an exit pops from a list that is not empty: the word of the call its
\* activation was entered by.
LEMMA PoppedWord ==
  ASSUME TablesRight, IInv, frames # <<>>, program_stack # <<>>
  PROVE  \E s \in Sites :
           /\ Popped = Word(s)
           /\ Head(frames).fn \in Targets[s]
           /\ Decode(Popped) = Head(frames).ret
<1>1. frames \in Seq(FrameType) /\ program_stack \in Seq(Words)
  BY DEF IInv, TypeOK
<1>2. 1 \in 1 .. Len(program_stack)
  BY <1>1, PopSeq
<1>3. PICK s \in Sites : CalledBy(1, s) /\ program_stack[1] = Word(s)
  BY <1>2 DEF IInv, ShadowMirrorsFrames
<1>4. Popped = program_stack[1] /\ Head(frames) = frames[1]
  BY <1>1, PopSeq DEF Popped
<1> QED
  BY <1>3, <1>4, WordDecodes DEF CalledBy

\* An exit with an empty list is the root's.
LEMMA PoppedNothing ==
  ASSUME IInv, frames # <<>>, program_stack = <<>>
  PROVE  /\ Popped = NULL
         /\ Head(frames).fn \in Roots
         /\ Head(frames).lr = Outside
         /\ Head(frames).ret = Outside
<1>1. frames \in Seq(FrameType)
  BY DEF IInv, TypeOK
<1>2. Len(frames) = 1 /\ Head(frames) = frames[1]
  BY <1>1, PopSeq DEF IInv, ShadowMirrorsFrames
<1> QED
  BY <1>2 DEF IInv, ShadowMirrorsFrames, Popped

LEMMA RunningFacts ==
  ASSUME NEW f, Running(f)
  PROVE  frames # <<>> /\ Head(frames).fn = f /\ regs
  BY DEF Running

\* With right tables hook_bl makes the source's direct call ...
LEMMA BlIsCall ==
  ASSUME TablesRight, IInv, NEW s \in BlSites, hook_bl(s)
  PROVE  \E f, lr : CallStep(s, f, lr)
<1>1. s \in Sites
  BY DEF Sites
<1>2. btbl_bsearch(s) \in Targets[s]
  BY TargetOfCall
<1>3. Word(s) = ftbl_bsearch_lr(s) /\ Word(s) \in Words
  BY <1>1, WordDecodes DEF Word
<1>4. CallStep(s, btbl_bsearch(s), Word(s))
  BY <1>2, <1>3 DEF hook_bl, CallStep, IInv, TypeOK
<1> QED
  BY <1>4

\* ... hook_blx the indirect one, and it knows the register ...
LEMMA BlxIsCall ==
  ASSUME TablesRight, IInv, NEW s \in BlxSites, NEW f, hook_blx(s, f)
  PROVE  CallStep(s, f, s + 4)
<1>1. s \in Sites /\ s \notin BlSites
  BY ProgramAssumption DEF Sites
<1>2. Word(s) = s + 4 /\ Word(s) \in Words
  BY <1>1, WordDecodes DEF Word
<1>3. ftbl_bsearch_type(s + 4) = BlxReg[s]
  BY RegisterOfCall
<1> QED
  BY <1>2, <1>3 DEF hook_blx, CallStep, IInv, TypeOK

LEMMA BlxKnown ==
  ASSUME TablesRight, NEW s \in BlxSites
  PROVE  ~hook_blx_unknown(s)
  BY RegisterOfCall DEF hook_blx_unknown

\* ... hook_bx_lr returns, the root never exits through it ...
LEMMA BxLrIsReturn ==
  ASSUME TablesRight, IInv, NEW e \in BxExits, hook_bx_lr(e)
  PROVE  ReturnStep
<1>1. frames # <<>> /\ Head(frames).fn = ExitFn[e] /\ regs
  BY RunningFacts DEF hook_bx_lr
<1>2. program_stack # <<>>
  BY <1>1, PoppedNothing DEF TablesRight, RootsRight
<1>3. Decode(Popped) = Head(frames).ret
  BY <1>1, <1>2, PoppedWord
<1> QED
  BY <1>1, <1>3 DEF hook_bx_lr, ReturnStep, IInv, TypeOK

\* ... and so does hook_pop_fp_pc, with the register list of the exit, on each
\* of its paths.
LEMMA PopNullIsReturn ==
  ASSUME TablesRight, IInv, NEW e \in PopExits, hook_pop_fp_pc_null(e)
  PROVE  ReturnStep
<1>1. frames # <<>> /\ Head(frames).fn = ExitFn[e]
  BY RunningFacts DEF hook_pop_fp_pc_null
<1>2. program_stack = <<>>
  BY <1>1, PoppedWord, WordDecodes DEF hook_pop_fp_pc_null
<1>3. /\ Head(frames).fn \in Roots
      /\ Head(frames).lr = Head(frames).ret
  BY <1>1, <1>2, PoppedNothing
<1>4. Shape[e] = 0
  BY <1>1, <1>3 DEF TablesRight, RootsRight
<1> QED
  BY <1>1, <1>3, <1>4 DEF hook_pop_fp_pc_null, ReturnStep, IInv, TypeOK

LEMMA ReturnTypeRight ==
  ASSUME TablesRight, IInv, NEW e \in PopExits, Running(ExitFn[e]),
         Popped # NULL
  PROVE  /\ return_type(e) = Shape[e]
         /\ return_type(e) \in PopTypes
         /\ Decode(Popped) = Head(frames).ret
<1>1. frames # <<>> /\ Head(frames).fn = ExitFn[e]
  BY RunningFacts
<1>2. program_stack # <<>>
  BY DEF Popped
<1>3. PICK s \in Sites :
             /\ Popped = Word(s)
             /\ Head(frames).fn \in Targets[s]
             /\ Decode(Popped) = Head(frames).ret
  BY <1>1, <1>2, PoppedWord
<1>4. Decode(Popped) = s + 4 /\ (IsToken(Popped) <=> s \in BlSites)
  BY <1>3, WordDecodes
<1>5. CASE s \in BlSites
  BY <1>1, <1>3, <1>4, <1>5, TypeOfCall DEF return_type
<1>6. CASE s \notin BlSites
  <2>1. s \in BlxSites
    BY <1>6 DEF Sites
  <2> QED
    BY <1>1, <1>3, <1>4, <1>6, <2>1
       DEF return_type, TablesRight, TypesRight
<1> QED
  BY <1>5, <1>6

LEMMA PopIsReturn ==
  ASSUME TablesRight, IInv, NEW e \in PopExits, hook_pop_fp_pc(e)
  PROVE  ReturnStep
<1>1. frames # <<>>
  BY RunningFacts DEF hook_pop_fp_pc
<1>2. return_type(e) = Shape[e] /\ Decode(Popped) = Head(frames).ret
  BY ReturnTypeRight DEF hook_pop_fp_pc
<1> QED
  BY <1>1, <1>2 DEF hook_pop_fp_pc, ReturnStep, IInv, TypeOK

\* What returns by itself is a root.
LEMMA PlainIsReturn ==
  ASSUME TablesRight, IInv, NEW f \in Plain, PlainReturn(f)
  PROVE  ReturnStep
<1>1. frames # <<>> /\ Head(frames).fn = f /\ regs
  BY RunningFacts DEF PlainReturn
<1>2. program_stack = <<>>
  BY <1>1, PoppedWord, TargetsHooked
<1>3. Head(frames).lr = Head(frames).ret
  BY <1>1, <1>2, PoppedNothing
<1> QED
  BY <1>1, <1>2, <1>3 DEF PlainReturn, ReturnStep, Rest, IInv, TypeOK

LEMMA PopKnown ==
  ASSUME TablesRight, IInv, NEW e \in PopExits
  PROVE  ~hook_pop_fp_pc_unknown(e)
  BY ReturnTypeRight DEF hook_pop_fp_pc_unknown

\* With right tables a step calls, returns, or starts at a root.
LEMMA StepCases ==
  ASSUME TablesRight, IInv, Next
  PROVE  \/ \E f \in Fns : RootCall(f)
         \/ \E s \in Sites : \E f, lr : CallStep(s, f, lr)
         \/ ReturnStep
<1>1. CASE \E f \in Fns : RootCall(f) \/ Callback(f)
  BY <1>1 DEF Callback, TablesRight, RootsRight
<1>2. CASE \E s \in BlSites : hook_bl(s)
  BY <1>2, BlIsCall DEF Sites
<1>3. CASE \E s \in BlxSites : \/ \E f \in Fns \union Plain : hook_blx(s, f)
                               \/ hook_blx_unknown(s)
  BY <1>3, BlxIsCall, BlxKnown DEF Sites
<1>4. CASE \E e \in Exits : Exit(e)
  BY <1>4, BxLrIsReturn, PopNullIsReturn, PopIsReturn, PopKnown DEF Exit
<1>5. CASE \E f \in Plain : PlainReturn(f)
  BY <1>5, PlainIsReturn
<1> QED
  BY <1>1, <1>2, <1>3, <1>4, <1>5 DEF Next

LEMMA RootPreserves ==
  ASSUME TablesRight, IInv, NEW f \in Fns, RootCall(f)
  PROVE  IInv'
<1> DEFINE new == Frame(f, Outside, Outside, FALSE)
<1>1. new \in FrameType
  BY DEF Frame, FrameType, Addresses
<1>2. new.fn = f /\ new.lr = Outside /\ new.ret = Outside
  BY DEF Frame
<1>3. frames' = <<new>> /\ program_stack' = <<>>
  BY DEF RootCall, Idle, IInv, ShadowMirrorsFrames
<1> HIDE DEF new
<1>4. /\ frames' \in Seq(FrameType)
      /\ frames' # <<>>
      /\ Head(frames') = new
      /\ Len(frames') = 1
      /\ frames'[1] = new
  BY <1>1, <1>3
<1>5. TypeOK'
  BY <1>3, <1>4 DEF RootCall, IInv, TypeOK, Addresses
<1>6. ShadowMirrorsFrames'
  <2>1. Len(program_stack') = 0 /\ 1 .. 0 = {}
    BY <1>3
  <2>2. frames'[Len(frames')] = new /\ f \in Roots
    BY <1>4 DEF RootCall
  <2> QED
    BY <1>2, <1>4, <2>1, <2>2 DEF ShadowMirrorsFrames
<1>7. OnTrack'
  BY <1>2, <1>4 DEF RootCall, IInv, OnTrack, InBody
<1> QED
  BY <1>5, <1>6, <1>7 DEF IInv

LEMMA InitInvariance ==
  ASSUME Init
  PROVE  IInv
  BY EmptySeq
     DEF Init, IInv, TypeOK, ShadowMirrorsFrames, OnTrack, Addresses

LEMMA StutterPreserves ==
  ASSUME IInv, UNCHANGED vars
  PROVE  IInv'
  BY DEF vars, IInv, TypeOK, ShadowMirrorsFrames, CalledBy, Word, OnTrack, InBody

LEMMA StepPreserves ==
  ASSUME TablesRight, IInv, [Next]_vars
  PROVE  IInv'
<1>1. CASE Next
  BY <1>1, StepCases, RootPreserves, CallPreserves, ReturnPreserves
<1>2. CASE UNCHANGED vars
  BY <1>2, StutterPreserves
<1> QED
  BY <1>1, <1>2

\* IInv holds of every state of a program whose tables are right.
THEOREM Invariance ==
  ASSUME TablesRight
  PROVE  Spec => []IInv
<1>1. Init => IInv
  BY InitInvariance
<1>2. IInv /\ [Next]_vars => IInv'
  BY StepPreserves
<1> QED
  BY <1>1, <1>2, PTL DEF Spec

\* Only words and addresses of the tables are pushed and branched to.
THEOREM TypeCorrect ==
  ASSUME TablesRight
  PROVE  Spec => []TypeOK
  BY Invariance, PTL DEF IInv

\* program_stack mirrors the machine stack at every depth.
THEOREM ShadowCorrect ==
  ASSUME TablesRight
  PROVE  Spec => []ShadowMirrorsFrames
  BY Invariance, PTL DEF IInv

\* Control is where the source has it, registers are as the ABI has them.
THEOREM ControlCorrect ==
  ASSUME TablesRight
  PROVE  Spec => []OnTrack
  BY Invariance, PTL DEF IInv

-----------------------------------------------------------------------------
\* The decoded list is the list of return addresses.
DecodedReturns ==
  /\ DecodedStack \in Seq(Addresses)
  /\ Len(DecodedStack) = Len(frames)
  /\ \A k \in 1 .. Len(frames) : DecodedStack[k] = frames[k].ret

LEMMA DecodedIsReturns ==
  ASSUME TablesRight, IInv
  PROVE  DecodedReturns
<1>1. frames \in Seq(FrameType) /\ program_stack \in Seq(Words)
  BY DEF IInv, TypeOK
<1>2. CASE frames = <<>>
  BY <1>2, EmptySeq DEF DecodedStack, DecodedReturns
<1>3. CASE frames # <<>>
  <2> DEFINE n == Len(program_stack)
             word(k) == IF k <= n THEN Decode(program_stack[k]) ELSE Outside
  <2>1. n \in Nat /\ Len(frames) = n + 1
    BY <1>1, <1>3 DEF IInv, ShadowMirrorsFrames
  <2>2. ASSUME NEW k \in 1 .. n + 1
        PROVE  word(k) = frames[k].ret /\ word(k) \in Addresses
    <3>1. CASE k <= n
      <4>1. PICK s \in Sites : CalledBy(k, s) /\ program_stack[k] = Word(s)
        BY <1>3, <2>1, <3>1 DEF IInv, ShadowMirrorsFrames
      <4> QED
        BY <3>1, <4>1, WordDecodes DEF CalledBy, Addresses
    <3>2. CASE ~(k <= n)
      BY <1>3, <2>1, <3>2 DEF IInv, ShadowMirrorsFrames, Addresses
    <3> QED
      BY <3>1, <3>2
  <2>3. DecodedStack = [k \in 1 .. n + 1 |-> word(k)]
    BY <1>3 DEF DecodedStack
  <2> HIDE DEF n, word
  <2>4. DecodedStack \in [1 .. n + 1 -> Addresses]
    BY <2>2, <2>3
  <2>5. DecodedStack \in Seq(Addresses) /\ Len(DecodedStack) = n + 1
    BY <2>1, <2>4
  <2> QED
    BY <2>1, <2>2, <2>3, <2>5 DEF DecodedReturns
<1> QED
  BY <1>2, <1>3

\* The same of the next state.
LEMMA DecodedIsReturnsNext ==
  ASSUME TablesRight
  PROVE  IInv' => DecodedReturns'
<1>1. IInv => DecodedReturns
  BY DecodedIsReturns
<1> QED
  BY <1>1, PTL

LEMMA CallRefines ==
  ASSUME TablesRight, IInv, NEW s \in Sites, NEW f, NEW lr, CallStep(s, f, lr)
  PROVE  C!Call(s, f)
<1>1. IInv'
  BY CallPreserves
<1>2. frames \in Seq(FrameType) /\ frames # <<>>
  BY DEF IInv, TypeOK, CallStep, Running
<1>3. f \in Fns /\ Frame(f, lr, s + 4, TRUE) \in FrameType
  BY TargetsHooked DEF CallStep, Frame, FrameType, Addresses
<1>4. /\ Len(frames') = Len(frames) + 1
      /\ frames'[1].ret = s + 4
      /\ \A k \in 2 .. Len(frames) + 1 : frames'[k] = frames[k - 1]
  BY <1>2, <1>3, PushSeq DEF CallStep, Frame
<1>5. /\ DecodedStack \in Seq(Addresses)
      /\ Len(DecodedStack) = Len(frames)
      /\ \A k \in 1 .. Len(frames) : DecodedStack[k] = frames[k].ret
  BY DecodedIsReturns DEF DecodedReturns
<1>6. /\ DecodedStack' \in Seq(Addresses)
      /\ Len(DecodedStack') = Len(frames')
      /\ \A k \in 1 .. Len(frames') : DecodedStack'[k] = frames'[k].ret
  BY <1>1, DecodedIsReturnsNext DEF DecodedReturns
<1>7. s + 4 \in Addresses
  BY DEF Addresses
<1>8. DecodedStack' = <<s + 4>> \o DecodedStack
  <2> DEFINE t == <<s + 4>> \o DecodedStack
  <2>1. /\ t \in Seq(Addresses)
        /\ Len(t) = Len(DecodedStack) + 1
        /\ t[1] = s + 4
        /\ \A k \in 2 .. Len(DecodedStack) + 1 : t[k] = DecodedStack[k - 1]
    BY <1>5, <1>7, PushSeq
  <2> HIDE DEF t
  <2>2. Len(frames) \in Nat
    BY <1>2
  <2>3. Len(t) = Len(DecodedStack')
    BY <1>4, <1>5, <1>6, <2>1
  <2>4. ASSUME NEW k \in 1 .. Len(t)
        PROVE  t[k] = DecodedStack'[k]
    <3>1. CASE k = 1
      BY <3>1, <2>1, <2>2, <1>4, <1>6
    <3>2. CASE k # 1
      <4>1. k \in 2 .. Len(frames) + 1 /\ k - 1 \in 1 .. Len(frames)
        BY <3>2, <2>1, <2>2, <1>5
      <4> QED
        BY <4>1, <2>1, <1>4, <1>5, <1>6
    <3> QED
      BY <3>1, <3>2
  <2>5. t = DecodedStack'
    BY <1>6, <2>1, <2>3, <2>4, SeqEqual
  <2> QED
    BY <2>5 DEF t
<1>9. C!Body(pc) = Owner[s]
  <2>1. Owner[s] \in Fns
    BY ProgramAssumption
  <2>2. InBody(pc, Owner[s])
    BY DEF CallStep, Running
  <2>3. ASSUME pc - 4 \in Sites
        PROVE  pc \notin Fns
    <3>1. (pc - 4) + 4 \notin Fns
      BY <2>3 DEF TablesRight, AddressesRight
    <3>2. pc \in Int
      BY ProgramAssumption DEF IInv, TypeOK, Addresses, Sites
    <3> QED
      BY <3>1, <3>2
  <2> QED
    BY <2>1, <2>2, <2>3 DEF InBody, C!Body
<1>10. DecodedStack # <<>>
  BY <1>2, <1>5, EmptySeq
<1> QED
  BY <1>8, <1>9, <1>10 DEF C!Call, CallStep

LEMMA ReturnRefines ==
  ASSUME TablesRight, IInv, ReturnStep
  PROVE  C!Return
<1>1. IInv'
  BY ReturnPreserves
<1>2. frames \in Seq(FrameType) /\ frames # <<>>
  BY DEF IInv, TypeOK, ReturnStep
<1>3. /\ Head(frames) = frames[1]
      /\ Len(frames) \in Nat /\ Len(frames) >= 1
      /\ Len(frames') = Len(frames) - 1
      /\ \A k \in 1 .. Len(frames) - 1 : frames'[k] = frames[k + 1]
  BY <1>2, PopSeq DEF ReturnStep
<1>4. /\ DecodedStack \in Seq(Addresses)
      /\ Len(DecodedStack) = Len(frames)
      /\ \A k \in 1 .. Len(frames) : DecodedStack[k] = frames[k].ret
  BY DecodedIsReturns DEF DecodedReturns
<1>5. /\ DecodedStack' \in Seq(Addresses)
      /\ Len(DecodedStack') = Len(frames')
      /\ \A k \in 1 .. Len(frames') : DecodedStack'[k] = frames'[k].ret
  BY <1>1, DecodedIsReturnsNext DEF DecodedReturns
<1>6. DecodedStack # <<>>
  BY <1>3, <1>4, EmptySeq
<1>7. /\ Head(DecodedStack) = DecodedStack[1]
      /\ Tail(DecodedStack) \in Seq(Addresses)
      /\ Len(Tail(DecodedStack)) = Len(DecodedStack) - 1
      /\ \A k \in 1 .. Len(DecodedStack) - 1 :
           Tail(DecodedStack)[k] = DecodedStack[k + 1]
  BY <1>4, <1>6, PopSeq
<1>8. pc' = Head(DecodedStack)
  BY <1>3, <1>4, <1>7 DEF ReturnStep
<1>9. DecodedStack' = Tail(DecodedStack)
  <2>1. ASSUME NEW k \in 1 .. Len(frames')
        PROVE  DecodedStack'[k] = Tail(DecodedStack)[k]
    <3>1. k \in 1 .. Len(frames) - 1 /\ k + 1 \in 1 .. Len(frames)
      BY <1>3
    <3> QED
      BY <3>1, <1>3, <1>4, <1>5, <1>7
  <2> QED
    BY <2>1, <1>3, <1>4, <1>5, <1>7, SeqEqual
<1> QED
  BY <1>6, <1>8, <1>9 DEF C!Return

LEMMA RootRefines ==
  ASSUME TablesRight, IInv, NEW f \in Fns, RootCall(f)
  PROVE  C!Enter(f) /\ f \in Roots
<1>1. DecodedStack = <<>>
  BY DEF RootCall, Idle, DecodedStack
<1>2. program_stack' = <<>> /\ frames' # <<>>
  BY DEF RootCall, Idle, IInv, ShadowMirrorsFrames
<1>3. DecodedStack' = [k \in 1 .. 1 |-> Outside]
  <2>1. Len(program_stack') = 0
    BY <1>2
  <2> QED
    BY <1>2, <2>1 DEF DecodedStack
<1>4. [k \in 1 .. 1 |-> Outside] = <<Outside>>
  OBVIOUS
<1> QED
  BY <1>1, <1>3, <1>4 DEF C!Enter, RootCall

LEMMA InitRefines == Init => C!Init
  BY DEF Init, C!Init, DecodedStack

LEMMA StutterRefines == UNCHANGED vars => UNCHANGED C!vars
  BY DEF vars, C!vars, DecodedStack

LEMMA StepRefines ==
  ASSUME TablesRight, IInv, [Next]_vars
  PROVE  [C!Next]_C!vars
<1>1. CASE \E f \in Fns : RootCall(f)
  BY <1>1, RootRefines DEF C!Next
<1>2. CASE \E s \in Sites : \E f, lr : CallStep(s, f, lr)
  <2>1. PICK s \in Sites : \E f, lr : CallStep(s, f, lr)
    BY <1>2
  <2>2. PICK f, lr : CallStep(s, f, lr)
    BY <2>1
  <2>3. f \in Fns
    BY <2>2, TargetsHooked DEF CallStep
  <2> QED
    BY <2>2, <2>3, CallRefines DEF C!Next
<1>3. CASE ReturnStep
  BY <1>3, ReturnRefines DEF C!Next
<1>4. CASE UNCHANGED vars
  BY <1>4, StutterRefines
<1> QED
  BY <1>1, <1>2, <1>3, <1>4, StepCases

\* program_stack, decoded, is the call stack of the source program.
THEOREM Refinement ==
  ASSUME TablesRight
  PROVE  Spec => RefinesCallStack
<1>1. Init => C!Init
  BY InitRefines
<1>2. IInv /\ [Next]_vars => [C!Next]_C!vars
  BY StepRefines
<1> QED
  BY <1>1, <1>2, Invariance, PTL DEF Spec, RefinesCallStack, C!Spec

-----------------------------------------------------------------------------
(***************************************************************************)
(* Any program, whatever its tables get wrong.                             *)
(***************************************************************************)

\* Hooked activations among the first k of a machine stack.
HookedIn(q, k) == {j \in 1 .. k : q[j].hooked}

Mirrors(q, w) ==
  /\ Len(w) = Cardinality(HookedIn(q, Len(q)))
  /\ \A k \in HookedIn(q, Len(q)) : w[Cardinality(HookedIn(q, k))] = q[k].lr

LEMMA InStepMirrors == InStep <=> Mirrors(frames, program_stack)
  BY DEF InStep, Mirrors, HookedIn

\* An activation in front counts where it is hooked, and moves the others on.
LEMMA CountPushed ==
  ASSUME NEW S, NEW q \in Seq(S), NEW x \in S, NEW k \in 0 .. Len(q)
  PROVE  /\ Cardinality(HookedIn(q, k)) \in Nat
         /\ Cardinality(HookedIn(<<x>> \o q, k + 1))
              = Cardinality(HookedIn(q, k)) + (IF x.hooked THEN 1 ELSE 0)
<1> DEFINE p == <<x>> \o q
           old == HookedIn(q, k)
           new == HookedIn(p, k + 1) \ {1}
           on == [j \in old |-> j + 1]
<1>1. k \in Nat /\ k <= Len(q) /\ Len(q) \in Nat
  OBVIOUS
<1>2. p[1] = x /\ \A j \in 1 .. Len(q) : p[j + 1] = q[j]
  BY PushSeq
<1>3. IsFiniteSet(old) /\ Cardinality(old) \in Nat
  <2>1. IsFiniteSet(1 .. k)
    BY <1>1, FS_Interval
  <2>2. old \in SUBSET (1 .. k)
    BY DEF HookedIn
  <2>3. IsFiniteSet(old)
    BY <2>1, <2>2, FS_Subset
  <2> QED
    BY <2>3, FS_CardinalityType
<1>4. \A j : j \in new <=> j - 1 \in old /\ j \in 2 .. k + 1
  <2>1. \A j \in 2 .. k + 1 : j - 1 \in 1 .. k /\ j - 1 \in 1 .. Len(q) /\ p[j] = q[j - 1]
    <3>1. \A j \in 2 .. k + 1 : j - 1 \in 1 .. k /\ j - 1 \in 1 .. Len(q) /\ (j - 1) + 1 = j
      BY <1>1
    <3> QED
      BY <1>2, <3>1
  <2>2. \A j : j \in (1 .. k + 1) \ {1} <=> j \in 2 .. k + 1
    BY <1>1
  <2> HIDE DEF p
  <2> QED
    BY <2>1, <2>2 DEF HookedIn
<1>5. ExistsBijection(old, new)
  <2>1. \A j \in old : j \in 1 .. k
    BY DEF HookedIn
  <2> HIDE DEF old, new
  <2>2. on \in [old -> new]
    BY <1>1, <1>4, <2>1
  <2>3. \A i, j \in old : on[i] = on[j] => i = j
    BY <1>1, <2>1
  <2>4. \A j \in new : \E i \in old : on[i] = j
    <3> TAKE j \in new
    <3>1. j - 1 \in old /\ (j - 1) + 1 = j
      BY <1>1, <1>4
    <3> QED
      BY <3>1
  <2> HIDE DEF on
  <2>5. on \in Bijection(old, new)
    BY <2>2, <2>3, <2>4 DEF Bijection, Injection, Surjection, IsInjective
  <2> QED
    BY <2>5 DEF ExistsBijection
<1>6. IsFiniteSet(new) /\ Cardinality(new) = Cardinality(old)
  BY <1>3, <1>5, FS_Bijection
<1>7. HookedIn(p, k + 1) = IF x.hooked THEN new \cup {1} ELSE new
  <2>1. 1 \in HookedIn(p, k + 1) <=> x.hooked
    BY <1>1, <1>2 DEF HookedIn
  <2> QED
    BY <2>1
<1>8. Cardinality(new \cup {1}) = Cardinality(new) + 1
  BY <1>6, FS_AddElement
<1> HIDE DEF p, old, new
<1>9. Cardinality(HookedIn(p, k + 1)) = Cardinality(old) + (IF x.hooked THEN 1 ELSE 0)
  BY <1>3, <1>6, <1>7, <1>8
<1> QED
  BY <1>3, <1>9 DEF p, old

\* The count at a hooked activation is a place of the list.
LEMMA CountInside ==
  ASSUME NEW S, NEW q \in Seq(S), NEW k \in HookedIn(q, Len(q))
  PROVE  Cardinality(HookedIn(q, k)) \in 1 .. Cardinality(HookedIn(q, Len(q)))
<1>1. k \in 1 .. Len(q) /\ k \in Nat /\ Len(q) \in Nat /\ q[k].hooked
  BY DEF HookedIn
<1> DEFINE all == HookedIn(q, Len(q))
           upto == HookedIn(q, k)
<1>2. all \in SUBSET (1 .. Len(q)) /\ upto \in SUBSET all /\ k \in upto
  BY <1>1 DEF HookedIn
<1>3. IsFiniteSet(1 .. Len(q))
  BY <1>1, FS_Interval
<1> HIDE DEF all, upto
<1>4. IsFiniteSet(all)
  BY <1>2, <1>3, FS_Subset
<1>5. IsFiniteSet(upto) /\ Cardinality(upto) <= Cardinality(all)
  BY <1>2, <1>4, FS_Subset
<1>6. Cardinality(upto) \in Nat /\ Cardinality(all) \in Nat
  BY <1>4, <1>5, FS_CardinalityType
<1>7. Cardinality(upto) # 0
  BY <1>2, <1>5, FS_EmptySet
<1> QED
  BY <1>5, <1>6, <1>7 DEF all, upto

\* A hooked activation and its word keep the two in step, and so does an
\* activation without either.
LEMMA PushMirrors ==
  ASSUME NEW S, NEW T, NEW q \in Seq(S), NEW w \in Seq(T), NEW x \in S, Mirrors(q, w)
  PROVE  /\ x.hooked /\ x.lr \in T => Mirrors(<<x>> \o q, <<x.lr>> \o w)
         /\ ~x.hooked => Mirrors(<<x>> \o q, w)
<1> DEFINE p == <<x>> \o q
           count(k) == Cardinality(HookedIn(q, k))
           more == IF x.hooked THEN 1 ELSE 0
<1>1. p[1] = x /\ (\A k \in 1 .. Len(q) : p[k + 1] = q[k]) /\ Len(p) = Len(q) + 1
      /\ Len(q) \in Nat
  BY PushSeq
<1>2. \A k \in 0 .. Len(q) :
        count(k) \in Nat /\ Cardinality(HookedIn(p, k + 1)) = count(k) + more
  BY CountPushed
<1>3. count(0) = 0
  <2>1. HookedIn(q, 0) = {}
    BY DEF HookedIn
  <2> QED
    BY <2>1, FS_EmptySet
<1>4. Len(w) = count(Len(q)) /\ Len(w) \in Nat
  BY DEF Mirrors
<1>5. \A k \in HookedIn(q, Len(q)) : k \in 1 .. Len(q) /\ count(k) \in 1 .. Len(w)
                                     /\ w[count(k)] = q[k].lr
  <2> TAKE k \in HookedIn(q, Len(q))
  <2>1. count(k) \in 1 .. count(Len(q))
    BY CountInside
  <2>2. k \in 1 .. Len(q) /\ w[count(k)] = q[k].lr
    BY DEF Mirrors, HookedIn
  <2> QED
    BY <1>4, <2>1, <2>2
<1>6. \A k \in HookedIn(p, Len(p)) : \/ k = 1 /\ x.hooked
                                     \/ k - 1 \in HookedIn(q, Len(q)) /\ p[k] = q[k - 1]
  <2> TAKE k \in HookedIn(p, Len(p))
  <2>1. k \in 1 .. Len(q) + 1 /\ p[k].hooked
    BY <1>1 DEF HookedIn
  <2>2. CASE k = 1
    BY <1>1, <2>1, <2>2
  <2>3. CASE k # 1
    <3>1. k - 1 \in 1 .. Len(q) /\ (k - 1) + 1 = k
      BY <1>1, <2>1, <2>3
    <3>2. p[k] = q[k - 1]
      BY <1>1, <3>1
    <3> QED
      BY <2>1, <3>1, <3>2 DEF HookedIn
  <2> QED
    BY <2>2, <2>3
<1>7. Cardinality(HookedIn(p, Len(p))) = count(Len(q)) + more
  <2>1. Len(q) \in 0 .. Len(q)
    BY <1>1
  <2> QED
    BY <1>1, <1>2, <2>1
<1>8. Cardinality(HookedIn(p, 1)) = more
  <2>1. 0 \in 0 .. Len(q) /\ 0 + 1 = 1
    BY <1>1
  <2>2. Cardinality(HookedIn(p, 0 + 1)) = count(0) + more
    BY <1>2, <2>1
  <2> QED
    BY <1>3, <2>1, <2>2
<1>9. \A k \in HookedIn(q, Len(q)) : Cardinality(HookedIn(p, k + 1)) = count(k) + more
  <2>1. \A k \in HookedIn(q, Len(q)) : k \in 0 .. Len(q)
    BY <1>1, <1>5
  <2> QED
    BY <1>2, <2>1
<1> HIDE DEF p, count
<1>10. ASSUME x.hooked, x.lr \in T
       PROVE  Mirrors(p, <<x.lr>> \o w)
  <2> DEFINE v == <<x.lr>> \o w
  <2>1. Len(v) = Len(w) + 1 /\ v[1] = x.lr /\ \A n \in 1 .. Len(w) : v[n + 1] = w[n]
    BY <1>10, PushSeq
  <2> HIDE DEF v
  <2>2. Len(v) = Cardinality(HookedIn(p, Len(p)))
    BY <1>4, <1>7, <1>10, <2>1
  <2>3. ASSUME NEW k \in HookedIn(p, Len(p))
        PROVE  v[Cardinality(HookedIn(p, k))] = p[k].lr
    <3>1. CASE k = 1
      BY <1>1, <1>8, <1>10, <2>1, <3>1
    <3>2. CASE k # 1
      <4>1. k - 1 \in HookedIn(q, Len(q)) /\ p[k] = q[k - 1]
        BY <1>6, <2>3, <3>2
      <4>2. k - 1 \in 1 .. Len(q) /\ count(k - 1) \in 1 .. Len(w)
            /\ w[count(k - 1)] = q[k - 1].lr
        BY <1>5, <4>1
      <4>3. k \in Int
        BY <2>3 DEF HookedIn
      <4>4. (k - 1) + 1 = k
        BY <4>3
      <4>5. Cardinality(HookedIn(p, k)) = count(k - 1) + 1
        BY <1>9, <1>10, <4>1, <4>4
      <4> QED
        BY <2>1, <4>1, <4>2, <4>5
    <3> QED
      BY <3>1, <3>2
  <2>4. Mirrors(p, v)
    BY <2>2, <2>3 DEF Mirrors
  <2> QED
    BY <2>4 DEF v
<1>11. ASSUME ~x.hooked
       PROVE  Mirrors(p, w)
  <2>1. Len(w) = Cardinality(HookedIn(p, Len(p)))
    BY <1>4, <1>7, <1>11
  <2>2. ASSUME NEW k \in HookedIn(p, Len(p))
        PROVE  w[Cardinality(HookedIn(p, k))] = p[k].lr
    <3>1. k - 1 \in HookedIn(q, Len(q)) /\ p[k] = q[k - 1]
      BY <1>6, <1>11, <2>2
    <3>2. count(k - 1) \in 1 .. Len(w) /\ w[count(k - 1)] = q[k - 1].lr
      BY <1>5, <3>1
    <3>3. k \in Int
      BY <2>2 DEF HookedIn
    <3>4. (k - 1) + 1 = k
      BY <3>3
    <3>5. Cardinality(HookedIn(p, k)) = count(k - 1)
      BY <1>9, <1>11, <3>1, <3>2, <3>4
    <3> QED
      BY <3>1, <3>2, <3>5
  <2> QED
    BY <2>1, <2>2 DEF Mirrors
<1> QED
  BY <1>10, <1>11 DEF p

\* A hooked activation that ends takes its word along, any other takes none.
LEMMA PopMirrors ==
  ASSUME NEW S, NEW T, NEW q \in Seq(S), NEW w \in Seq(T), q # <<>>, Mirrors(q, w)
  PROVE  /\ Head(q).hooked => w # <<>> /\ Head(w) = Head(q).lr /\ Mirrors(Tail(q), Tail(w))
         /\ ~Head(q).hooked => Mirrors(Tail(q), w)
<1> DEFINE r == Tail(q)
           x == Head(q)
           count(k) == Cardinality(HookedIn(r, k))
           more == IF x.hooked THEN 1 ELSE 0
<1>1. /\ x = q[1] /\ x \in S /\ r \in Seq(S) /\ Len(r) = Len(q) - 1
      /\ \A k \in 1 .. Len(q) - 1 : r[k] = q[k + 1]
      /\ Len(q) \in Nat /\ Len(q) >= 1 /\ Len(r) \in Nat
  BY PopSeq
<1>2. q = <<x>> \o r
  OBVIOUS
<1>3. \A k \in 0 .. Len(r) :
        count(k) \in Nat /\ Cardinality(HookedIn(q, k + 1)) = count(k) + more
  BY <1>1, <1>2, CountPushed
<1>4. Len(w) = count(Len(r)) + more
  <2>1. Len(r) \in 0 .. Len(r) /\ Len(r) + 1 = Len(q)
    BY <1>1
  <2>2. Cardinality(HookedIn(q, Len(r) + 1)) = count(Len(r)) + more
    BY <1>3, <2>1
  <2> QED
    BY <2>1, <2>2 DEF Mirrors
<1>5. \A k \in HookedIn(r, Len(r)) :
        /\ count(k) \in 1 .. count(Len(r))
        /\ w[count(k) + more] = r[k].lr
  <2> TAKE k \in HookedIn(r, Len(r))
  <2>1. count(k) \in 1 .. count(Len(r))
    BY <1>1, CountInside
  <2>2. k \in 1 .. Len(r) /\ r[k].hooked /\ r[k] = q[k + 1] /\ k \in 0 .. Len(r)
    BY <1>1 DEF HookedIn
  <2>3. k + 1 \in HookedIn(q, Len(q))
    BY <1>1, <2>2 DEF HookedIn
  <2>4. w[Cardinality(HookedIn(q, k + 1))] = q[k + 1].lr
    BY <2>3 DEF Mirrors
  <2>5. Cardinality(HookedIn(q, k + 1)) = count(k) + more
    BY <1>3, <2>2
  <2> QED
    BY <2>1, <2>2, <2>4, <2>5
<1>6. count(Len(r)) \in Nat /\ Len(w) \in Nat
  BY <1>1, <1>3
<1> HIDE DEF count, r, x
<1>7. ASSUME x.hooked
      PROVE  w # <<>> /\ Head(w) = x.lr /\ Mirrors(r, Tail(w))
  <2>1. w # <<>>
    BY <1>4, <1>6, <1>7
  <2>2. /\ Head(w) = w[1] /\ Len(Tail(w)) = Len(w) - 1
        /\ \A n \in 1 .. Len(w) - 1 : Tail(w)[n] = w[n + 1]
    BY <2>1, PopSeq
  <2>3. w[1] = x.lr
    <3>1. Cardinality(HookedIn(q, 1)) = 1
      <4>1. 0 \in 0 .. Len(r) /\ 0 + 1 = 1
        BY <1>1
      <4>2. HookedIn(r, 0) = {}
        BY DEF HookedIn
      <4>3. count(0) = 0
        BY <4>2, FS_EmptySet DEF count
      <4>4. Cardinality(HookedIn(q, 0 + 1)) = count(0) + 1
        BY <1>3, <1>7, <4>1
      <4> QED
        BY <4>3, <4>4
    <3>2. 1 \in HookedIn(q, Len(q))
      BY <1>1, <1>7 DEF HookedIn
    <3>3. w[Cardinality(HookedIn(q, 1))] = q[1].lr
      BY <3>2 DEF Mirrors
    <3> QED
      BY <1>1, <3>1, <3>3
  <2>4. Len(Tail(w)) = count(Len(r))
    BY <1>4, <1>6, <1>7, <2>2
  <2>5. ASSUME NEW k \in HookedIn(r, Len(r))
        PROVE  Tail(w)[count(k)] = r[k].lr
    <3>1. count(k) \in 1 .. count(Len(r)) /\ w[count(k) + 1] = r[k].lr
      BY <1>5, <1>7
    <3>2. count(k) \in 1 .. Len(w) - 1
      BY <1>4, <1>6, <1>7, <3>1
    <3> QED
      BY <2>2, <3>1, <3>2
  <2> QED
    BY <2>1, <2>2, <2>3, <2>4, <2>5 DEF Mirrors, count
<1>8. ASSUME ~x.hooked
      PROVE  Mirrors(r, w)
  <2>1. Len(w) = count(Len(r))
    BY <1>4, <1>6, <1>8
  <2>2. ASSUME NEW k \in HookedIn(r, Len(r))
        PROVE  w[count(k)] = r[k].lr
    <3>1. count(k) \in 1 .. count(Len(r)) /\ w[count(k) + 0] = r[k].lr
      BY <1>5, <1>8
    <3>2. count(k) + 0 = count(k)
      BY <1>6, <3>1
    <3> QED
      BY <3>1, <3>2
  <2> QED
    BY <2>1, <2>2 DEF Mirrors, count
<1> QED
  BY <1>7, <1>8 DEF x, r

-----------------------------------------------------------------------------
\* The two stacks are sequences, whatever is on them.
Stacks == \E S, T : frames \in Seq(S) /\ program_stack \in Seq(T)

\* A hooked activation is entered with the word of its call in lr.
HookedByCall ==
  \A k \in 1 .. Len(frames) :
    frames[k].hooked =>
      \E s \in Sites : frames[k].ret = s + 4 /\ frames[k].lr = Word(s)

GapInv == Stacks /\ HookedByCall

\* What a step does to the two stacks, whatever the tables say.
PushStep ==
  \E x : /\ frames' = <<x>> \o frames
         /\ program_stack' = <<x.lr>> \o program_stack
         /\ x.hooked
         /\ \E s \in Sites : x.ret = s + 4 /\ x.lr = Word(s)

EnterStep ==
  \E x : frames' = <<x>> \o frames /\ program_stack' = program_stack /\ ~x.hooked

PopStep == frames # <<>> /\ frames' = Tail(frames) /\ program_stack' = Rest

LeaveStep ==
  /\ frames # <<>> /\ Head(frames).fn \in Plain
  /\ frames' = Tail(frames) /\ program_stack' = program_stack

FallStep ==
  /\ frames' = frames
  /\ \/ program_stack' = program_stack
     \/ program_stack' = Rest
     \/ \E w : program_stack' = <<w>> \o program_stack

LEMMA StackSteps ==
  ASSUME [Next]_vars
  PROVE  PushStep \/ EnterStep \/ PopStep \/ LeaveStep \/ FallStep
<1>1. ASSUME NEW f \in Fns, RootCall(f)
      PROVE  EnterStep
  <2> DEFINE x == Frame(f, Outside, Outside, FALSE)
  <2>1. ~x.hooked
    BY DEF Frame
  <2>2. frames' = <<x>> /\ frames = <<>> /\ program_stack' = program_stack
    BY <1>1 DEF RootCall, Idle
  <2> HIDE DEF x
  <2>3. frames' = <<x>> \o frames
    BY <2>2
  <2> QED
    BY <2>1, <2>2, <2>3 DEF EnterStep
<1>2. ASSUME NEW f \in Fns, Callback(f)
      PROVE  EnterStep
  <2> DEFINE x == Frame(f, pc, pc, FALSE)
  <2>1. ~x.hooked
    BY DEF Frame
  <2>2. frames' = <<x>> \o frames /\ program_stack' = program_stack
    BY <1>2 DEF Callback
  <2> HIDE DEF x
  <2> QED
    BY <2>1, <2>2 DEF EnterStep
<1>3. ASSUME NEW s \in BlSites, hook_bl(s)
      PROVE  PushStep
  <2> DEFINE x == Frame(btbl_bsearch(s), Word(s), s + 4, TRUE)
  <2>1. Word(s) = ftbl_bsearch_lr(s)
    BY DEF Word
  <2>2. frames' = <<x>> \o frames /\ program_stack' = <<Word(s)>> \o program_stack
    BY <1>3, <2>1 DEF hook_bl
  <2>3. x.lr = Word(s) /\ x.hooked /\ x.ret = s + 4
    BY DEF Frame
  <2> HIDE DEF x
  <2> QED
    BY <2>2, <2>3 DEF PushStep, Sites
<1>4. ASSUME NEW s \in BlxSites, NEW f, hook_blx(s, f)
      PROVE  PushStep
  <2> DEFINE x == Frame(f, Word(s), s + 4, TRUE)
  <2>1. Word(s) = s + 4
    BY ProgramAssumption DEF Word
  <2>2. frames' = <<x>> \o frames /\ program_stack' = <<Word(s)>> \o program_stack
    BY <1>4, <2>1 DEF hook_blx
  <2>3. x.lr = Word(s) /\ x.hooked /\ x.ret = s + 4
    BY DEF Frame
  <2> HIDE DEF x
  <2> QED
    BY <2>2, <2>3 DEF PushStep, Sites
<1>5. ASSUME NEW s \in BlxSites, hook_blx_unknown(s)
      PROVE  FallStep
  BY <1>5 DEF hook_blx_unknown, FallStep
<1>6. ASSUME NEW e \in Exits, Exit(e)
      PROVE  PopStep \/ FallStep
  BY <1>6 DEF Exit, hook_bx_lr, hook_pop_fp_pc_null, hook_pop_fp_pc,
              hook_pop_fp_pc_unknown, Running, PopStep, FallStep
<1>7. ASSUME NEW f \in Plain, PlainReturn(f)
      PROVE  LeaveStep
  BY <1>7 DEF PlainReturn, Running, LeaveStep
<1>8. UNCHANGED vars => FallStep
  BY DEF vars, FallStep
<1> QED
  BY <1>1, <1>2, <1>3, <1>4, <1>5, <1>6, <1>7, <1>8 DEF Next

LEMMA SeqGrows ==
  ASSUME NEW S, NEW q \in Seq(S), NEW x
  PROVE  q \in Seq(S \cup {x}) /\ x \in S \cup {x}
  OBVIOUS

\* A step keeps the two sequences, and what is in front of the frames is new or
\* was behind.
LEMMA StacksStay ==
  ASSUME Stacks, [Next]_vars
  PROVE  Stacks'
<1>1. PICK S : \E T : frames \in Seq(S) /\ program_stack \in Seq(T)
  BY DEF Stacks
<1>2. PICK T : frames \in Seq(S) /\ program_stack \in Seq(T)
  BY <1>1
<1>3. Rest \in Seq(T)
  BY <1>2, PopSeq DEF Rest
<1>4. frames # <<>> => Tail(frames) \in Seq(S)
  BY <1>2, PopSeq
<1>5. \A x : <<x>> \o frames \in Seq(S \cup {x}) /\ <<x>> \o program_stack \in Seq(T \cup {x})
  <2> TAKE x
  <2>1. frames \in Seq(S \cup {x}) /\ program_stack \in Seq(T \cup {x})
        /\ x \in S \cup {x} /\ x \in T \cup {x}
    BY <1>2, SeqGrows
  <2> QED
    BY <2>1, PushSeq
<1>6. \E U, V : frames' \in Seq(U) /\ program_stack' \in Seq(V)
  <2>1. CASE PushStep
    <3>1. PICK x : frames' = <<x>> \o frames /\ program_stack' = <<x.lr>> \o program_stack
      BY <2>1 DEF PushStep
    <3>2. frames' \in Seq(S \cup {x}) /\ program_stack' \in Seq(T \cup {x.lr})
      BY <1>5, <3>1
    <3> QED
      BY <3>2
  <2>2. CASE EnterStep
    <3>1. PICK x : frames' = <<x>> \o frames /\ program_stack' = program_stack
      BY <2>2 DEF EnterStep
    <3>2. frames' \in Seq(S \cup {x}) /\ program_stack' \in Seq(T)
      BY <1>2, <1>5, <3>1
    <3> QED
      BY <3>2
  <2>3. CASE PopStep
    <3>1. frames' \in Seq(S) /\ program_stack' \in Seq(T)
      BY <1>3, <1>4, <2>3 DEF PopStep
    <3> QED
      BY <3>1
  <2>4. CASE LeaveStep
    <3>1. frames' \in Seq(S) /\ program_stack' \in Seq(T)
      BY <1>2, <1>4, <2>4 DEF LeaveStep
    <3> QED
      BY <3>1
  <2>5. CASE FallStep
    <3>1. frames' \in Seq(S)
      BY <1>2, <2>5 DEF FallStep
    <3>2. \/ program_stack' \in Seq(T)
          \/ \E w : program_stack' \in Seq(T \cup {w})
      BY <1>2, <1>3, <1>5, <2>5 DEF FallStep
    <3> QED
      BY <3>1, <3>2
  <2> QED
    BY <2>1, <2>2, <2>3, <2>4, <2>5, StackSteps
<1> QED
  BY <1>6 DEF Stacks

LEMMA HookedStay ==
  ASSUME GapInv, [Next]_vars
  PROVE  HookedByCall'
<1> DEFINE Called(x) == x.hooked => \E s \in Sites : x.ret = s + 4 /\ x.lr = Word(s)
<1>1. PICK S : frames \in Seq(S)
  BY DEF GapInv, Stacks
<1>2. \A k \in 1 .. Len(frames) : Called(frames[k])
  BY DEF GapInv, HookedByCall
<1>3. ASSUME NEW x, Called(x), frames' = <<x>> \o frames
      PROVE  \A k \in 1 .. Len(frames') : Called(frames'[k])
  <2>1. frames \in Seq(S \cup {x}) /\ x \in S \cup {x}
    BY <1>1, SeqGrows
  <2>2. /\ Len(frames') = Len(frames) + 1 /\ frames'[1] = x
        /\ \A k \in 2 .. Len(frames) + 1 : frames'[k] = frames[k - 1]
    BY <1>3, <2>1, PushSeq
  <2>3. Len(frames) \in Nat
    BY <1>1
  <2> HIDE DEF Called
  <2> TAKE k \in 1 .. Len(frames')
  <2>4. CASE k = 1
    BY <1>3, <2>2, <2>4
  <2>5. CASE k # 1
    <3>1. k \in 2 .. Len(frames) + 1 /\ k - 1 \in 1 .. Len(frames)
      BY <2>2, <2>3, <2>5
    <3> QED
      BY <1>2, <2>2, <3>1
  <2> QED
    BY <2>4, <2>5
<1>4. ASSUME PopStep \/ LeaveStep
      PROVE  \A k \in 1 .. Len(frames') : Called(frames'[k])
  <2>1. /\ Len(frames') = Len(frames) - 1 /\ Len(frames) \in Nat
        /\ \A k \in 1 .. Len(frames) - 1 : frames'[k] = frames[k + 1]
    BY <1>1, <1>4, PopSeq DEF PopStep, LeaveStep
  <2> HIDE DEF Called
  <2> TAKE k \in 1 .. Len(frames')
  <2>2. k \in 1 .. Len(frames) - 1 /\ k + 1 \in 1 .. Len(frames)
    BY <2>1
  <2> QED
    BY <1>2, <2>1, <2>2
<1>5. \A k \in 1 .. Len(frames') : Called(frames'[k])
  <2>1. CASE PushStep
    <3>1. PICK x : frames' = <<x>> \o frames /\ Called(x)
      BY <2>1 DEF PushStep
    <3> QED
      BY <1>3, <3>1
  <2>2. CASE EnterStep
    <3>1. PICK x : frames' = <<x>> \o frames /\ Called(x)
      BY <2>2 DEF EnterStep
    <3> QED
      BY <1>3, <3>1
  <2>3. CASE FallStep
    <3>1. frames' = frames
      BY <2>3 DEF FallStep
    <3> HIDE DEF Called
    <3> QED
      BY <1>2, <3>1
  <2> QED
    BY <1>4, <2>1, <2>2, <2>3, StackSteps
<1> QED
  BY <1>5 DEF HookedByCall, Word

\* With any tables.
LEMMA GapInvariance == Spec => []GapInv
<1>1. Init => GapInv
  BY EmptySeq DEF Init, GapInv, Stacks, HookedByCall
<1>2. GapInv /\ [Next]_vars => GapInv'
  BY StacksStay, HookedStay DEF GapInv
<1> QED
  BY <1>1, <1>2, PTL DEF Spec

\* The next state's stacks.
LEMMA InStepNext == InStep' <=> Mirrors(frames', program_stack')
  BY DEF InStep, Mirrors, HookedIn

\* Whatever the tables of the program get wrong, and whatever it calls,
\* list_push and list_pop stay in step with the machine stack but for three
\* gaps: an activation no hook made that pops a word, an activation a hook made
\* that returns past the hooks, and a hook without a branch for a type.
THEOREM GapsOnly == Spec => OnlyGapsDesync
<1>1. GapInv /\ [Next]_vars =>
        [InStep /\ ~OverCallback /\ ~PastHook /\ ~FallsThrough => InStep']_vars
  <2> SUFFICES ASSUME GapInv, [Next]_vars, InStep,
                      ~OverCallback, ~PastHook, ~FallsThrough
               PROVE  InStep'
    OBVIOUS
  <2>1. PICK S : \E T : frames \in Seq(S) /\ program_stack \in Seq(T)
    BY DEF GapInv, Stacks
  <2>2. PICK T : frames \in Seq(S) /\ program_stack \in Seq(T)
    BY <2>1
  <2>3. Mirrors(frames, program_stack)
    BY InStepMirrors
  <2>4. CASE PushStep
    <3>1. PICK x : /\ frames' = <<x>> \o frames /\ x.hooked
                   /\ program_stack' = <<x.lr>> \o program_stack
      BY <2>4 DEF PushStep
    <3>2. /\ frames \in Seq(S \cup {x}) /\ x \in S \cup {x}
          /\ program_stack \in Seq(T \cup {x.lr}) /\ x.lr \in T \cup {x.lr}
      BY <2>2, SeqGrows
    <3>3. Mirrors(<<x>> \o frames, <<x.lr>> \o program_stack)
      BY <2>3, <3>1, <3>2, PushMirrors
    <3> QED
      BY <3>1, <3>3, InStepNext
  <2>5. CASE EnterStep
    <3>1. PICK x : frames' = <<x>> \o frames /\ ~x.hooked /\ program_stack' = program_stack
      BY <2>5 DEF EnterStep
    <3>2. frames \in Seq(S \cup {x}) /\ x \in S \cup {x}
      BY <2>2, SeqGrows
    <3>3. Mirrors(<<x>> \o frames, program_stack)
      BY <2>2, <2>3, <3>1, <3>2, PushMirrors
    <3> QED
      BY <3>1, <3>3, InStepNext
  <2>6. CASE PopStep
    <3>1. frames # <<>> /\ frames' = Tail(frames) /\ program_stack' = Rest
      BY <2>6 DEF PopStep
    <3>2. /\ Head(frames).hooked =>
               program_stack # <<>> /\ Mirrors(Tail(frames), Tail(program_stack))
          /\ ~Head(frames).hooked => Mirrors(Tail(frames), program_stack)
      BY <2>2, <2>3, <3>1, PopMirrors
    <3>3. Head(frames).hooked \/ program_stack' = program_stack
      BY <3>1 DEF OverCallback, Returning
    <3>4. Mirrors(Tail(frames), program_stack')
      BY <3>1, <3>2, <3>3 DEF Rest
    <3> QED
      BY <3>1, <3>4, InStepNext
  <2>7. CASE LeaveStep
    <3>1. frames # <<>> /\ frames' = Tail(frames) /\ program_stack' = program_stack
      BY <2>7 DEF LeaveStep
    <3>2. ~Head(frames).hooked
      BY <2>7 DEF LeaveStep, PastHook, Returning
    <3>3. Mirrors(Tail(frames), program_stack)
      BY <2>2, <2>3, <3>1, <3>2, PopMirrors
    <3> QED
      BY <3>1, <3>3, InStepNext
  <2>8. CASE FallStep
    BY <2>8 DEF FallStep, FallsThrough
  <2> QED
    BY <2>4, <2>5, <2>6, <2>7, <2>8, StackSteps
<1> QED
  BY <1>1, GapInvariance, PTL DEF Spec, OnlyGapsDesync

\* A step that ends an activation through a hook branches to the word popped,
\* decoded; NULL only is not decoded.
LEMMA ReturnDecodes ==
  ASSUME GapInv, Next, Returning, Head(frames).hooked, ~PastHook, IsToken(Popped)
  PROVE  pc' = Decode(Popped)
<1>1. PICK S : frames \in Seq(S)
  BY DEF GapInv, Stacks
<1>2. frames' = Tail(frames) /\ Len(frames) \in Nat /\ Len(frames') = Len(frames) - 1
  BY <1>1, PopSeq DEF Returning
<1>3. frames' # frames /\ \A x : frames' # <<x>> \o frames
  <2>1. frames' # frames
    BY <1>2
  <2>2. ASSUME NEW x, frames' = <<x>> \o frames
        PROVE  FALSE
    <3>1. frames \in Seq(S \cup {x}) /\ x \in S \cup {x}
      BY <1>1, SeqGrows
    <3>2. Len(<<x>> \o frames) = Len(frames) + 1
      BY <3>1, PushSeq
    <3> QED
      BY <1>2, <2>2, <3>2
  <2> QED
    BY <2>1, <2>2
<1>4. Popped # NULL
  BY DEF IsToken, NULL
<1>5. ~(\E f \in Fns : RootCall(f) \/ Callback(f))
  BY <1>3 DEF RootCall, Idle, Callback, Returning
<1>6. ~(\E s \in BlSites : hook_bl(s))
  BY <1>3 DEF hook_bl
<1>7. ~(\E s \in BlxSites : \/ \E f \in Fns \union Plain : hook_blx(s, f)
                            \/ hook_blx_unknown(s))
  BY <1>3 DEF hook_blx, hook_blx_unknown
<1>8. ~(\E f \in Plain : PlainReturn(f))
  BY DEF PlainReturn, Running, PastHook
<1>9. PICK e \in Exits : Exit(e)
  BY <1>5, <1>6, <1>7, <1>8 DEF Next
<1> QED
  BY <1>3, <1>4, <1>9 DEF Exit, hook_bx_lr, hook_pop_fp_pc_null, hook_pop_fp_pc,
                          hook_pop_fp_pc_unknown

\* The search for a token stops at the call's own row or before it.
LEMMA TokenFindsAlias ==
  ASSUME RowsInOrder, NEW s \in BlSites
  PROVE  ta_decrypt_test(ftbl_bsearch_lr(s)) \in Aliases(s + 4)
<1> DEFINE w == ftbl_bsearch_lr(s)
           c == CHOOSE r \in Rows(ftbl) : r.src = s
           found == {k \in 1 .. Len(ftbl) : ftbl[k].lr = w}
           first == CHOOSE k \in found : \A j \in found : k <= j
<1>1. s \in Nat /\ s \in Sites /\ (s + 4) - 4 = s /\ Len(ftbl) \in Nat
  BY ProgramAssumption, TableAssumption DEF Sites
<1>2. c \in Rows(ftbl) /\ c.src = s
  BY <1>1 DEF RowsInOrder
<1>3. w = c.lr
  BY DEF ftbl_bsearch_lr
<1>4. PICK own \in 1 .. Len(ftbl) : c = ftbl[own]
  BY <1>2 DEF Rows
<1>5. own \in found
  BY <1>3, <1>4
<1> HIDE DEF w, c
<1>6. \E k \in found : \A j \in found : k <= j
  <2>1. found \in SUBSET Nat /\ found # {}
    BY <1>5
  <2> HIDE DEF found
  <2> QED
    BY <2>1, LeastElement
<1>7. first \in found /\ \A j \in found : first <= j
  BY <1>6
<1>8. ta_decrypt_test(w) = ftbl[first].src + 4
  BY <1>5 DEF ta_decrypt_test
<1> HIDE DEF first
<1>9. first \in 1 .. Len(ftbl) /\ ftbl[first].lr = w /\ first <= own
  BY <1>5, <1>7
<1>10. ftbl[first].src <= s
  BY <1>2, <1>4, <1>9 DEF RowsInOrder
<1>11. ftbl[first] \in Rows(ftbl)
  BY <1>9 DEF Rows
<1>12. \E r \in Rows(ftbl) :
         /\ r.lr = w /\ r.src <= (s + 4) - 4
         /\ ta_decrypt_test(w) = r.src + 4
  BY <1>1, <1>8, <1>9, <1>10, <1>11
<1> QED
  BY <1>1, <1>12, Zenon DEF Aliases, w

LEMMA StepLands ==
  ASSUME RowsInOrder, GapInv, Next, InStep, Returning, Head(frames).hooked,
         ~PastHook, IsToken(Popped)
  PROVE  pc' \in Aliases(Head(frames).ret)
<1>1. PICK S : \E T : frames \in Seq(S) /\ program_stack \in Seq(T)
  BY DEF GapInv, Stacks
<1>2. PICK T : frames \in Seq(S) /\ program_stack \in Seq(T)
  BY <1>1
<1>3. frames # <<>> /\ Head(frames) = frames[1] /\ 1 \in 1 .. Len(frames)
  BY <1>2, PopSeq DEF Returning
<1>4. Popped = Head(frames).lr
  <2>1. Mirrors(frames, program_stack)
    BY InStepMirrors
  <2>2. program_stack # <<>> /\ Head(program_stack) = Head(frames).lr
    BY <1>2, <1>3, <2>1, PopMirrors
  <2> QED
    BY <2>2 DEF Popped
<1>5. PICK s \in Sites : Head(frames).ret = s + 4 /\ Head(frames).lr = Word(s)
  BY <1>3 DEF GapInv, HookedByCall
<1>6. s \in BlSites /\ Popped = ftbl_bsearch_lr(s)
  <2>1. ~IsToken(s + 4)
    BY DEF RowsInOrder
  <2> QED
    BY <1>4, <1>5, <2>1 DEF Word
<1>7. pc' = ta_decrypt_test(ftbl_bsearch_lr(s))
  BY <1>6, ReturnDecodes DEF Decode
<1> QED
  BY <1>5, <1>6, <1>7, TokenFindsAlias

\* A return through a token goes to the call it was made by, or to a call with
\* the same token earlier in ftbl, for any program and any tables in the order
\* hookit writes them.
THEOREM LandsRight ==
  ASSUME RowsInOrder
  PROVE  Spec => LandsAtCallOrAlias
<1>1. GapInv /\ [Next]_vars =>
        [InStep /\ Returning /\ Head(frames).hooked /\ ~PastHook /\ IsToken(Popped)
           => pc' \in Aliases(Head(frames).ret)]_vars
  BY StepLands
<1> QED
  BY <1>1, GapInvariance, PTL DEF Spec, LandsAtCallOrAlias

-----------------------------------------------------------------------------
(***************************************************************************)
(* The instrumented program: what hookit writes for a text that is right   *)
(* is right for the hooks.                                                 *)
(***************************************************************************)

KP == INSTANCE HookitProofs WITH Programs <- {Text}, k <- passed

\* The script of HookitProofs is that of Instrumented.
LEMMA SameScript ==
  /\ K!Init <=> KP!Init
  /\ K!Next <=> KP!Next
  /\ script = KP!vars
  /\ K!None = KP!None
  BY DEF script, KP!vars, K!None, KP!None, K!Init, KP!Init, K!Next, KP!Next,
         K!Duplicate, KP!Duplicate, K!PassOver, KP!PassOver,
         K!rewrite_branch_with_link, KP!rewrite_branch_with_link,
         K!rewrite_blx_rx, KP!rewrite_blx_rx,
         K!rewrite_branch_and_exchange_lr, KP!rewrite_branch_and_exchange_lr,
         K!rewrite_pop_fp_pc, KP!rewrite_pop_fp_pc,
         K!rewrite_pop_fp_lr, KP!rewrite_pop_fp_lr,
         K!NextChunk, KP!NextChunk, K!FixCall, KP!FixCall,
         K!PassCall, KP!PassCall, K!Finish, KP!Finish,
         K!Decodes, KP!Decodes, K!Words, KP!Words, K!At, KP!At,
         K!text_end, KP!text_end, K!Step, KP!Step, K!Fresh, KP!Fresh,
         K!Op, KP!Op, K!Arg, KP!Arg, K!Rewrite, KP!Rewrite,
         K!Measure, KP!Measure, K!Call, KP!Call, K!Segment, KP!Segment,
         K!Holding, KP!Holding, K!Trim, KP!Trim, K!RtType, KP!RtType

LEMMA ScriptAssumption == KP!HookitAssumption
  BY TextAssumption DEF K!HookitAssumption, KP!HookitAssumption, K!Ops, KP!Ops

\* The text is the program.
LEMMA ProgramIsText ==
  ASSUME KP!TablesFit
  PROVE  /\ program = Text /\ program \in {Text}
         /\ KP!Words(program) = K!Words(Text)
         /\ \A a : KP!At(program, a).op = OpAt(a) /\ KP!At(program, a).arg = ArgAt(a)
  BY DEF KP!TablesFit, KP!Words, K!Words, KP!At, K!At, OpAt, ArgAt

\* What the script takes for calls and exits are those of the program.
LEMMA SourceFacts ==
  ASSUME KP!TablesFit
  PROVE  /\ KP!Calls = Sites /\ KP!Exits = Exits
         /\ \A s \in Sites : OpAt(s) = IF s \in BlSites THEN "bl" ELSE "blx"
         /\ \A e \in Exits : OpAt(e) = IF e \in PopExits THEN "pop" ELSE "bx_lr"
         /\ \A e \in PopExits : KP!ExitType(e) = Shape[e]
<1>1. /\ BlSites = AddressesOf("bl") /\ BlxSites = AddressesOf("blx")
      /\ PopExits = AddressesOf("pop") /\ BxExits = AddressesOf("bx_lr")
      /\ \A e \in PopExits : Shape[e] = ArgAt(e)
  BY SourceAssumption
<1>2. KP!Calls = Sites
  BY <1>1, ProgramIsText DEF KP!Calls, Sites, AddressesOf
<1>3. KP!Exits = Exits
  BY <1>1, ProgramIsText DEF KP!Exits, Exits, AddressesOf
<1>4. \A s \in Sites : OpAt(s) = IF s \in BlSites THEN "bl" ELSE "blx"
  BY <1>1 DEF Sites, AddressesOf
<1>5. \A e \in Exits : OpAt(e) = IF e \in PopExits THEN "pop" ELSE "bx_lr"
  BY <1>1 DEF Exits, AddressesOf
<1>6. \A e \in PopExits : KP!ExitType(e) = Shape[e]
  BY <1>1, ProgramIsText DEF KP!ExitType, AddressesOf
<1> QED
  BY <1>2, <1>3, <1>4, <1>5, <1>6

\* An exit whose function is f lies at or after f, and no entry lies between.
LEMMA ExitWithin ==
  ASSUME NEW e \in Exits
  PROVE  /\ ExitFn[e] \in Fns /\ ExitFn[e] \in Nat /\ e \in Nat
         /\ ExitFn[e] <= e
         /\ \A g \in Fns : g \in Nat /\ (g <= e => g <= ExitFn[e])
  BY ProgramAssumption, SourceAssumption DEF Within, Exits

\* The first exit from the entry of a function that has one is its own, as are
\* those up to any of its exits.
LEMMA FirstExitOwn ==
  ASSUME KP!TablesFit, NEW f \in Fns, NEW e \in Exits, ExitFn[e] = f,
         NEW a \in Nat, f <= a, a <= e
  PROVE  /\ KP!FirstExit(a) \in Exits /\ a <= KP!FirstExit(a)
         /\ \A y \in Exits : a <= y => KP!FirstExit(a) <= y
         /\ ExitFn[KP!FirstExit(a)] = f
         /\ KP!FirstExit(a) \in Nat /\ KP!FirstExit(a) <= e
<1> DEFINE x == KP!FirstExit(a)
<1>1. KP!Exits = Exits /\ program \in {Text}
  BY ProgramIsText, SourceFacts
<1>2. /\ x \in Exits /\ a <= x
      /\ \A y \in Exits : a <= y => x <= y
  BY <1>1, ScriptAssumption, KP!FirstExitFacts
<1>3. x <= e
  BY <1>2
<1> HIDE DEF x
<1>4. /\ ExitFn[x] \in Nat /\ x \in Nat /\ e \in Nat /\ f \in Nat
      /\ ExitFn[x] \in Fns
  BY <1>2, ExitWithin
<1>5. f <= ExitFn[x]
  BY <1>2, <1>4, ExitWithin
<1>6. ExitFn[x] <= f
  BY <1>2, <1>3, <1>4, ExitWithin
<1>7. ExitFn[x] = f
  BY <1>4, <1>5, <1>6
<1> QED
  BY <1>2, <1>3, <1>4, <1>7 DEF x

\* The row of a direct call, its callee and the callee's first exit.
LEMMA DirectRow ==
  ASSUME KP!TablesFit, OneTypeOfExit,
         NEW n \in 1 .. Len(cfs), cfs[n].src \in BlSites
  PROVE  /\ cfs[n].type = "bl"
         /\ cfs[n].dst \in Fns /\ cfs[n].dst = ArgAt(cfs[n].src)
         /\ Targets[cfs[n].src] = {cfs[n].dst}
         /\ cfs[n].dst \in DirectlyCalled
         /\ \E e \in Exits : ExitFn[e] = cfs[n].dst
         /\ KP!Measured(n) /\ ~KP!Exitless(cfs[n].dst)
<1> DEFINE s == cfs[n].src
           f == cfs[n].dst
<1>1. s \in Sites
  BY DEF Sites
<1>2. ASSUME NEW m \in 1 .. Len(cfs), cfs[m].type = "bl"
      PROVE  /\ cfs[m].src \in BlSites
             /\ cfs[m].dst = ArgAt(cfs[m].src)
             /\ Targets[cfs[m].src] = {cfs[m].dst}
             /\ cfs[m].dst \in Fns
  <2>1. /\ cfs[m].src \in Sites
        /\ OpAt(cfs[m].src) = "bl" /\ cfs[m].dst = ArgAt(cfs[m].src)
    BY <1>2, ProgramIsText, SourceFacts DEF KP!TablesFit
  <2>2. cfs[m].src \in BlSites
    BY <2>1, SourceFacts
  <2>3. Targets[cfs[m].src] = {cfs[m].dst}
    BY <2>1, <2>2, SourceAssumption
  <2>4. \E e \in Exits : ExitFn[e] = cfs[m].dst
    BY <2>2, <2>3 DEF OneTypeOfExit, DirectlyCalled
  <2> QED
    BY <2>1, <2>2, <2>3, <2>4, ExitWithin
<1>3. cfs[n].type = "bl"
  <2>1. cfs[n].type = OpAt(s)
    BY ProgramIsText DEF KP!TablesFit
  <2> QED
    BY <1>1, <2>1, SourceFacts
<1>4. f \in Fns /\ f = ArgAt(s) /\ Targets[s] = {f}
  BY <1>2, <1>3
<1>5. f \in DirectlyCalled
  BY <1>4 DEF DirectlyCalled
<1>6. PICK e \in Exits : ExitFn[e] = f
  BY <1>5 DEF OneTypeOfExit
<1>7. f \in Nat /\ f <= e /\ e \in Nat
  BY <1>6, ExitWithin
<1>8. KP!Measured(n)
  <2>1. f \in KP!Words(program)
    BY <1>4, SourceAssumption, ProgramIsText
  <2> QED
    BY <1>3, <1>6, <1>7, <2>1, SourceFacts DEF KP!Measured
<1>9. ~KP!Exitless(f)
  <2> SUFFICES ASSUME NEW m \in 1 .. Len(cfs), cfs[m].type = "bl",
                      f < cfs[m].dst, cfs[m].dst <= KP!FirstExit(f)
               PROVE  FALSE
    BY DEF KP!Exitless
  <2>1. cfs[m].dst \in Fns /\ cfs[m].dst \in Nat
    BY <1>2, ExitWithin
  <2>2. KP!FirstExit(f) \in Exits /\ ExitFn[KP!FirstExit(f)] = f
    BY <1>4, <1>6, <1>7, FirstExitOwn
  <2>3. cfs[m].dst <= f
    BY <2>1, <2>2, ExitWithin
  <2> QED
    BY <1>7, <2>1, <2>3
<1> QED
  BY <1>3, <1>4, <1>5, <1>6, <1>8, <1>9

\* The type of a direct call's row is the list its callee pops.
LEMMA TypeOfRow ==
  ASSUME KP!TablesFit, OneTypeOfExit,
         NEW n \in 1 .. Len(cfs), cfs[n].src \in BlSites,
         NEW e \in PopExits, ExitFn[e] \in Targets[cfs[n].src]
  PROVE  cfs[n].rt_type = Shape[e] /\ Shape[e] \in PopTypes
<1> DEFINE f == cfs[n].dst
           first == KP!FirstExit(f)
           second == KP!FirstExit(first + 4)
<1>1. /\ f \in Fns /\ f \in DirectlyCalled /\ ExitFn[e] = f
      /\ KP!Measured(n) /\ ~KP!Exitless(f)
  BY DirectRow
<1>2. KP!TypeFits(f, cfs[n].rt_type)
  BY <1>1 DEF KP!TablesFit
<1> HIDE DEF f
<1>3. e \in Exits /\ f \in Nat /\ f <= e /\ e \in Nat
  BY <1>1, ExitWithin DEF Exits
<1>4. /\ first \in Exits /\ ExitFn[first] = f /\ first \in Nat
      /\ f <= first /\ first <= e
  BY <1>1, <1>3, FirstExitOwn
<1>5. \A x \in PopExits : ExitFn[x] = f => Shape[x] = Shape[e] /\ Shape[e] \in PopTypes
  BY <1>1 DEF OneTypeOfExit
<1>6. \A x \in Exits : /\ KP!At(program, x).op = IF x \in PopExits THEN "pop" ELSE "bx_lr"
                       /\ x \in PopExits => KP!At(program, x).arg = Shape[x]
  BY ProgramIsText, SourceFacts, SourceAssumption
<1> HIDE DEF first
<1>7. CASE first \in PopExits
  <2>1. KP!At(program, first).op = "pop" /\ KP!At(program, first).arg = Shape[e]
    BY <1>4, <1>5, <1>6, <1>7
  <2>2. cfs[n].rt_type = KP!At(program, first).arg
    BY <1>2, <2>1 DEF KP!TypeFits, first
  <2> QED
    BY <1>1, <1>5, <2>1, <2>2
<1>8. CASE first \notin PopExits
  <2>1. first \in BxExits /\ first # e
    BY <1>4, <1>8 DEF Exits
  <2>2. first + 4 <= e
    <3>1. first \in KP!Words(program) /\ e \in KP!Words(program)
      BY <1>3, <1>4, SourceFacts DEF KP!Exits
    <3>2. first < e
      BY <1>3, <1>4, <2>1
    <3>3. program \in {Text}
      BY ProgramIsText
    <3> QED
      BY <3>1, <3>2, <3>3, ScriptAssumption, KP!NextWord
  <2>3. /\ second \in Exits /\ ExitFn[second] = f /\ second \in Nat
        /\ first + 4 <= second /\ second <= e
    BY <1>1, <1>3, <1>4, <2>2, FirstExitOwn
  <2> HIDE DEF second
  <2>4. second \in PopExits
    <3>1. SUFFICES ASSUME second \notin PopExits
                   PROVE  FALSE
      OBVIOUS
    <3>2. second \in BxExits /\ second # e
      BY <2>3, <3>1 DEF Exits
    <3>3. first < e /\ second < e /\ first # second
      BY <1>3, <1>4, <2>1, <2>3, <3>2
    <3> QED
      BY <1>1, <1>4, <2>1, <2>3, <3>2, <3>3 DEF OneTypeOfExit
  <2>5. /\ KP!At(program, first).op = "bx_lr" /\ KP!At(program, second).op = "pop"
        /\ KP!At(program, second).arg = Shape[e]
    BY <1>4, <1>5, <1>6, <1>8, <2>3, <2>4
  <2>6. \E y \in KP!Exits : y > first
    BY <1>3, <1>4, <2>2, SourceFacts
  <2>7. cfs[n].rt_type = KP!At(program, second).arg
    BY <1>2, <2>5, <2>6 DEF KP!TypeFits, first, second
  <2> QED
    BY <1>1, <1>5, <2>5, <2>7
<1> QED
  BY <1>7, <1>8

\* Least elements of sets that have the same one.
LEMMA SameLeast ==
  ASSUME NEW S \in SUBSET Nat, NEW T, S \subseteq T, S # {},
         \A y \in T : \E x \in S : x <= y, \A y \in T : y \in Nat
  PROVE  (CHOOSE x \in S : \A y \in S : x <= y) = (CHOOSE x \in T : \A y \in T : x <= y)
<1>1. PICK m \in S : \A y \in S : m <= y
  BY LeastElement
<1>2. m \in T /\ \A y \in T : m <= y
  <2>1. ASSUME NEW y \in T
        PROVE  m <= y
    <3>1. PICK x \in S : x <= y
      BY <2>1
    <3> QED
      BY <1>1, <3>1
  <2> QED
    BY <1>1, <2>1
<1>3. \A x \in S : (\A y \in S : x <= y) => x = m
  BY <1>1
<1>4. \A x \in T : (\A y \in T : x <= y) => x = m
  BY <1>2
<1>5. (CHOOSE x \in S : \A y \in S : x <= y) = m
  BY <1>1, <1>3
<1>6. (CHOOSE x \in T : \A y \in T : x <= y) = m
  BY <1>2, <1>4
<1> QED
  BY <1>5, <1>6

\* The token of a direct call's row is that of the call.
LEMMA TokenOfRow ==
  ASSUME KP!TablesFit, OneTypeOfExit,
         NEW n \in 1 .. Len(cfs), cfs[n].src \in BlSites
  PROVE  lr_value(cfs[n]) = Token(cfs[n].src)
<1> DEFINE f == cfs[n].dst
           e == KP!FirstExit(f)
           own == {x \in K!Words(Text) :
                     f <= x /\ (x \in Exits \/ OpAt(x) = "data")}
           all == {x \in KP!Words(program) :
                     f <= x /\ (x >= e \/ KP!At(program, x).op = "data")}
<1>1. /\ f \in Fns /\ f = ArgAt(cfs[n].src)
      /\ \E x \in Exits : ExitFn[x] = f
      /\ KP!Measured(n) /\ ~KP!Exitless(f)
  BY DirectRow
<1>2. cfs[n].measurement # KP!None /\ cfs[n].measurement = KP!Measure(f, e)
  BY <1>1 DEF KP!TablesFit
<1>3. PICK x \in Exits : ExitFn[x] = f
  BY <1>1
<1>4. f \in Nat /\ f <= x
  BY <1>3, ExitWithin
<1>5. e \in Exits /\ f <= e /\ e \in Nat /\ \A y \in Exits : f <= y => e <= y
  BY <1>1, <1>3, <1>4, FirstExitOwn, ExitWithin
<1>6. /\ KP!Words(program) = K!Words(Text)
      /\ \A a : KP!At(program, a).op = OpAt(a)
      /\ e \in KP!Words(program)
      /\ \A a \in KP!Words(program) : a \in Nat
  <2>1. program \in {Text} /\ KP!Words(program) = K!Words(Text)
        /\ \A a : KP!At(program, a).op = OpAt(a)
    BY ProgramIsText
  <2>2. \A a \in KP!Words(program) : a \in Nat
    BY <2>1, ScriptAssumption, KP!WordFacts
  <2>3. e \in KP!Words(program)
    BY <1>5, SourceFacts DEF KP!Exits
  <2> QED
    BY <2>1, <2>2, <2>3
<1> HIDE DEF f, e
<1>7. /\ own \subseteq all /\ e \in own
      /\ own \in SUBSET Nat /\ \A y \in all : y \in Nat
  BY <1>5, <1>6
<1>8. \A y \in all : \E z \in own : z <= y
  <2> TAKE y \in all
  <2>1. CASE y >= e
    BY <1>7, <2>1
  <2>2. CASE KP!At(program, y).op = "data"
    <3>1. y \in own /\ y <= y
      BY <1>6, <1>7, <2>2
    <3> QED
      BY <3>1
  <2> QED
    BY <2>1, <2>2
<1>9. (CHOOSE z \in own : \A y \in own : z <= y) = (CHOOSE z \in all : \A y \in all : z <= y)
  <2> HIDE DEF own, all
  <2> QED
    BY <1>7, <1>8, SameLeast
<1>10. KP!Measure(f, e) = Hashed(f)
  BY <1>9 DEF KP!Measure, Hashed
<1>11. cfs[n].measurement # K!None
  BY <1>2, SameScript
<1> QED
  BY <1>1, <1>2, <1>10, <1>11 DEF lr_value, Token, f, e

\* The first row of fdtbl with an exit is the exit's.
LEMMA ExitRow ==
  ASSUME KP!TablesFit, FunctionTable, NEW e \in PopExits
  PROVE  fdtbl_bsearch_type(e) = Shape[e]
<1> DEFINE found == {m \in 1 .. Len(fdtbl) : fdtbl[m].end = e}
           first == CHOOSE m \in found : \A j \in found : m <= j
<1>1. Len(function_table) \in Nat
  BY DEF KP!TablesFit
<1>2. /\ Len(fdtbl) = Len(function_table)
      /\ \A m \in 1 .. Len(fdtbl) : /\ fdtbl[m].end = function_table[m].end
                                    /\ fdtbl[m].type = function_table[m].rt_type
  BY <1>1 DEF FunctionTable
<1>3. e \in Exits
  BY DEF Exits
<1>4. found \in SUBSET Nat /\ found # {}
  <2>1. \E m \in 1 .. Len(function_table) : function_table[m].end = e
    BY <1>3, SourceFacts DEF KP!TablesFit
  <2> QED
    BY <1>2, <2>1
<1>5. first \in found
  <2>1. \E m \in found : \A j \in found : m <= j
    BY <1>4, LeastElement
  <2> QED
    BY <2>1
<1>6. fdtbl[first].type = KP!ExitType(e)
  BY <1>2, <1>5 DEF KP!TablesFit
<1>7. fdtbl_bsearch_type(e) = fdtbl[first].type
  BY <1>4 DEF fdtbl_bsearch_type
<1> QED
  BY <1>6, <1>7, SourceFacts

\* The tables of a right text are right.
LEMMA RightText ==
  ASSUME TextRight, KP!TablesFit, TablesWritten
  PROVE  TablesRight
<1>1. /\ OneTypeOfExit /\ KnownLists /\ TokensDiffer
      /\ AddressesRight /\ RootsRight /\ ReturnsHooked
  BY DEF TextRight
<1>2. BranchTable /\ FunctionCallTable /\ FunctionTable
  BY DEF TablesWritten
<1>3. Len(cfs) \in Nat /\ cfs \in Seq(KP!Row)
  BY DEF KP!TablesFit
<1>4. /\ Len(ftbl) = Len(cfs)
      /\ \A n \in 1 .. Len(ftbl) : /\ ftbl[n].src = cfs[n].src
                                   /\ ftbl[n].lr = lr_value(cfs[n])
                                   /\ ftbl[n].type = cfs[n].rt_type
  BY <1>2, <1>3 DEF FunctionCallTable
<1>5. /\ \A n \in 1 .. Len(cfs) : cfs[n].src \in Sites /\ cfs[n].src \in Nat
      /\ \A m, n \in 1 .. Len(cfs) : m < n => cfs[m].src < cfs[n].src
      /\ \A s \in Sites : \E n \in 1 .. Len(cfs) : cfs[n].src = s
  BY SourceFacts, ProgramAssumption DEF KP!TablesFit, Sites
<1>6. \A m, n \in 1 .. Len(cfs) : cfs[m].src = cfs[n].src => m = n
  BY <1>3, <1>5
<1>7. \A n \in 1 .. Len(cfs) :
        cfs[n].src \in BlxSites =>
          /\ cfs[n].type = "blx"
          /\ cfs[n].rt_type = BlxReg[cfs[n].src]
          /\ lr_value(cfs[n]) = 0
  <2> SUFFICES ASSUME NEW n \in 1 .. Len(cfs), cfs[n].src \in BlxSites
               PROVE  /\ cfs[n].type = "blx"
                      /\ cfs[n].rt_type = BlxReg[cfs[n].src]
                      /\ lr_value(cfs[n]) = 0
    OBVIOUS
  <2>1. cfs[n].type = "blx"
    <3>1. cfs[n].src \in Sites /\ cfs[n].src \notin BlSites
      BY ProgramAssumption DEF Sites
    <3> QED
      BY <3>1, ProgramIsText, SourceFacts DEF KP!TablesFit
  <2>2. cfs[n].rt_type = ArgAt(cfs[n].src) /\ cfs[n].measurement = KP!None
    BY <2>1, ProgramIsText DEF KP!TablesFit
  <2> QED
    BY <2>1, <2>2, SourceAssumption, SameScript DEF lr_value
<1>8. RowsRight
  <2>1. ASSUME NEW s \in BlSites
        PROVE  /\ s \in {r.src : r \in Rows(btbl)}
               /\ \A r \in Rows(btbl) : r.src = s => Targets[s] = {r.dst}
    <3>1. PICK n \in 1 .. Len(cfs) : cfs[n].src = s
      BY <1>5 DEF Sites
    <3>2. cfs[n].type = "bl" /\ cfs[n] \in Rows(cfs)
      BY <1>1, <3>1, DirectRow DEF Rows
    <3>3. [src |-> s, dst |-> cfs[n].dst] \in Rows(btbl)
      BY <1>2, <3>1, <3>2 DEF BranchTable
    <3>4. ASSUME NEW r \in Rows(btbl), r.src = s
          PROVE  Targets[s] = {r.dst}
      <4>1. PICK c \in Rows(cfs) : c.type = "bl" /\ r = [src |-> c.src, dst |-> c.dst]
        BY <1>2 DEF BranchTable
      <4>2. PICK m \in 1 .. Len(cfs) : c = cfs[m]
        BY DEF Rows
      <4>3. cfs[m].src = s /\ r.dst = cfs[m].dst
        BY <3>4, <4>1, <4>2
      <4> QED
        BY <1>1, <4>3, DirectRow
    <3> QED
      BY <3>3, <3>4
  <2>2. \A s \in Sites : s \in {r.src : r \in Rows(ftbl)}
    <3> TAKE s \in Sites
    <3>1. PICK n \in 1 .. Len(cfs) : cfs[n].src = s
      BY <1>5
    <3> QED
      BY <1>4, <3>1 DEF Rows
  <2>3. \A j, k \in 1 .. Len(ftbl) : ftbl[j].src = ftbl[k].src => j = k
    BY <1>4, <1>6
  <2> QED
    BY <2>1, <2>2, <2>3 DEF RowsRight
<1>9. TokensRight
  <2>1. \A n \in 1 .. Len(cfs) : cfs[n].src \in BlSites => ftbl[n].lr = Token(cfs[n].src)
    BY <1>1, <1>4, TokenOfRow
  <2>2. \A n \in 1 .. Len(cfs) : cfs[n].src \notin BlSites => ~IsToken(ftbl[n].lr)
    BY <1>4, <1>5, <1>7 DEF Sites, IsToken
  <2>3. /\ \A s \in BlSites : IsToken(Token(s))
        /\ \A s, t \in BlSites : Token(s) = Token(t) => s = t
    BY <1>1 DEF TokensDiffer
  <2>4. \A k \in 1 .. Len(ftbl) : ftbl[k].src \in BlSites => IsToken(ftbl[k].lr)
    BY <1>4, <2>1, <2>3
  <2>5. ASSUME NEW j \in 1 .. Len(ftbl), NEW k \in 1 .. Len(ftbl),
               IsToken(ftbl[j].lr), ftbl[j].lr = ftbl[k].lr
        PROVE  j = k
    <3>1. cfs[j].src \in BlSites /\ cfs[k].src \in BlSites
      BY <1>4, <2>2, <2>5
    <3>2. Token(cfs[j].src) = Token(cfs[k].src)
      BY <1>4, <2>1, <2>5, <3>1
    <3> QED
      BY <1>4, <1>6, <2>3, <3>1, <3>2
  <2> QED
    BY <2>4, <2>5 DEF TokensRight
<1>10. TypesRight
  <2>1. ASSUME NEW k \in 1 .. Len(ftbl), NEW e \in PopExits,
               ftbl[k].src \in BlSites, ExitFn[e] \in Targets[ftbl[k].src]
        PROVE  ftbl[k].type = Shape[e] /\ Shape[e] \in PopTypes
    BY <1>1, <1>4, <2>1, TypeOfRow
  <2>2. ASSUME NEW k \in 1 .. Len(ftbl), ftbl[k].src \in BlxSites
        PROVE  ftbl[k].type = BlxReg[ftbl[k].src] /\ ftbl[k].type \in BlxTypes
    BY <1>1, <1>4, <1>7, <2>2 DEF KnownLists
  <2>3. ASSUME NEW s \in BlxSites, NEW e \in PopExits, ExitFn[e] \in Targets[s]
        PROVE  fdtbl_bsearch_type(e) = Shape[e] /\ Shape[e] \in PopTypes
    BY <1>1, <1>2, <2>3, ExitRow DEF KnownLists
  <2> QED
    BY <2>1, <2>2, <2>3 DEF TypesRight
<1> QED
  BY <1>1, <1>8, <1>9, <1>10 DEF TablesRight

\* The script's part of a behaviour is a behaviour of the script.
LEMMA ScriptRuns == System => []KP!Complete
<1>1. SystemInit => KP!Init
  BY SameScript DEF SystemInit
<1>2. [Script \/ Run]_<<vars, script>> => [KP!Next]_KP!vars
  <2>1. Script => KP!Next
    BY SameScript DEF Script
  <2>2. UNCHANGED script => UNCHANGED KP!vars
    BY DEF script, KP!vars
  <2> QED
    BY <2>1, <2>2 DEF Run
<1>3. KP!Init /\ [][KP!Next]_KP!vars => []KP!Complete
  BY ScriptAssumption, KP!TablesFitText
<1> QED
  BY <1>1, <1>2, <1>3, PTL DEF System

\* A program linked with the tables hookit wrote for a right text has right
\* tables.
THEOREM HookitMakesRight ==
  ASSUME TextRight
  PROVE  System => [](TablesWritten => TablesRight)
<1>1. KP!Complete /\ TablesWritten => TablesRight
  BY RightText DEF KP!Complete, TablesWritten
<1> QED
  BY <1>1, ScriptRuns, PTL

\* From the text to the stacks: nothing is assumed of the tables.
THEOREM SystemInvariance ==
  ASSUME TextRight
  PROVE  System => []IInv
<1>1. SystemInit => IInv
  BY InitInvariance DEF SystemInit
<1>2. IInv /\ (TablesWritten => TablesRight) /\ [Script \/ Run]_<<vars, script>> => IInv'
  <2> SUFFICES ASSUME IInv, TablesWritten => TablesRight, [Script \/ Run]_<<vars, script>>
               PROVE  IInv'
    OBVIOUS
  <2>1. CASE Script \/ UNCHANGED <<vars, script>>
    BY <2>1, StutterPreserves DEF Script
  <2>2. CASE Run
    BY <2>2, StepPreserves DEF Run
  <2> QED
    BY <2>1, <2>2
<1> QED
  BY <1>1, <1>2, HookitMakesRight, PTL DEF System

\* The instrumented program pushes and branches to nothing the text lacks ...
THEOREM SystemTypeCorrect ==
  ASSUME TextRight
  PROVE  System => []TypeOK
  BY SystemInvariance, PTL DEF IInv

\* ... keeps its shadow stack in step with its machine stack ...
THEOREM SystemShadowCorrect ==
  ASSUME TextRight
  PROVE  System => []ShadowMirrorsFrames
  BY SystemInvariance, PTL DEF IInv

\* ... is where its source says, with its registers ...
THEOREM SystemControlCorrect ==
  ASSUME TextRight
  PROVE  System => []OnTrack
  BY SystemInvariance, PTL DEF IInv

\* ... and calls and returns as its source does.
THEOREM SystemRefinement ==
  ASSUME TextRight
  PROVE  System => RefinesCallStack
<1>1. SystemInit => C!Init
  BY InitRefines DEF SystemInit
<1>2. IInv /\ (TablesWritten => TablesRight) /\ [Script \/ Run]_<<vars, script>>
        => [C!Next]_C!vars
  <2> SUFFICES ASSUME IInv, TablesWritten => TablesRight, [Script \/ Run]_<<vars, script>>
               PROVE  [C!Next]_C!vars
    OBVIOUS
  <2>1. CASE Script \/ UNCHANGED <<vars, script>>
    BY <2>1, StutterRefines DEF Script
  <2>2. CASE Run
    BY <2>2, StepRefines DEF Run
  <2> QED
    BY <2>1, <2>2
<1> QED
  BY <1>1, <1>2, SystemInvariance, HookitMakesRight, PTL
     DEF System, RefinesCallStack, C!Spec

-----------------------------------------------------------------------------
(***************************************************************************)
(* The instrumented program, whatever its text.                            *)
(***************************************************************************)

\* The program's part of a behaviour is a behaviour of the hooks.
LEMMA HooksRun == System => Spec
<1>1. SystemInit => Init
  BY DEF SystemInit
<1>2. [Script \/ Run]_<<vars, script>> => [Next]_vars
  BY DEF Script, Run
<1> QED
  BY <1>1, <1>2, PTL DEF System, Spec

\* Whatever the text, only the two gaps put the shadow stack of its program out
\* of step.
THEOREM SystemGapsOnly == System => OnlyGapsDesync
  BY HooksRun, GapsOnly, PTL

\* hookit writes a row for each call, in the order of addresses.
LEMMA WrittenInOrder ==
  ASSUME KP!TablesFit, TablesWritten, \A s \in Sites : ~IsToken(s + 4)
  PROVE  RowsInOrder
<1>1. /\ Len(cfs) \in Nat
      /\ \A n \in 1 .. Len(cfs) : cfs[n].src \in Sites /\ cfs[n].src \in Nat
      /\ \A m, n \in 1 .. Len(cfs) : m < n => cfs[m].src < cfs[n].src
      /\ \A s \in Sites : \E n \in 1 .. Len(cfs) : cfs[n].src = s
  <2>1. cfs \in Seq(KP!Row)
    BY DEF KP!TablesFit
  <2>2. Len(cfs) \in Nat
    BY <2>1
  <2> QED
    BY <2>2, SourceFacts, ProgramAssumption DEF KP!TablesFit, Sites
<1>2. /\ Len(ftbl) = Len(cfs)
      /\ \A n \in 1 .. Len(ftbl) : ftbl[n].src = cfs[n].src
  BY <1>1 DEF TablesWritten, FunctionCallTable
<1>3. \A s \in Sites : s \in {r.src : r \in Rows(ftbl)}
  <2> TAKE s \in Sites
  <2>1. PICK n \in 1 .. Len(cfs) : cfs[n].src = s
    BY <1>1
  <2> QED
    BY <1>2, <2>1 DEF Rows
<1>4. ASSUME NEW j \in 1 .. Len(ftbl), NEW k \in 1 .. Len(ftbl), j <= k
      PROVE  ftbl[j].src <= ftbl[k].src
  <2>1. CASE j = k
    BY <1>1, <1>2, <2>1
  <2>2. CASE j < k
    BY <1>1, <1>2, <2>2
  <2> QED
    BY <1>4, <2>1, <2>2
<1> QED
  BY <1>3, <1>4 DEF RowsInOrder

\* A program in memory below the mask, whatever its text, returns through a token
\* to the call the token was made for or to an earlier call with the same one.
THEOREM SystemLandsRight ==
  ASSUME \A s \in Sites : ~IsToken(s + 4)
  PROVE  System => LandsAtCallOrAlias
<1>1. GapInv /\ KP!Complete /\ [Script \/ Run]_<<vars, script>> =>
        [InStep /\ Returning /\ Head(frames).hooked /\ ~PastHook /\ IsToken(Popped)
           => pc' \in Aliases(Head(frames).ret)]_vars
  <2> SUFFICES ASSUME GapInv, KP!Complete, Run, InStep, Returning,
                      Head(frames).hooked, ~PastHook, IsToken(Popped)
               PROVE  pc' \in Aliases(Head(frames).ret)
    BY Zenon DEF Script
  <2>1. RowsInOrder /\ Next
    BY WrittenInOrder DEF KP!Complete, TablesWritten, Run
  <2> QED
    BY <2>1, StepLands
<1> QED
  BY <1>1, HooksRun, GapInvariance, ScriptRuns, PTL DEF System, LandsAtCallOrAlias
=============================================================================
