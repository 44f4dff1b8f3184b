------------------------------- MODULE Hooks -------------------------------
(***************************************************************************)
(* The run-time half of RIPTE: trampoline.c.  hookit has replaced each call *)
(* and each function exit of the program by a branch to a hook.  hook_bl   *)
(* and hook_blx push a word for the return address on program_stack and    *)
(* branch to the callee; hook_bx_lr and hook_pop_fp_pc pop it, decode it   *)
(* and branch back.  A word pushed by hook_bl is a token, the last four    *)
(* characters of the encoded return address; hook_blx pushes the return    *)
(* address itself.                                                         *)
(*                                                                         *)
(* The program is given by its call instructions and exits, the tables are *)
(* what hookit generated for it.  Control within a function body is        *)
(* arbitrary.  A hook is one step: there is one thread, and no hook is     *)
(* entered from inside another.  Searches of btbl and ftbl are the one-    *)
(* step lookups TableSearch implements.                                    *)
(***************************************************************************)
EXTENDS Integers, Sequences, FiniteSets

CONSTANTS
  \* The program.
  Fns,         \* entry addresses of instrumented functions
  BlSites,     \* addresses of `bl` instructions
  BlxSites,    \* addresses of `blx rx` instructions
  Owner,       \* the function each call instruction belongs to
  Targets,     \* the functions each call instruction may call
  Plain,       \* functions, of a library or with an exit the sweep left alone,
               \* that may return by an instruction no hook has replaced
  BlxReg,      \* the type number of the register each blx names
  Roots,       \* functions called from code that is not instrumented
  Callbacks,   \* functions a library or a signal calls while others run
  PopExits,    \* addresses of `pop {..., pc}`
  BxExits,     \* addresses of `bx lr`
  ExitFn,      \* the function each exit belongs to
  Shape,       \* the type number of each pop's register list
  \* The generated tables: rows in address order.
  btbl,        \* [src, dst]
  ftbl,        \* [src, lr, type], lr the last four characters of the text
  fdtbl,       \* [end, type]
  \* Addresses outside the program.
  Outside,     \* where the call of a root returns to
  Wild,        \* any address a wrong load or pop may yield
  \* Bound.
  MaxCalls     \* hooked calls in a behaviour

Sites == BlSites \union BlxSites
Exits == PopExits \union BxExits

NULL == 0

\* A register list or a register the hooks have no branch for.
PopTypes == 0 .. 17
BlxTypes == 0 .. 10

\* (w & 0xFFF00000) != 0
IsToken(w) == w >= 1048576

Rows(tbl) == {tbl[k] : k \in 1 .. Len(tbl)}

ASSUME ProgramAssumption ==
  /\ Fns \subseteq Nat
  /\ BlSites \subseteq Nat /\ BlxSites \subseteq Nat
  /\ BlSites \intersect BlxSites = {}
  /\ Owner \in [Sites -> Fns]
  /\ Plain \subseteq Nat
  /\ Targets \in [Sites -> SUBSET (Fns \union Plain)]
  /\ BlxReg \in [BlxSites -> Nat]
  /\ Roots \subseteq Fns /\ Callbacks \subseteq Fns
  /\ PopExits \subseteq Nat /\ BxExits \subseteq Nat
  /\ PopExits \intersect BxExits = {}
  /\ ExitFn \in [Exits -> Fns]
  /\ Shape \in [PopExits -> Nat]
  /\ Outside \in Nat /\ Wild \in Nat
  /\ MaxCalls \in Nat

ASSUME TableAssumption ==
  /\ btbl \in Seq([src : Nat, dst : Nat])
  /\ ftbl \in Seq([src : Nat, lr : Nat, type : Nat])
  /\ fdtbl \in Seq([end : Nat, type : Nat])

VARIABLES
  pc,             \* the address execution resumed at last
  frames,         \* the machine stack, newest activation first
  program_stack,  \* the list of trampoline.c, newest word first
  regs,           \* callee-saved registers and sp are as the caller left them
  bl_count,
  blx_count

vars == <<pc, frames, program_stack, regs, bl_count, blx_count>>

-----------------------------------------------------------------------------
\* The searches.

btbl_bsearch(a) == (CHOOSE r \in Rows(btbl) : r.src = a).dst

ftbl_bsearch_lr(a) == (CHOOSE r \in Rows(ftbl) : r.src = a).lr

\* Called with a return address, that of the row's instruction plus 4.
ftbl_bsearch_type(a) == (CHOOSE r \in Rows(ftbl) : r.src = a - 4).type

\* A linear search: the first row with this exit, or 0.
fdtbl_bsearch_type(a) ==
  LET found == {k \in 1 .. Len(fdtbl) : fdtbl[k].end = a}
  IN  IF found = {} THEN 0
      ELSE fdtbl[CHOOSE k \in found : \A j \in found : k <= j].type

\* Mutant: no `break` at the first row.
DecryptLast(w) ==
  LET found == {k \in 1 .. Len(ftbl) : ftbl[k].lr = w}
  IN  IF found = {} THEN Wild
      ELSE ftbl[CHOOSE k \in found : \A j \in found : k >= j].src + 4

\* A linear search for a token: the first row that has it.  Without one the
\* search returns NULL (or the row past the end) and the caller reads through
\* it.
ta_decrypt_test(w) ==
  LET found == {k \in 1 .. Len(ftbl) : ftbl[k].lr = w}
  IN  IF found = {} THEN Wild
      ELSE ftbl[CHOOSE k \in found : \A j \in found : k <= j].src + 4

Decode(w) == IF IsToken(w) THEN ta_decrypt_test(w) ELSE w

\* list_pop: NULL from an empty list, which stays empty.
Popped == IF program_stack = <<>> THEN NULL ELSE Head(program_stack)
Rest == IF program_stack = <<>> THEN <<>> ELSE Tail(program_stack)

-----------------------------------------------------------------------------
\* The function whose body address a is in, if any.
InBody(a, f) ==
  \/ a = f
  \/ a - 4 \in Sites /\ Owner[a - 4] = f

\* Function f executes, on its own activation and with registers intact.
\* Where this fails the program has left its source's behaviour, and what it
\* does next is not modelled.
Running(f) ==
  /\ frames # <<>>
  /\ Head(frames).fn = f
  /\ InBody(pc, f)
  /\ regs

Idle == frames = <<>> /\ pc = Outside

\* An activation of f: lr is what f finds in lr and saves, ret the address it
\* should return to, hooked says whether a hook made the call.
Frame(f, lr, ret, hooked) ==
  [fn |-> f, lr |-> lr, ret |-> ret, hooked |-> hooked]

Init ==
  /\ pc = Outside
  /\ frames = <<>>
  /\ program_stack = <<>>
  /\ regs = TRUE
  /\ bl_count = 0
  /\ blx_count = 0

\* testfunction calls testdiv: no hook, the list is empty.
RootCall(f) ==
  /\ Idle
  /\ f \in Roots
  /\ pc' = f
  /\ frames' = <<Frame(f, Outside, Outside, FALSE)>>
  /\ UNCHANGED <<program_stack, regs, bl_count, blx_count>>

\* A library function, a signal delivery or a call the sweep left alone enters
\* f in the middle of another function.
Callback(f) ==
  /\ \E g \in Fns \union Plain : Running(g)
  /\ f \in Callbacks
  /\ Len(frames) <= MaxCalls
  /\ pc' = f
  /\ frames' = <<Frame(f, pc, pc, FALSE)>> \o frames
  /\ UNCHANGED <<program_stack, regs, bl_count, blx_count>>

\* Mutant: hook_bl pushes the plain return address.
HookBlPlain(s) ==
  LET dst == btbl_bsearch(s)
  IN  /\ Running(Owner[s])
      /\ bl_count + blx_count < MaxCalls
      /\ program_stack' = <<s + 4>> \o program_stack
      /\ bl_count' = bl_count + 1
      /\ pc' = dst
      /\ frames' = <<Frame(dst, s + 4, s + 4, TRUE)>> \o frames
      /\ UNCHANGED <<regs, blx_count>>

hook_bl(s) ==
  LET dst == btbl_bsearch(s)
      token == ftbl_bsearch_lr(s)
  IN  /\ Running(Owner[s])
      /\ bl_count + blx_count < MaxCalls
      /\ program_stack' = <<token>> \o program_stack
      /\ bl_count' = bl_count + 1
      /\ pc' = dst
      /\ frames' = <<Frame(dst, token, s + 4, TRUE)>> \o frames
      /\ UNCHANGED <<regs, blx_count>>

\* Mutant: no list_push.
HookBlxNoPush(s, f) ==
  /\ Running(Owner[s])
  /\ bl_count + blx_count < MaxCalls
  /\ f \in Targets[s]
  /\ ftbl_bsearch_type(s + 4) \in BlxTypes
  /\ blx_count' = blx_count + 1
  /\ pc' = IF ftbl_bsearch_type(s + 4) = BlxReg[s] THEN f ELSE Wild
  /\ frames' = <<Frame(f, s + 4, s + 4, TRUE)>> \o frames
  /\ UNCHANGED <<program_stack, regs, bl_count>>

\* The row's type names the register to branch through; f is what it holds.
hook_blx(s, f) ==
  /\ Running(Owner[s])
  /\ bl_count + blx_count < MaxCalls
  /\ f \in Targets[s]
  /\ ftbl_bsearch_type(s + 4) \in BlxTypes
  /\ program_stack' = <<s + 4>> \o program_stack
  /\ blx_count' = blx_count + 1
  /\ pc' = IF ftbl_bsearch_type(s + 4) = BlxReg[s] THEN f ELSE Wild
  /\ frames' = <<Frame(f, s + 4, s + 4, TRUE)>> \o frames
  /\ UNCHANGED <<regs, bl_count>>

\* No branch for the type: the hook returns to the instruction after the blx
\* with the word pushed and the call not made.
hook_blx_unknown(s) ==
  /\ Running(Owner[s])
  /\ bl_count + blx_count < MaxCalls
  /\ ftbl_bsearch_type(s + 4) \notin BlxTypes
  /\ program_stack' = <<s + 4>> \o program_stack
  /\ blx_count' = blx_count + 1
  /\ pc' = s + 4
  /\ UNCHANGED <<frames, regs, bl_count>>

\* Mutant: the word is taken for an address whatever it is.
HookBxLrRaw(e) ==
  /\ Running(ExitFn[e])
  /\ program_stack' = Rest
  /\ pc' = Popped
  /\ frames' = Tail(frames)
  /\ UNCHANGED <<regs, bl_count, blx_count>>

\* Mutant: list_head for list_pop.
HookBxLrPeek(e) ==
  /\ Running(ExitFn[e])
  /\ pc' = Decode(Popped)
  /\ frames' = Tail(frames)
  /\ UNCHANGED <<program_stack, regs, bl_count, blx_count>>

\* With an empty list this branches to 0.
hook_bx_lr(e) ==
  /\ Running(ExitFn[e])
  /\ program_stack' = Rest
  /\ pc' = Decode(Popped)
  /\ frames' = Tail(frames)
  /\ UNCHANGED <<regs, bl_count, blx_count>>

\* if (dst_addr == NULL): pop {r11, pc}, right for a function that saved just
\* fp and lr.
hook_pop_fp_pc_null(e) ==
  /\ Running(ExitFn[e])
  /\ Popped = NULL
  /\ program_stack' = Rest
  /\ pc' = IF Shape[e] = 0 THEN Head(frames).lr ELSE Wild
  /\ regs' = (Shape[e] = 0)
  /\ frames' = Tail(frames)
  /\ UNCHANGED <<bl_count, blx_count>>

\* Mutant: the call's row for a plain address too.
ReturnTypeOfCall(e) == ftbl_bsearch_type(Decode(Popped))

\* The register list to pop: by the call's row for a token, by the exit's row
\* for a plain address.
return_type(e) ==
  IF IsToken(Popped) THEN ftbl_bsearch_type(Decode(Popped))
                     ELSE fdtbl_bsearch_type(e)

hook_pop_fp_pc(e) ==
  /\ Running(ExitFn[e])
  /\ Popped # NULL
  /\ return_type(e) \in PopTypes
  /\ program_stack' = Rest
  /\ pc' = Decode(Popped)
  /\ regs' = (return_type(e) = Shape[e])
  /\ frames' = Tail(frames)
  /\ UNCHANGED <<bl_count, blx_count>>

\* No branch for the type: the hook returns to the instruction after the exit
\* with the word popped and the activation still there.
hook_pop_fp_pc_unknown(e) ==
  /\ Running(ExitFn[e])
  /\ Popped # NULL
  /\ return_type(e) \notin PopTypes
  /\ program_stack' = Rest
  /\ pc' = e + 4
  /\ UNCHANGED <<frames, regs, bl_count, blx_count>>

Exit(e) ==
  \/ e \in BxExits /\ hook_bx_lr(e)
  \/ e \in PopExits /\ \/ hook_pop_fp_pc_null(e)
                       \/ hook_pop_fp_pc(e)
                       \/ hook_pop_fp_pc_unknown(e)

\* f returns by itself: to what it found in lr, which is a token when hook_bl
\* made the call.  program_stack knows nothing of it.
PlainReturn(f) ==
  /\ Running(f)
  /\ pc' = Head(frames).lr
  /\ frames' = Tail(frames)
  /\ UNCHANGED <<program_stack, regs, bl_count, blx_count>>

Next ==
  \/ \E f \in Fns : RootCall(f) \/ Callback(f)
  \/ \E s \in BlSites : hook_bl(s)
  \/ \E s \in BlxSites : \/ \E f \in Fns \union Plain : hook_blx(s, f)
                         \/ hook_blx_unknown(s)
  \/ \E e \in Exits : Exit(e)
  \/ \E f \in Plain : PlainReturn(f)

Spec == Init /\ [][Next]_vars

-----------------------------------------------------------------------------
(***************************************************************************)
(* What the hooks need of the program and of the tables.                   *)
(***************************************************************************)

\* Addresses fit below the mask, so that a pushed address is no token, and a
\* return address is not the entry of a function.
AddressesRight ==
  \A s \in Sites : ~IsToken(s + 4) /\ s + 4 \notin Fns

\* A row for each call.
RowsRight ==
  /\ \A s \in BlSites :
       /\ s \in {r.src : r \in Rows(btbl)}
       /\ \A r \in Rows(btbl) : r.src = s => Targets[s] = {r.dst}
  /\ \A s \in Sites : s \in {r.src : r \in Rows(ftbl)}
  /\ \A j, k \in 1 .. Len(ftbl) : ftbl[j].src = ftbl[k].src => j = k

\* A bl's row has a token, and no two rows have the same one.
TokensRight ==
  /\ \A k \in 1 .. Len(ftbl) : ftbl[k].src \in BlSites => IsToken(ftbl[k].lr)
  /\ \A j, k \in 1 .. Len(ftbl) :
       IsToken(ftbl[j].lr) /\ ftbl[j].lr = ftbl[k].lr => j = k

\* The type of a bl's row is the register list of every pop its callee exits
\* through, that of a blx's row the register the blx names, and that of an
\* exit's row the exit's own register list.
TypesRight ==
  /\ \A k \in 1 .. Len(ftbl), e \in PopExits :
       ftbl[k].src \in BlSites /\ ExitFn[e] \in Targets[ftbl[k].src]
         => ftbl[k].type = Shape[e] /\ Shape[e] \in PopTypes
  /\ \A k \in 1 .. Len(ftbl) :
       ftbl[k].src \in BlxSites =>
         ftbl[k].type = BlxReg[ftbl[k].src] /\ ftbl[k].type \in BlxTypes
  /\ \A s \in BlxSites, e \in PopExits :
       ExitFn[e] \in Targets[s] =>
         fdtbl_bsearch_type(e) = Shape[e] /\ Shape[e] \in PopTypes

\* A function entered through a hook returns through one.
ReturnsHooked == \A s \in Sites : Targets[s] \intersect Plain = {}

\* Code that is not instrumented calls in only while nothing else runs, and
\* what it calls exits through `pop {fp, pc}`, the list the hook assumes when
\* program_stack is empty.
RootsRight ==
  /\ Callbacks = {}
  /\ \A e \in BxExits : ExitFn[e] \notin Roots
  /\ \A e \in PopExits : ExitFn[e] \in Roots => Shape[e] = 0

TablesRight ==
  /\ AddressesRight /\ RowsRight /\ TokensRight /\ TypesRight
  /\ ReturnsHooked /\ RootsRight

-----------------------------------------------------------------------------
(***************************************************************************)
(* Properties of a program whose tables are right.                         *)
(***************************************************************************)

Words == {r.lr : r \in Rows(ftbl)} \union {s + 4 : s \in Sites}

Addresses == Fns \union {s + 4 : s \in Sites} \union {Outside}

FrameType ==
  [fn : Fns, lr : Words \union {Outside}, ret : Addresses, hooked : BOOLEAN]

\* Only words and addresses the tables have are ever pushed or branched to.
TypeOK ==
  /\ pc \in Addresses
  /\ frames \in Seq(FrameType)
  /\ program_stack \in Seq(Words)
  /\ regs \in BOOLEAN
  /\ bl_count \in Nat
  /\ blx_count \in Nat

\* The word a hook pushes for call s.
Word(s) == IF s \in BlSites THEN ftbl_bsearch_lr(s) ELSE s + 4

\* Activation k was called by s, from the activation below it.
CalledBy(k, s) ==
  /\ frames[k].fn \in Targets[s]
  /\ frames[k].ret = s + 4
  /\ frames[k + 1].fn = Owner[s]

\* program_stack holds, in order, one word for each activation but the root's:
\* that of the call it was entered by.  At the bottom is a root, for which no
\* word was pushed and whose saved lr is the address to return to.
ShadowMirrorsFrames ==
  IF frames = <<>> THEN program_stack = <<>>
  ELSE /\ Len(frames) = Len(program_stack) + 1
       /\ \A k \in 1 .. Len(program_stack) :
            \E s \in Sites : CalledBy(k, s) /\ program_stack[k] = Word(s)
       /\ frames[Len(frames)].fn \in Roots
       /\ frames[Len(frames)].lr = Outside
       /\ frames[Len(frames)].ret = Outside

\* The program is always where its source says, with its registers: in the
\* body of the activation on top of the machine stack, or back in the caller
\* of the root.
OnTrack ==
  /\ regs
  /\ frames = <<>> => pc = Outside
  /\ frames # <<>> => InBody(pc, Head(frames).fn)

\* Decoded, program_stack is the call stack of the source program: the hooks
\* call what it calls and return where it returns.
DecodedStack ==
  IF frames = <<>> THEN <<>>
  ELSE [k \in 1 .. Len(program_stack) + 1 |->
          IF k <= Len(program_stack) THEN Decode(program_stack[k])
                                     ELSE Outside]

C == INSTANCE CallStack WITH at <- pc, stack <- DecodedStack

RefinesCallStack == C!Spec

-----------------------------------------------------------------------------
(***************************************************************************)
(* Properties of any program, whatever its tables get wrong.               *)
(***************************************************************************)

\* The words of the hooked activations, newest first, are the list.
InStep ==
  LET Hooked(k) == {j \in 1 .. k : frames[j].hooked}
  IN  /\ Len(program_stack) = Cardinality(Hooked(Len(frames)))
      /\ \A k \in Hooked(Len(frames)) :
           program_stack[Cardinality(Hooked(k))] = frames[k].lr

Returning == frames # <<>> /\ frames' = Tail(frames)

\* What makes the list lose step: an activation no hook made exits while the
\* list is not empty and pops somebody else's word; an activation a hook made
\* returns past the hooks, as that of a library function called through a
\* register, and leaves its word behind; or a hook has no branch for a type and
\* falls out with the list already changed.
OverCallback ==
  Returning /\ ~Head(frames).hooked /\ program_stack' # program_stack
PastHook ==
  /\ Returning /\ Head(frames).hooked
  /\ Head(frames).fn \in Plain
  /\ UNCHANGED program_stack
FallsThrough == frames' = frames

OnlyGapsDesync ==
  [][InStep /\ ~OverCallback /\ ~PastHook /\ ~FallsThrough => InStep']_vars

\* What hookit gives any program: a row of ftbl for each call instruction, in
\* the order of the sweep, in memory below the mask.
RowsInOrder ==
  /\ \A s \in Sites : ~IsToken(s + 4) /\ s \in {r.src : r \in Rows(ftbl)}
  /\ \A j, k \in 1 .. Len(ftbl) : j <= k => ftbl[j].src <= ftbl[k].src

\* A row with the same token is an alias: a return through a token goes to the
\* call it was made by, or to an alias earlier in the table, nowhere else.
Aliases(ret) ==
  {r.src + 4 : r \in {q \in Rows(ftbl) :
                        q.lr = ftbl_bsearch_lr(ret - 4) /\ q.src <= ret - 4}}

LandsAtCallOrAlias ==
  [][InStep /\ Returning /\ Head(frames).hooked /\ ~PastHook /\ IsToken(Popped)
       => pc' \in Aliases(Head(frames).ret)]_vars
=============================================================================
