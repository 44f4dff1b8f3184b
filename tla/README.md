# RIPTE in TLA+

RIPTE protects the control flow of an ARM program at run time.  A script,
`hookit`, rewrites every call and every function exit of the compiled program
into a branch to a *hook* (`trampoline.c`).  A hook keeps a second, *shadow*
stack of return addresses; the address of a direct call is stored there as a
*token*, in which the script has mixed the return address with a hash of the
callee's code, and is decoded when the function returns.  Decoding is meant to
happen in a trusted application (`sta_ripte.c`).  Beside it, `puf/` encodes a
primary seed with a BCH code at enrolment and reconstructs it later.

This directory models the parts that decide whether an instrumented program
still does what its source says, checks them with TLC on small instances and
proves the main results with TLAPS for every instance.  Paths below are relative
to `src/`; `trampoline.c`, `list.c` and `sample.c` are those of
`ripte/test-program`, `hookit` is `ripte/test-program/instrumentation/hookit`.

## 1. Inventory

| Component | State | Operations | Correct when |
|---|---|---|---|
| Table search (`trampoline.c:18-111`) | window, row | `btbl_bsearch`, `ftbl_bsearch_lr`, `ftbl_bsearch_type` | finds the row of every call, inside the array, in log time |
| Hooks, control (`trampoline.c:113-1198`) | `program_stack`, counters | `hook_bl`, `hook_blx`, `hook_bx_lr`, `hook_pop_fp_pc`; (`hook_b`, `hook_pop_fp_lr`) | shadow stack in step with the machine stack; calls and returns are the source's |
| Hooks, registers (same lines) | registers, sp, locals | the inline assembly, selected by type | leaves what the replaced instruction would leave |
| Linked list (`list.c`) | sentinel, last, heap | init, push, pop, head, last, append, remove, finalize | a two-ended queue that never touches freed memory |
| hookit, sweep (`hookit:280-364`) | mapped file, two tables, position | one rewrite per instruction kind; next chunk | every call and exit hooked once, tables in order |
| hookit, fix-up (`hookit:366-416`) | the two tables | trim a segment, measure, set type and token | each call has its callee's measurement and exit type |
| hookit, text (`hookit:405-438`, `766-788`) | - | token to text, tables to C | the last four characters identify the call; TA decoding inverts it |
| Build (`ripte/test-program/Makefile:29-34`) | two binaries | hook, rebuild, hook again | tables of the first run fit the second binary |
| Stub (`ripte_stub.c`, `ripte_helpers.c`) | session, page map | `ripte_init`, `ripte_quote`, `get_physical_address` | the address registered is where the table is |
| Trusted application (`sta/sta_ripte.c`) | global `ctx`, heap | INIT, EVENT, QUOTE, DECRYPT | a program is sent back to its own calls, whatever others do |
| RC4 (`sta/sta_ripte.c:250-310`) | permutation, two indices | `rc4_init`, `rc4_crypt` | the receiver gets what was sent |
| PUF code (`puf/`) | field tables, registers | generate field and polynomial, encode, decode | at most t errors are corrected, no array is left |
| Workloads (`basicmath`, `dijkstra`, `sha`, `stringsearch`; `jpeg`, `CRC32`) | - | MiBench programs | (the programs that are instrumented) |

How they interact.  `hookit` generates `btbl`, `ftbl` and `fdtbl`, which are
compiled into the program; hooks read them with the searches and keep
`program_stack` in the linked list.  `testfunction` (`sample.c:61-92`) opens the
session, makes the list, and calls the workload from code that is not
instrumented.  Library functions are not instrumented; what they call back is.  A `bl` into the
PLT at one of the `omit_addresses` is left as it is, any other call is hooked, a
`blx` whatever its register holds: when that is a library function, the hook has
pushed a word that no exit pops.  Hooks are
built to decode with `ta_decrypt_test`, a table search in the program itself;
the call into the trusted application, `ta_decrypt`, is commented out at both
call sites, so is the event reporting (`set_op_params`, `hook_invoke_ta`).

What is hard to test.  A hooked program has one thread; what goes wrong
there are long sequences of legal steps (one word too many or too few on the
shadow stack), tables that are right for one exit and wrong for another, a
callback at the wrong moment, positions in the text where the sweep restarts,
and the order in which calls trim the segments they share.  The build keeps its
state in files and may be stopped between any two steps; the trusted
application serves programs that come and go over one context.  PROJECT.json
lists each hazard with the line where it bites and the properties that cover it.

Facts of the shipped build that the models use: `ftbl.c` has 31 rows with 31
distinct tokens; the text lies between 0x124b0 and 0x13f1c, below the 1 MiB mask
of `hook_bx_lr`; `text_end` is the address of the last exit; the Makefile sets
no optimisation, so hooks have a frame of `{fp, lr}` and `"r"` operands come
in r3.

## 2. Modules

`TableLookup`, `CallStack` and `Deque` are abstract: what a component promises.

**TableSearch** (implements TableLookup).  The loop the three binary searches
share, one turn a step: `Hit`, `GoRight`, `GoLeft` are the three branches of
`while(1)`.  A query carries `shift`, 4 for `ftbl_bsearch_type`, which tests
`src == target - 4` and steers by `src < target`.  `beyond` is the word behind
the array, read when the window closes at its end.

**Hooks** (implements CallStack).  Each hook is an action, with one action per
way out of it: `hook_blx_unknown`, `hook_pop_fp_pc_null` and
`hook_pop_fp_pc_unknown` are the paths where the type has no branch or the word is
NULL.  `frames` is the machine stack: for each activation its function, what it
found in lr, where it should return to, and whether a hook made the call.
A call may enter a function of `Plain`, one of a library or one with an exit the
sweep left alone, which may return past the hooks (`PlainReturn`).
`regs` says that callee-saved registers and sp are as the caller left them,
the detail of which is HookRegisters.  The program and the tables are
constants.  `RootCall` is `testdiv()` in sample.c; `Callback` is a library, a
signal or a call the sweep left alone entering an instrumented function.  Once control or registers are lost
(`Running` fails) nothing more is modelled.  Searches are one step, as
TableSearch shows; the linear searches `ftbl_bsearch` and `fdtbl_bsearch_type`
are first-match operators.  `hook_b` is left out because the sweep never rewrites
a `b`, `hook_pop_fp_lr` because no function of the compiled program ends in
`pop {fp, lr}`.

**Instrumented** composes Hookit with Hooks: the script goes through the text of a
program, its tables are linked in, and the program runs with them.  The constants of
the two are tied together: `SourceAssumption` reads the program of Hooks, its
functions, calls and exits, off the `Text` of Hookit, and `BranchTable`,
`FunctionCallTable` and `FunctionTable` are what `main` writes of `cfs` and
`function_table` at the end of the script.  `Run` is a step of the program, which is
taken only when its tables are those (`TablesWritten`).  `TextRight` says of the text
what the script's tables need to be right: addresses below the mask, roots that exit
through `pop {fp, pc}`, hooked calls that enter instrumented functions only
(`ReturnsHooked`), one type of exit for each function that is called directly
(`OneTypeOfExit`), known lists where a call goes through a register (`KnownLists`), and
tokens that differ (`TokensDiffer`).  The tables are of one text; that they fit the
binary they end up in is the subject of Build.

**HookRegisters.**  One replaced instruction: `EnterHook` is the branch to
the hook and its prologue, `LeaveBl`, `LeaveBlx`, `LeaveBxLr`, `LeavePop` the
restores, pops and the branch of each dispatch, `FallOut` the epilogue reached
when no branch fits.  Registers and stack words are symbolic, so that equality
with `Native...` means "the same register or word".  `PopType` and `BlxType`
are the classification in hookit, so that the script's types and the hooks'
dispatch are checked against each other.

**LinkedList** (implements Deque).  The heap cell by cell, with `malloc` giving
any free address, so that a stale pointer may meet a new element.  `list_remove`
and `list_finalize` loop, a turn a step; every other operation is one.  An access
through NULL or to freed memory is the state "fault", a failed malloc "oom".

**Hookit.**  One instruction of the sweep a step, one action per rewrite
function, `NextChunk` for the restart after a literal pool (the disassembler gives
the last instruction again, by then rewritten: `Duplicate`); then one call of the
second pass a step.  `mm` is the file being rewritten, `code` the copy read for
the chunk.  A measurement is modelled by the range it is the hash of, which ends
at the first word that is data (`Measure`): the disassembler gives no more.

**TokenText.**  Two calls to one function, from the number hookit computes to
the address DECRYPT answers with.  Characters are the digits they stand for.
`RowOf` is what `hex()` and the 64 bytes of `lr` make of a number with leading
zeros; `DecodeCharacter` is a turn of the loop that puts nibbles together
backwards; `digest` is what the trusted application measures, of the same exit
or another.

**Build.**  `make all`: `Compile`, `Link`, `write_back` (one statement hooked in
the file), `WriteTable`, `clean_obj`; `Stop` ends a build between any two steps,
in the middle of a table perhaps, `Restore` brings a table back from version
control.  The text is its sequence of calls and exits; what a table depends on
besides is the layout, the lengths of the tables linked into the program it was
made of.  What hookit does to one text is the module Hookit.

**TrustedApp.**  The stub and the trusted application, for programs that are
loaded, open a session, run, end or die.  Physical memory is rows of tables in
frames; `PageIn` brings a page in when it is first read; `get_physical_address`
is the cut to 32 bits.  `owner` is not in the code: it says whose present run
`ctx` is about.  `InitLost` and `DecryptLost` are calls that do not get through,
which every caller ignores.  A run ends with `Quote`, after which the program is "quoted"
and its process ends (`Die`), or with `Die` at any time before.

**BchField, BchCode.**  The tables of `generate_gf` and `gen_poly`, entry by
entry; then `encode_bch` bit by bit, `Receive` with the errors of the PUF,
`FormSyndromes`, Berlekamp's loop in two halves, and the Chien search with the
correction.  The sizes the arrays are declared with are constants.

**Rc4.**  `rc4_init` and `rc4_crypt` for a sender and a receiver.

**Isqrt, Dijkstra, Sha, StringSearch.**  The algorithms of four workloads, a
turn of a loop a step.  A step of Dijkstra is the turn of `while` with the whole
`for` loop, which is the recursive function `worked` of turns `Relax`.  Sha leaves
the compression out: it is about the blocks that are given to it.

**Algorithms** puts the programs that run alone side by side: TokenText, Rc4,
Isqrt, Dijkstra, StringSearch, Sha and HookRegisters, each with its own variables.
The initial state says which `program` runs; the variables of the others stay 0.
They have nothing to do with each other; this is one specification, one run and one
module of proofs in place of seven.  Each module states what it takes its constants to be
in a definition (`TokenAssumption` and so on), `AlgorithmsAssumption` is all of
them.  `^` of C is the constant operator `BitXor`: the modules, and the proofs,
need only that it undoes itself and, for the token, that it stays within the
digits.  **MCAlgorithms** gives it as `^^` of Bitwise, gives the other constants
values, and adds BchCode, which stays with TLC.

The other **MC...** modules give the constants values.  The theorems are in
**TableSearchProofs**, **HooksProofs**, **HookitProofs**, **BuildProofs**,
**TrustedAppProofs**, **LinkedListProofs** and **WorkloadProofs** (what
Algorithms runs), the lemmas on induction they share in **Inductions**.

## 3. Runs

| Run | Instance | States | Shows |
|---|---|---|---|
| `table_search` | every table of up to 7 rows over 7 addresses, every address in it, both shifts, 3 values behind the array | 7914 | searches answer as TableLookup does, in the array, halving the window |
| `table_search_absent` | up to 3 rows, addresses that are not in the table | 307 | *violation*: the search does not return (finding below) |
| `hooks` | the text of 3 functions with 3 `bl`, 2 `blx`, recursion and mutual recursion, two exits, a leaf and a literal pool; hookit goes through it, then the program runs with its tables; 7 calls | 2756 | control, registers and shadow stack are those of the source |
| `hooks_gaps` | the same hooks with an alias token, a zero token, an unknown register, a callback, a library function called by a `bl` and a `blx`, exits of two kinds; 5 calls | 12441 | the shadow stack loses step in the three known ways only, and a token leads to its call or an earlier alias |
| `list` | 4 cells, the words NULL and one other | 10006 | the list is a two-ended queue; loops end; only adding to a finalized list faults |
| `hookit` | all texts of three functions out of 16 templates | 26788 | the sweep is complete, tables ordered, second pass right |
| `build` | a text of two calls and an exit, five builds, each stopped anywhere | 1007598 | a build fits exactly if lengths do not change; three in a row always do |
| `trusted_app` | two programs, one with a table over two pages, three frames, one of them past 4 GiB, 3 blocks | 1185879 | a program is answered with its own call; panics have known reasons |
| `algorithms` | the programs of the next table, one chosen at the start | 590918 | each algorithm gives what it is for, also across calls and at the ends of its ranges |
| `trusted_app_leak` | the same | | *violation*: a QUOTE that finds a context frees nothing |
| `isqrt_exit` | all numbers of 12 bits | | *violation*: the root of a large number is wrong |
| `bch_shipped` | m = 10, the arrays as declared | | *violation*: `index_of` is left |

What `algorithms` goes through:

| Program | Instance | Shows |
|---|---|---|
| TokenText | numbers of 6 binary digits, all return addresses of 4, tokens of 2; hashes that end in one of two ways | `TokensTellCallsApart`: by the digits leading zeros leave; `DecodesFullText`: a text with all its digits decodes |
| BchCode | GF(16), lengths 13 and 15, t 1 to 3, and length 13 with t = 7, which is refused; up to four errors anywhere | `InBounds`; `CorrectsUpToT`; `WordOrUntouched`: more errors leave the word or make another code word |
| Rc4 | bytes of two bits, keys of 1 to 3, five bytes cut anywhere | `Recovered`: what is received is what was sent |
| Isqrt | all numbers of 12 bits | `SmallRootRight`: the root is right up to 2^8 |
| Dijkstra | four nodes, six edges of cost 0, 1, 3 or none | `EndsShortest`: the cheapest ways, when the queue is worked off |
| StringSearch | words of up to 3 and texts of up to 5 of two characters | `FirstFound`: the first place, also after another word's table |
| Sha | files of 0 to 100 bytes, blocks of 8, chunks of 16, counts modulo 256 | `BlocksOfFile`: the blocks are those of the padded file |
| HookRegisters | all 8192 lists of r0-r12 with pc, all registers of a `blx` | `ClassifiedExactly`: a list given a type is exactly the list popped for it; `SameControl`, `ExitRegisters`, `CallRegisters`, `FellPast`: control, sp, results and arguments survive |

Why the bounds suffice.  A window of a table of seven rows takes every shape that
a halving meets on the way from three rows to none; tables of every size are
covered by proof.  Seven calls are enough to nest each call site in each other
and return through both stack ends; depth is covered by proof.  Four cells are a
sentinel with three elements: first, middle and last are different, and addresses
are used again.  Templates of Hookit put a pool before and after each kind of
instruction, an early `bx lr`, a function without an exit, two exits in one
function, a pool inside a function, calls forwards, backwards, to itself and out
of the text.  A number of six digits with tokens of two has every number of
leading zeros on either side of the token.  Five builds leave three in a row after
any two that were stopped.  Two programs in three frames use a frame again, and
three blocks run out.  In GF(16) four errors are more than each code corrects,
and t = 7 asks for a redundancy of 14, longer than the code of length 13.  Files
of a hundred bytes wrap the count of `sha` three times and end at each place of a
block.  Bounds appear as `MaxCalls` (Hooks), `Depth` (HookRegisters, as long as the
longest list), `Addrs` (LinkedList), `MaxBuilds` (Build), `MaxBlocks`
(TrustedApp), `MaxErrors` (BchCode), `MaxText` (StringSearch, and Rc4, where
Algorithms calls it `MaxSent`), `MaxFind` (StringSearch), `MaxFile` (Sha) and the
sets of queries and programs.

What the constants are taken to be, and why the code justifies it.  Each module
names its assumption, TLC evaluates it for the instance of the run, and the
theorems rest on it and on nothing else about the constants.

- `HookitAssumption`: a text begins above the hooks at a multiple of 4, has its
  first instruction before the first pool and ends with an exit, as `text_end` is
  the address of the last one; the offset of a `bl` is a number of words (the
  instruction has no room for another); the type of a `pop` is one of 0 to 17 or 200
  (`hookit:568-605`).
- `TextAssumption` is `HookitAssumption` for the one text of Instrumented.
  `SourceAssumption`: the calls and exits of the program are the words of its text that
  decode as such, and each belongs to the function with the last entry before it, as
  the linker lays them out.
- `RegisterAssumption`: lists name registers up to ip besides pc, and the stack holds
  the words an exit pops.
- `BuildAssumption`: there is a text, and a table that is broken is not one that
  is whole.
- `AppAssumption`: tables have rows; NULL and a panic are no addresses; memory
  beside the tables does not hold one of their tokens (`Junk`), a coincidence of 32
  bits that the model leaves out.
- `ListAssumption`: a heap is finite; what `malloc` leaves in a cell is no word of
  the program's.
- `TokenAssumption`: a hash is no shorter than a word, a word longer than a token,
  hash and word of whole bytes; a return address has zeros above its word.
- `Rc4Assumption`: a key has at least one byte; `rc4_init` divides by its length.
- `DijkstraAssumption`: costs are not negative, and a way through all nodes stays
  below `NONE`, 9999: there are 100 nodes, and no cost of `input.dat` is above 100.
- `ShaAssumption`: a block has room for a length, the buffer of `sha_stream` is
  whole blocks, and a count that runs over does so at the end of a block.
- `IsqrtAssumption`: words of an even number of bits, four at least.

Deadlock is checked in `hooks`, where it would also be the end of a program whose
tables are not those the script made.  In the others the system stops: a search
returns, a hook is left, memory runs out, the script or the last build ends, the
text is sent, and in `hooks_gaps` control is lost.

Fairness.  TableSearch and Hookit have WF of their whole next-state relation:
one thread runs the loop and nothing blocks it.  LinkedList has WF of its loops
only: no one is obliged to call an operation, but a loop begun goes on.  Hooks
have none: a program may run for ever.

How the script's runs and the hooks' runs meet.  The hooks need `TablesRight` of the
tables.  `hooks` runs the script on one text and the program with the tables it ends
with; `HookitMakesRight` proves `TablesRight` of what the script makes of every text
that is `TextRight`.  MCHooks assumes both of its instance, so TLC evaluates them.
What `TextRight` excludes (hooked calls of library functions, calls without a type, exits of several types, tokens that
leading zeros make alike) is what `hooks_gaps` runs with, and two theorems hold
without it, for the tables of any text.  Two things stay between the models: Hooks
takes a token as one word and its decoding as the search for it, where TokenText has
its characters (`TokensTellCallsApart` says when `TokensDiffer` fails), and Hooks says
with one bit, `regs`, what HookRegisters says of each register (`SameControl`,
`ExitRegisters`, `CallRegisters`).  That the tables are those of the binary they are
compiled into is `FitsIfLayoutStays` and `ThirdBuildFits`.

### Findings

`table_search_absent`: for an address the table does not have, the window closes
and `while(1)` repeats for ever the look at one row, past the end of the array
when the address is above all rows.  The code around it expects an answer:
`return 0;` after the loop (`trampoline.c:43`) and `if(dst_addr == 0)` in
`hook_b` and `hook_bl` (`trampoline.c:242`, `trampoline.c:325`), which sets
`ripte_EVENT_ERROR`; neither can be reached.

`trusted_app_leak`: `free(ctx);` ends `ta_ripte_quote` (`sta_ripte.c:133`), after
both of its returns.  `QuoteFreesContext` asks of the step of a QUOTE that it gives a
block back when there is a context.  The run's trace is a program that loads, opens
a session, has an INIT that succeeds, and quotes: the block stays allocated, and the
context answers later sessions.

`isqrt_exit`: `isqrt.c:13` promises `floor(sqrt(x) * pow(2, BITSPERLONG/2))` of any
`unsigned long`.  Above a sixteenth of the range `r << 2` (`isqrt.c:55`) may lose bits
of the remainder, and the root is wrong: with twelve bits from 257 on, with the 32
bits of the code for many numbers above 2^28.

`bch_shipped`: `index_of` has 500 entries (`bch3.c:77`), the field of `m = 10`
1023 elements; the note at `bch3.c:18`, "You may have to change the size of the
arrays to make it work.", was followed for `alpha_to` only.  `g` has 500 entries for a
polynomial of degree 977, `elp` 20 columns where 438 are cleared, and `root` and
`loc` 200 where 219 may be written: `InBounds` of `algorithms` shows that arrays
of the sizes m and t ask for are not left.

### What the properties leave out

`HookitAssumption` excludes one text the sweep gets wrong: `text_end` is
inclusive when the sweep reaches it within a chunk (`hookit:349`) and exclusive
when a chunk would begin there (`hookit:359`), so a last function of one
instruction after a literal pool is not hooked.  `TokenForEveryReturn` and
`MeasurementOfCallee` except functions without an exit of their own: they share a
segment with the next function, and once that one is called they are in no
segment.  `MeasurementOfCallee` says that the measurement is what the trusted
application computes exactly for callees without a pool between entry and exit: the
script hashes what the disassembler gives, the trusted application all bytes.
`SmallRootRight` is about numbers up to a sixteenth of the range (`isqrt_exit` is about
the others).
`ShadowMirrorsFrames`, `OnTrack` and `RefinesCallStack` are about programs without
callbacks whose hooked calls enter instrumented functions (`RootsRight`,
`ReturnsHooked`).  `OnlyGapsDesync` covers the rest: the list
loses step where an activation no hook made pops a word (`OverCallback`), where an
activation a hook made returns past the hooks (`PastHook`, a library function reached
by a `blx`, whose word stays), and where a hook has no branch (`FallsThrough`).
`LandsAtCallOrAlias` is about returns through a hook.  Jumps out of several
activations at once (`longjmp`) are not modelled; nothing that is compiled has one.
`DecodesFullText` is about texts with all their digits; with a leading zero
DECRYPT answers wrong in most cases.  `AnswersOwnCall` asks for a table that is in
memory, in one piece and below 4 GiB; `DecryptLost` shows what becomes of a call
that does not get through (the program branches to the token), for which nothing is
promised.  `CallRegisters` excepts the fourth argument of a `blx r12`.
`ExitRegisters` is about r0 and the callee-saved registers; a 64-bit result loses
r1 in the hook of a `pop`.  Pool words that decode as a call or exit are not
modelled: the sweep rewrites them.

## 4. Proofs

All theorems are checked to the last leaf.

*TableSearchProofs*, from the assumptions in TableSearch (rows in strict address
order, addresses multiples of 4): `TypeCorrect`, `WindowCorrect`,
`BoundsCorrect`, `HalvingCorrect`, and `Refinement`, that each turn is a step or a
stutter of TableLookup.  The invariant is that the row asked for stays in
`[ismall, ilarge)`.  The delicate point is `ftbl_bsearch_type`: a row below
`target` that is not `target - 4` lies, by alignment, below `target - 4` as well,
so that steering by the wrong address still steers right (`Aligned`).

*HooksProofs*, from `ProgramAssumption`, `TableAssumption` and, as a
hypothesis of the theorems, `TablesRight`: each call has one row, tokens are
tokens and no two rows have the same, types are those of the callee's exits and of
the register a blx names, addresses lie below the mask, hooked calls enter
instrumented functions only, callbacks do not happen and roots exit through `pop {fp, pc}`.  MCHooks assumes `TablesRight` of its
instance, so TLC evaluates it.  The inductive invariant is `IInv == TypeOK /\
ShadowMirrorsFrames /\ OnTrack`.  None of the three is inductive alone: that the
popped word leads back to the caller needs the mirror; that the mirror survives an
exit needs control to be in the activation on top; that the type chosen is right
needs the word to be that of a call whose target is the function on top.  The proof
shows that every hook is, under `IInv`, one of two steps, `CallStep` or
`ReturnStep` (or a root's call), and that these preserve it.  The paths for
unknown types cannot be taken then; only a root may return by
itself (`PlainIsReturn`); the NULL path is that of a root, whose list is empty.  `Refinement` shows, with `DecodedStack` for the stack, that the program
implements CallStack.

From the text to the stacks.  The theorems whose names begin with `System` are about
Instrumented, from `TextAssumption` and `SourceAssumption`, and assume nothing of the
tables.  The script's part of a behaviour is a behaviour of Hookit (`ScriptRuns`), so
that `TablesFitText` of HookitProofs says what its tables hold at the end.
`HookitMakesRight` draws `TablesRight` from that and from `TextRight`: the callee of a
direct call has an exit before the next function (`FirstExitOwn`), so the second pass
measures it up to there (`TokenOfRow`); the type of the call is that of this exit or
of the one it stands for (`TypeOfRow`); a row of the table of functions has the type
of its exit (`ExitRow`).  Before the script has ended the program takes no step, and
after it the invariant is preserved as before: `SystemShadowCorrect`,
`SystemControlCorrect`, `SystemTypeCorrect`, and `SystemRefinement`, that script and
program together implement CallStack.  `SystemGapsOnly` and `SystemLandsRight` are for
any text; the second proves of the script the order of rows that `LandsRight` assumes.

For programs `TablesRight` excludes, `GapsOnly` and `LandsRight` use the weaker
`GapInv == Stacks /\ HookedByCall`: whatever the tables say and whatever is
called, a step pushes one word and enters, enters without a push, leaves and pops if
there is a word, leaves without a pop, or falls out, and each activation a hook made has
the word of a call in its lr.  With a row for each call
in address order, decoding that word finds the first row with its token.

*HookitProofs*, from `HookitAssumption`.  The invariant is `IInv == TypeOK /\
Position /\ Rewritten /\ CallsFound /\ SegmentsFound /\ LastExit /\ Origins /\
MeasuredSoFar /\ TokenForEveryReturn /\ PopTypeOfCallee`.  The first six say of
the sweep what the tables hold when it has come to a position: `SweepComplete`
alone is not inductive, as it speaks of the end only.  After a pool the
disassembler gives the last instruction again; `Rewritten` says that the file has
a hook there by then, so that it is not recorded twice.  In the second pass calls
trim the segments they share:
`Origins` says that a trimmed segment still ends at the exit it ended at and begins
at a callee or at its first begin, and from it follows what a later call finds
there.  `MeasuredSoFar` is `MeasurementOfCallee` for the calls done so far.
`TablesFitText` puts the theorems together for the program that is linked with the
tables: at the end each call has its row, in order, with the measurement and the type
of its callee, and each exit its segment.

*BuildProofs*, from `BuildAssumption`.  `IInv == Types /\ Objects /\ FirstPass /\
SecondPass /\ Settled`.  `Objects` is what `make` knows: a file that is not newer
than its object is that object.  `FirstPass` and `SecondPass` relate, at each
point of a build, files, objects and program to the tables the build began with.
`Settled` counts builds that got to the end: after one, the tables are those made
with the ones it began with; after two, they have the lengths of the text; after
three, they fit.  A table has as many rows as the text has calls or exits,
whatever the layout (`FiniteSetTheorems`).

*TrustedAppProofs*, from `AppAssumption`.  `IInv == Types /\ OwnFrames /\ Held /\
OwnContext /\ PanicsExplained`.  No two programs have a frame in common; a
page in memory holds the rows of its program's table; a context that is about a
program's present run has the address of its first row, cut to 32 bits, and the
length of its table.  `AnswersOwnCall` follows for a table in one piece: the
search of physical memory is then the search of the table.

*LinkedListProofs*, from `ListAssumption`.  The walk along `next` of `ChainWhole`
is put in place by a ranking, a function from `0..n` to cells (`Whole`), which
each operation lengthens, shortens or leaves: `IInv == TypeOK /\ Chained /\
IteratorInside /\ FinalizeMade /\ FaultsJustified`.  `ImplementsDeque` maps each
step to a step of Deque or none.  The arms of the mapping's CASE exclude each
other: TLC would take the first of arms that overlap, the proof may not.

*WorkloadProofs*, from `AlgorithmsAssumption`.

- `FindsFirst` (StringSearch): the static table is that of the last word; a shift
  by `Shift` passes over no place of the word, as the character looked at is
  nowhere nearer to the word's end.
- `HashesFile` (Sha): the bytes counted are the bytes hashed, modulo `LONG` in
  `count_lo`, whose carry is the quotient; the last one or two blocks are the
  padding, whether the length fits behind the rest of the file or not.
- `RootIsRight` (Isqrt): `entry * 4^turns = (root^2 + remainder) * LONG + rest`
  with `remainder <= 2 * root`; no shift loses a bit below a sixteenth of the
  range.
- `TextRecovered` (Rc4): both ends go along one stream of states of the key, and
  each byte on the wire was made with the state of its place.
- `ShortestWays` (Dijkstra): each entry of the queue is of a way none of whose
  nodes is dearer than the way up to it.  A node found next is therefore not on
  the way, the way visits no node twice, has at most `NUM_NODES` nodes, and its
  cost stays below `NONE`.  A node that was reached has an entry with its cost
  waiting, or all its edges are relaxed; with no entry waiting, the costs are those
  of the cheapest ways.
- `TokensApart`, `FullTextDecodes` (TokenText): two rows agree exactly if the
  leading zeros and the digits kept agree; a byte of the number is put together
  when both its nibbles were gone through.

- `ListsClassified`, `ControlSame`, `ExitsRestore`, `CallsPass`, `FallsPast`
  (HookRegisters), for any set of lists and any depth of stack.  The place of a
  register in a list is the number of members below it (`Places`).  If the members at
  two places are as far apart as the places, everything between them is in the list
  (`Stretch`): the first member, the one before fp and fp itself fix the list, as
  `rewrite_pop_fp_pc` takes for granted (`Classified`).  The frame of the hook is two
  words, gone before the list is popped, and neither pop touches the register of the
  branch (`Popped`).

*Inductions* has what these need in place of the library's induction
theorems, which take an operator: a set of naturals with 0 and each successor is
all of them, a set of naturals has a least element, and a function is defined by
a base and a step.

Model-checked only:

- Liveness: `SearchReturns`, `LoopsEnd`, `HookitEnds` and the liveness of
  `RefinesLookup`.  It rests on fairness, that is on ENABLED, which the prover does
  not reason about.
- BchField and BchCode (`InBounds`, `CorrectsUpToT`, `WordOrUntouched`): they use
  Bitwise, whose operators are recursive, and what Berlekamp's loop does is algebra
  of finite fields the library does not have.  Even `InBounds` rests on it: a row of
  `elp` would be left if the last syndrome alone were not 0, which cannot be, as
  that of 2t is the square of that of t.

## 5. Not modelled

- Secure-side bodies of `ripte_init`, `ripte_event` and `ripte_quote`, and
  the BLAKE2 the headers name: they are not in the repository.
- `aes`, `test_rsa` of the trusted application and `encrypt_aes`,
  `encrypt_rc4` of hookit: exercises of a crypto library, their results unused.
- `rewrite_branch`, `get_loops`, `write_loop_table`: the sweep records no `b`, the
  table of loops is empty.
- Parsing of options and configuration, logging, the text of the generated
  files apart from the tokens.
- Of the workloads the compression of SHA, CRC32, the cubic equation and the angles:
  arithmetic on whole words or in floating point, without a choice a
  model could explore; the test drivers; the `_small` files, which repeat the
  `_large` ones.
- `jpeg/jpeg-6a`, the library of the Independent JPEG Group, 55600 lines of C with a
  second copy of most of it in `cloc/`: third-party code RIPTE instruments when
  the Makefile's commented lines are used, and does not change.  It is the
  greater part of the repository's lines, so that the share of lines
  this project models is small although nearly all of RIPTE's own code is.
- `pbmsrch_large.c` is the search (50 lines) and 2600 lines of test strings.

## 6. Plan

Most important first; all are done.

1. TableSearch, TableLookup: search and its proofs.
2. Hooks, CallStack: the shadow stack and its proofs.
3. HookRegisters: the assembly.
4. LinkedList, Deque: the list.
5. Hookit: sweep and second pass.
6. TokenText, Build: tokens as text, the two runs of hookit.
7. TrustedApp: stub and trusted application, several programs.
8. BchField, BchCode, Rc4; Isqrt, Dijkstra, Sha, StringSearch.
9. BuildProofs: `ThirdBuildFits`, for every text and any number of builds.
10. WorkloadProofs: `SmallRootRight`, for every width; then `FirstFound`,
    `BlocksOfFile`, `Recovered`, `EndsShortest` and the two properties of tokens.
11. TrustedAppProofs: `PanicsExplained` and `AnswersOwnCall`, from the invariant
    that the frames of programs are disjoint and hold their tables.
12. LinkedListProofs: `ChainWhole` with a ranking of the chain as the
    strengthening, in place of the walk, then `RefinesDeque`.
13. HookitProofs: `TablesOrdered`, the sweep and the second pass for every text.
14. Hookit composed with Hooks: tables that come out of the second pass are
    `TablesRight` for texts of stated form; HookRegisters for any lists.
