----------------------------- MODULE Algorithms -----------------------------
(***************************************************************************)
(* The programs that run alone from a start to an end, side by side: the   *)
(* initial state says which one runs, and the variables of the others stay *)
(* as they are.                                                            *)
(***************************************************************************)
EXTENDS Integers, Sequences, FiniteSets

CONSTANTS Programs,
          NULL,
          BitXor(_, _) \* ^ of C and of hookit

\* The way of a token (hookit, sta_ripte.c).
CONSTANTS Base, Length, TokenLength, WordLength, Returns, Key, Measurements, OtherDigests
VARIABLES station, measurement, returns, lr, asked, digest, place, shift_num,
          tmp_xor_result, answer

T == INSTANCE TokenText WITH NUL <- NULL, pc <- station, i <- place

\* RC4 (sta_ripte.c).
CONSTANTS ByteValues, Keys, MaxSent
VARIABLES sender, receiver, plain, wire, got

R == INSTANCE Rc4 WITH N <- ByteValues, MaxText <- MaxSent

\* The integer root (isqrt.c).
CONSTANT BITSPERLONG
VARIABLES entry, rest, root, remainder, turns

Q == INSTANCE Isqrt WITH x <- rest, a <- root, r <- remainder, i <- turns

\* Cheapest ways (dijkstra_large.c).
CONSTANTS NUM_NODES, NONE, Matrices
VARIABLES AdjMatrix, chStart, rgnNodes, queue

D == INSTANCE Dijkstra

\* The search for words (pbmsrch_large.c).
CONSTANTS Chars, MaxFind, MaxText
VARIABLES table, len, findme, string, pos, turn, here

S == INSTANCE StringSearch WITH pc <- turn

\* The blocks of a file (sha.c).
CONSTANTS SHA_BLOCKSIZE, BLOCK_SIZE, LONG, MaxFile
VARIABLES fin, at, data, count_lo, count_hi, blocks, stage

H == INSTANCE Sha WITH pc <- stage

\* One call or exit that has been replaced, and the assembly of its hook
\* (trampoline.c).
CONSTANTS PopLists, BlxRegs, Depth
VARIABLES instr, type, regs, stack, saved, pc, phase

A == INSTANCE HookRegisters

VARIABLE program

ASSUME AlgorithmsAssumption ==
  /\ T!TokenAssumption
  /\ R!Rc4Assumption
  /\ Q!IsqrtAssumption
  /\ D!DijkstraAssumption
  /\ S!SearchAssumption
  /\ H!ShaAssumption
  /\ A!RegisterAssumption

-----------------------------------------------------------------------------
NoToken ==
  /\ station = 0 /\ measurement = 0 /\ returns = 0 /\ lr = 0 /\ asked = 0 /\ digest = 0
  /\ place = 0 /\ shift_num = 0 /\ tmp_xor_result = 0 /\ answer = 0
NoRc4 == sender = 0 /\ receiver = 0 /\ plain = 0 /\ wire = 0 /\ got = 0
NoRoot == entry = 0 /\ rest = 0 /\ root = 0 /\ remainder = 0 /\ turns = 0
NoWays == AdjMatrix = 0 /\ chStart = 0 /\ rgnNodes = 0 /\ queue = 0
NoSearch ==
  /\ table = 0 /\ len = 0 /\ findme = 0 /\ string = 0 /\ pos = 0 /\ turn = 0 /\ here = 0
NoHash ==
  /\ fin = 0 /\ at = 0 /\ data = 0 /\ count_lo = 0 /\ count_hi = 0 /\ blocks = 0 /\ stage = 0
NoHook ==
  /\ instr = 0 /\ type = 0 /\ regs = 0 /\ stack = 0 /\ saved = 0 /\ pc = 0 /\ phase = 0

token == <<station, measurement, returns, lr, asked, digest, place, shift_num, tmp_xor_result, answer>>
rc4 == <<sender, receiver, plain, wire, got>>
isqrt == <<entry, rest, root, remainder, turns>>
dijkstra == <<AdjMatrix, chStart, rgnNodes, queue>>
search == <<table, len, findme, string, pos, turn, here>>
sha == <<fin, at, data, count_lo, count_hi, blocks, stage>>
hook == <<instr, type, regs, stack, saved, pc, phase>>

vars == <<program, token, rc4, isqrt, dijkstra, search, sha, hook>>

Init ==
  /\ program \in Programs
  /\ IF program = "TokenText" THEN T!Init ELSE NoToken
  /\ IF program = "Rc4" THEN R!Init ELSE NoRc4
  /\ IF program = "Isqrt" THEN Q!Init ELSE NoRoot
  /\ IF program = "Dijkstra" THEN D!Init ELSE NoWays
  /\ IF program = "StringSearch" THEN S!Init ELSE NoSearch
  /\ IF program = "Sha" THEN H!Init ELSE NoHash
  /\ IF program = "HookRegisters" THEN A!Init ELSE NoHook

Next ==
  \/ /\ program = "TokenText" /\ T!Next
     /\ UNCHANGED <<program, rc4, isqrt, dijkstra, search, sha, hook>>
  \/ /\ program = "Rc4" /\ R!Next
     /\ UNCHANGED <<program, token, isqrt, dijkstra, search, sha, hook>>
  \/ /\ program = "Isqrt" /\ Q!Next
     /\ UNCHANGED <<program, token, rc4, dijkstra, search, sha, hook>>
  \/ /\ program = "Dijkstra" /\ D!Next
     /\ UNCHANGED <<program, token, rc4, isqrt, search, sha, hook>>
  \/ /\ program = "StringSearch" /\ S!Next
     /\ UNCHANGED <<program, token, rc4, isqrt, dijkstra, sha, hook>>
  \/ /\ program = "Sha" /\ H!Next
     /\ UNCHANGED <<program, token, rc4, isqrt, dijkstra, search, hook>>
  \/ /\ program = "HookRegisters" /\ A!Next
     /\ UNCHANGED <<program, token, rc4, isqrt, dijkstra, search, sha>>

Spec == Init /\ [][Next]_vars

-----------------------------------------------------------------------------
\* Two calls to one function have the same token exactly if their return
\* addresses agree in the digits that leading zeros leave (hookit, encrypt).
TokensTellCallsApart == program = "TokenText" => T!TokensTellCallsApart

\* ta_ripte_decrypt puts a token with all its digits together again, for the
\* exit the table was made with and for no other.
DecodesFullText == program = "TokenText" => T!DecodesFullText

\* rc4_crypt of the receiver undoes that of the sender, however both cut the
\* text into calls.
Recovered == program = "Rc4" => R!Recovered

\* usqrt has the root of all it has gone through, up to a sixteenth of the range.
SmallRootRight == program = "Isqrt" => Q!SmallRootRight

\* dijkstra() ends with the costs of the cheapest ways, whatever it queued.
EndsShortest == program = "Dijkstra" => D!EndsShortest

\* strsearch finds the first place of the word init_search was last called with.
FirstFound == program = "StringSearch" => S!FirstFound

\* sha_stream hashes the blocks of the padded file, wherever the last one ends.
BlocksOfFile == program = "Sha" => H!BlocksOfFile

\* A register list rewrite_pop_fp_pc gives a type, from its length and a few
\* places of it, is the list the hook pops for that type.
ClassifiedExactly == program = "HookRegisters" => A!ClassifiedExactly

\* A hook that leaves through its dispatch goes where the instruction would,
\* and has the stack pointer where the instruction would have it.
SameControl == program = "HookRegisters" => A!SameControl

\* The hook of an exit hands the caller its registers and the result.
ExitRegisters == program = "HookRegisters" => A!ExitRegisters

\* The hook of a call hands the callee its arguments and the word to keep.
CallRegisters == program = "HookRegisters" => A!CallRegisters

\* A hook without a branch for its type goes on after the instruction, as if
\* that had not been there.
FellPast == program = "HookRegisters" => A!FellPast
=============================================================================
