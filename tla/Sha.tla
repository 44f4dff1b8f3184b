-------------------------------- MODULE Sha ---------------------------------
(***************************************************************************)
(* sha/sha.c without the compression: what blocks sha_stream gives         *)
(* sha_transform for a file.  sha_update keeps the rest of a chunk in      *)
(* data, but the next call does not go on from it: all chunks but the last *)
(* must be whole blocks, as those of fread are.  A byte is told from all   *)
(* others by its place in the file; the two words of the length take a     *)
(* byte of the block each.                                                 *)
(***************************************************************************)
EXTENDS Integers, Sequences

CONSTANTS SHA_BLOCKSIZE, \* 64
          BLOCK_SIZE,    \* 8192: bytes fread is asked for
          LONG,          \* 2^32
          MaxFile

\* The count of bytes runs over where a block ends.
ShaAssumption ==
  /\ {SHA_BLOCKSIZE, BLOCK_SIZE, LONG, MaxFile} \subseteq Nat \ {0}
  /\ SHA_BLOCKSIZE > 2 /\ BLOCK_SIZE % SHA_BLOCKSIZE = 0
  /\ LONG % (8 * SHA_BLOCKSIZE) = 0

VARIABLES fin,     \* bytes in the file
          at,      \* bytes read
          data, count_lo, count_hi,
          blocks,  \* given to sha_transform: digest
          pc

vars == <<fin, at, data, count_lo, count_hi, blocks, pc>>

Byte(k) == <<"byte", k>>
Zero == <<"zero">>
Mark == <<"0x80">>
Last == SHA_BLOCKSIZE - 2

Init ==
  /\ fin \in 0..MaxFile /\ at = 0
  /\ data = [k \in 1..SHA_BLOCKSIZE |-> <<"junk">>]
  /\ count_lo = 0 /\ count_hi = 0
  /\ blocks = <<>>
  /\ pc = "stream"

Chunk(count) == [k \in 1..count |-> Byte(at + k)]

\* The block that begins after n bytes of a chunk, what is missing from data.
BlockOf(buffer, n) ==
  [k \in 1..SHA_BLOCKSIZE |-> IF n + k <= Len(buffer) THEN buffer[n + k] ELSE data[k]]

\* count_hi with the carry out of count_lo.
High(bits) ==
  count_hi + (IF (count_lo + bits) % LONG < count_lo THEN 1 ELSE 0) + bits \div LONG

\* Whole blocks in a chunk.
Whole(count) == count \div SHA_BLOCKSIZE

\* What is left in data: of the whole blocks the last, over it the rest.
Left(buffer, whole) ==
  LET rest == Len(buffer) - whole * SHA_BLOCKSIZE
  IN  [k \in 1..SHA_BLOCKSIZE |->
         IF k <= rest THEN buffer[whole * SHA_BLOCKSIZE + k]
         ELSE IF whole > 0 THEN buffer[(whole - 1) * SHA_BLOCKSIZE + k] ELSE data[k]]

sha_update ==
  /\ pc = "stream" /\ at < fin
  /\ LET count == IF fin - at < BLOCK_SIZE THEN fin - at ELSE BLOCK_SIZE
     IN  /\ at' = at + count
         /\ count_hi' = High(8 * count)
         /\ count_lo' = (count_lo + 8 * count) % LONG
         /\ blocks' = blocks \o [n \in 1..Whole(count) |->
                                   BlockOf(Chunk(count), (n - 1) * SHA_BLOCKSIZE)]
         /\ data' = Left(Chunk(count), Whole(count))
  /\ UNCHANGED <<fin, pc>>

Filled(d, from, to) == [k \in 1..SHA_BLOCKSIZE |-> IF from <= k /\ k <= to THEN Zero ELSE d[k]]

\* Mutant: the mark may not take the last place before the length.
FitsStrict(count) == count < Last

\* There is room for the length after the mark.
Fits(count) == count <= Last

sha_final ==
  /\ pc = "stream" /\ at = fin
  /\ LET count == ((count_lo \div 8) % SHA_BLOCKSIZE) + 1
         marked == [data EXCEPT ![count] = Mark]
         ended(d) == [d EXCEPT ![Last + 1] = <<"length", count_hi>>,
                               ![Last + 2] = <<"length", count_lo>>]
     IN  IF Fits(count)
         THEN /\ data' = ended(Filled(marked, count + 1, Last))
              /\ blocks' = Append(blocks, data')
         ELSE LET full == Filled(marked, count + 1, SHA_BLOCKSIZE)
              IN  /\ data' = ended(Filled(full, 1, Last))
                  /\ blocks' = blocks \o <<full, data'>>
  /\ pc' = "done"
  /\ UNCHANGED <<fin, at, count_lo, count_hi>>

Next == sha_update \/ sha_final

Spec == Init /\ [][Next]_vars

-----------------------------------------------------------------------------
\* The file, a mark, zeros, the length in bits, to the next whole block.
Total == ((fin + 3 + SHA_BLOCKSIZE - 1) \div SHA_BLOCKSIZE) * SHA_BLOCKSIZE

Padded(k) ==
  CASE k <= fin       -> Byte(k)
    [] k = fin + 1    -> Mark
    [] k = Total - 1  -> <<"length", (8 * fin) \div LONG>>
    [] k = Total      -> <<"length", (8 * fin) % LONG>>
    [] OTHER          -> Zero

\* The blocks are those of the padded file, to the last byte: wherever the last
\* block ends, and however often count_lo has run over.
BlocksOfFile ==
  pc = "done" =>
    blocks = [n \in 1..(Total \div SHA_BLOCKSIZE) |->
                [k \in 1..SHA_BLOCKSIZE |-> Padded((n - 1) * SHA_BLOCKSIZE + k)]]
=============================================================================
