----------------------------- MODULE TokenText ------------------------------
(***************************************************************************)
(* The way of a token: hookit writes measurement ^ return address ^ key in *)
(* hexadecimal, without leading zeros, into the 64 bytes of lr in a row of *)
(* ftbl; the hooks and the trusted application take its last four bytes as *)
(* the token; DECRYPT puts the characters together again and takes key and *)
(* measurement out.  Characters are the digits they stand for.  A row is   *)
(* a step, and so is a character of DECRYPT's loop.                        *)
(***************************************************************************)
EXTENDS Integers, Sequences

CONSTANTS Base,        \* 16
          Length,      \* 64: bytes of lr, digits of a hash
          TokenLength, \* 4: bytes that make a token
          WordLength,  \* 8: digits of an address
          Returns,     \* return addresses, as digits
          Key,
          Measurements,
          OtherDigests, \* measured up to another exit
          BitXor(_, _),   \* ^ of two digits
          NUL

Digit == 0..(Base - 1)
Hash == [0..(Length - 1) -> Digit]

\* Sizes are even, for there are two digits to a byte.
TokenAssumption ==
  /\ Base \in Nat \ {0} /\ TokenLength \in Nat \ {0} /\ WordLength \in Nat /\ Length \in Nat
  /\ TokenLength < WordLength /\ WordLength <= Length
  /\ Length % 2 = 0 /\ WordLength % 2 = 0
  /\ Measurements \subseteq Hash /\ OtherDigests \subseteq Hash /\ Key \in Hash
  /\ Returns \subseteq {h \in Hash : \A j \in 0..(Length - WordLength - 1) : h[j] = 0}
  /\ NUL \notin Digit
  /\ \A a, b \in Digit :
       BitXor(a, b) \in Digit /\ BitXor(a, b) = BitXor(b, a) /\ BitXor(BitXor(a, b), b) = a

VARIABLES pc,
          measurement,  \* of the function both calls are to
          returns,      \* where the two calls return to, src + 4
          lr,           \* the rows written so far
          asked,        \* the call whose token DECRYPT is given
          digest,       \* what the trusted application measures
          i, shift_num, tmp_xor_result,
          answer

vars == <<pc, measurement, returns, lr, asked, digest, i, shift_num, tmp_xor_result, answer>>

XorOf(a, b) == [j \in 0..(Length - 1) |-> BitXor(a[j], b[j])]

Zeros == [j \in 0..(Length - 1) |-> 0]

Init ==
  /\ pc = "table"
  /\ measurement \in Measurements
  /\ returns \in {r \in Returns \X Returns : r[1] # r[2]}
  /\ lr = <<>>
  /\ asked = 0 /\ digest = Zeros
  /\ i = Length - 1 /\ shift_num = 0
  /\ tmp_xor_result = [j \in 0..(Length \div 2 - 1) |-> 0]
  /\ answer = Zeros

-----------------------------------------------------------------------------
Cipher(c) == XorOf(XorOf(measurement, returns[c]), Key)

\* Leading zeros of a number, the last digit is written in any case.
Missing(h) ==
  CHOOSE z \in 0..(Length - 1) :
    /\ \A j \in 0..(z - 1) : h[j] = 0
    /\ z = Length - 1 \/ h[z] # 0

\* Mutant: the text ends at the end of the row.
RowOfAligned(h) ==
  [j \in 0..(Length - 1) |-> IF j < Missing(h) THEN NUL ELSE h[j]]

\* hex() of encrypt, and the bytes write_function_call_table gives the row.
RowOf(h) ==
  LET z == Missing(h)
  IN  [j \in 0..(Length - 1) |-> IF j + z < Length THEN h[j + z] ELSE NUL]

WriteRow ==
  /\ pc = "table" /\ Len(lr) < 2
  /\ lr' = Append(lr, RowOf(Cipher(Len(lr) + 1)))
  /\ UNCHANGED <<pc, measurement, returns, asked, digest, i, shift_num, tmp_xor_result, answer>>

\* lr[60..63], big-endian.
Token(row) == [j \in (Length - TokenLength)..(Length - 1) |-> row[j]]

\* ftbl_bsearch: the first row with the token.
Found(token) == IF Token(lr[1]) = token THEN 1 ELSE 2

\* DECRYPT looks up the token of a call and measures the callee up to the
\* exit taken, which need not be the one the table is about.
Request ==
  /\ pc = "table" /\ Len(lr) = 2
  /\ \E c \in 1..2, h \in OtherDigests \cup {measurement} : asked' = c /\ digest' = h
  /\ pc' = "decode"
  /\ UNCHANGED <<measurement, returns, lr, i, shift_num, tmp_xor_result, answer>>

\* Mutant: low half first in each byte.
ShiftAfterSwapped(j) == IF j % 2 = 0 THEN 1 ELSE 0

\* The half the next character goes to, by the parity of this one's place.
ShiftAfter(j) == IF j % 2 = 0 THEN 0 ELSE 1

\* digit << shift_num, shift_num counted in digits.
Shifted(digit) == IF shift_num = 0 THEN digit ELSE digit * Base

\* A turn of the loop, from the last character to the first.
DecodeCharacter ==
  /\ pc = "decode" /\ i >= 0
  /\ LET row == lr[Found(Token(lr[asked]))]
     IN  IF row[i] = NUL
         THEN UNCHANGED <<shift_num, tmp_xor_result>>
         ELSE /\ tmp_xor_result' =
                   [tmp_xor_result EXCEPT ![i \div 2] =
                      (@ + Shifted(row[i])) % (Base * Base)]
              /\ shift_num' = ShiftAfter(i)
  /\ i' = i - 1
  /\ UNCHANGED <<pc, measurement, returns, lr, asked, digest, answer>>

\* The digits of the last bytes, the earlier ones are dropped.
DstAddr ==
  [j \in 0..(Length - 1) |->
     IF j < Length - WordLength THEN 0
     ELSE IF j % 2 = 0 THEN tmp_xor_result[j \div 2] \div Base
     ELSE tmp_xor_result[j \div 2] % Base]

LowWord(h) == [j \in 0..(Length - 1) |-> IF j < Length - WordLength THEN 0 ELSE h[j]]

Answer ==
  /\ pc = "decode" /\ i < 0
  /\ answer' = XorOf(XorOf(DstAddr, LowWord(Key)), LowWord(digest))
  /\ pc' = "answered"
  /\ UNCHANGED <<measurement, returns, lr, asked, digest, i, shift_num, tmp_xor_result>>

Next == WriteRow \/ Request \/ DecodeCharacter \/ Answer

Spec == Init /\ [][Next]_vars

-----------------------------------------------------------------------------
Short(c) == Missing(Cipher(c))

\* The last of the characters a token keeps of a text that lacks z.
KeptDigits(h, z) == [j \in (Length - (TokenLength - z))..(Length - 1) |-> h[j]]

\* Two calls to one function have the same token exactly if their return
\* addresses agree in the digits the token has left: four less one for each
\* leading zero of the text (hookit:438, trampoline.c:74).
TokensTellCallsApart ==
  pc = "decode" =>
    (Token(lr[1]) = Token(lr[2]) <=>
       \/ Short(1) >= TokenLength /\ Short(2) >= TokenLength
       \/ /\ Short(1) = Short(2) /\ Short(1) < TokenLength
          /\ KeptDigits(returns[1], Short(1)) = KeptDigits(returns[2], Short(2)))

\* A call whose text has all its digits decodes to its own return address,
\* when the token is its alone and the exit measured is that of the table.
DecodesFullText ==
  /\ pc = "answered"
  /\ Short(asked) = 0 /\ Found(Token(lr[asked])) = asked
  => (answer = returns[asked] <=> LowWord(digest) = LowWord(measurement))
=============================================================================
