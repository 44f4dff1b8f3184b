------------------------------- MODULE Isqrt --------------------------------
(***************************************************************************)
(* usqrt of basicmath/isqrt.c: a root digit by digit, of a number of       *)
(* BITSPERLONG bits, with as many bits, half of them after the point.      *)
(***************************************************************************)
EXTENDS Integers

CONSTANT BITSPERLONG \* 32

IsqrtAssumption == BITSPERLONG \in Nat /\ BITSPERLONG >= 4 /\ BITSPERLONG % 2 = 0

Power2[n \in Nat] == IF n = 0 THEN 1 ELSE 2 * Power2[n - 1]

Long == Power2[BITSPERLONG]

VARIABLES entry, \* x of the call
          x, a, r, i

vars == <<entry, x, a, r, i>>

Init ==
  /\ entry \in 0..(Long - 1)
  /\ x = entry
  /\ a = 0 /\ r = 0 /\ i = 0

TOP2BITS(y) == y \div Power2[BITSPERLONG - 2]

\* Mutant: r > e.
SubtractStrict(shifted, e) == IF shifted > e THEN <<(shifted - e) % Long, 1>> ELSE <<shifted, 0>>

\* r and a after a turn with the two bits.
Subtract(shifted, e) == IF shifted >= e THEN <<(shifted - e) % Long, 1>> ELSE <<shifted, 0>>

Turn ==
  /\ i < BITSPERLONG
  /\ LET shifted == ((4 * r) + TOP2BITS(x)) % Long
         doubled == (2 * a) % Long
         result == Subtract(shifted, ((2 * doubled) + 1) % Long)
     IN  r' = result[1] /\ a' = doubled + result[2]
  /\ x' = (4 * x) % Long
  /\ i' = i + 1
  /\ UNCHANGED entry

Next == Turn

Spec == Init /\ [][Next]_vars

-----------------------------------------------------------------------------
\* The digits gone through so far: the upper 2 * i bits of entry * Long.
Prefix == (entry * Long) \div Power2[2 * (BITSPERLONG - i)]

IsRoot(b, y) == b * b <= y /\ y < (b + 1) * (b + 1)

\* Up to 2^28 no r overflows at a turn that counts: the root is right all along.
SmallRootRight == entry <= Power2[BITSPERLONG - 4] => IsRoot(a, Prefix)

\* "EXIT returns floor(sqrt(x) * pow(2, BITSPERLONG/2))" (isqrt.c:13), for any
\* unsigned long; r << 2 loses bits of the remainder of a large one.
RootAtExit == i = BITSPERLONG => IsRoot(a, entry * Long)
=============================================================================
