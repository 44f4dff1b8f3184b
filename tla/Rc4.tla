-------------------------------- MODULE Rc4 ---------------------------------
(***************************************************************************)
(* rc4_init and rc4_crypt of sta_ripte.c: a sender encrypts a text in      *)
(* calls of any length, a receiver with the same key decrypts it in calls  *)
(* of its own.                                                             *)
(***************************************************************************)
EXTENDS Integers, Sequences

CONSTANTS N,        \* 256: the values of a byte
          Keys,     \* sequences of bytes
          MaxText,  \* bytes sent
          BitXor(_, _) \* ^ of two bytes

Byte == 0..(N - 1)

Rc4Assumption ==
  /\ N \in Nat \ {0} /\ MaxText \in Nat
  /\ \A key \in Keys : key \in Seq(Byte) /\ Len(key) > 0
  /\ \A v, k \in Byte : BitXor(BitXor(v, k), k) = v

VARIABLES sender, receiver, \* rc4_state of the two
          plain,            \* sent so far
          wire,             \* encrypted, not yet decrypted
          got               \* decrypted

vars == <<sender, receiver, plain, wire, got>>

swap_bytes(perm, a, b) == [perm EXCEPT ![a] = perm[b], ![b] = perm[a]]

\* The permutation after i turns of the loop, and j then.
rc4_init(key) ==
  LET turn[i \in 0..N] ==
        IF i = 0 THEN [perm |-> [x \in Byte |-> x], j |-> 0]
        ELSE LET before == turn[i - 1]
                 j == (before.j + before.perm[i - 1] + key[((i - 1) % Len(key)) + 1]) % N
             IN  [perm |-> swap_bytes(before.perm, i - 1, j), j |-> j]
  IN  [perm |-> turn[N].perm, index1 |-> 0, index2 |-> 0]

\* A turn of the loop of rc4_crypt, and the byte it gives.
Turn(s) ==
  LET index1 == (s.index1 + 1) % N
      index2 == (s.index2 + s.perm[index1]) % N
  IN  [perm |-> swap_bytes(s.perm, index1, index2), index1 |-> index1, index2 |-> index2]

KeyByte(s) == s.perm[(s.perm[s.index1] + s.perm[s.index2]) % N]

\* Mutant: each call starts with index1 at 0.
rc4_crypt_restarted(s, inbuf) ==
  LET after[n \in 0..Len(inbuf)] ==
        IF n = 0 THEN [s EXCEPT !.index1 = 0] ELSE Turn(after[n - 1])
  IN  [state |-> after[Len(inbuf)],
       outbuf |-> [n \in 1..Len(inbuf) |-> BitXor(inbuf[n], KeyByte(after[n]))]]

rc4_crypt(s, inbuf) ==
  LET after[n \in 0..Len(inbuf)] == IF n = 0 THEN s ELSE Turn(after[n - 1])
  IN  [state |-> after[Len(inbuf)],
       outbuf |-> [n \in 1..Len(inbuf) |-> BitXor(inbuf[n], KeyByte(after[n]))]]

-----------------------------------------------------------------------------
Init ==
  /\ \E key \in Keys : sender = rc4_init(key)
  /\ receiver = sender
  /\ plain = <<>> /\ wire = <<>> /\ got = <<>>

Encrypt ==
  \E len \in 1..(MaxText - Len(plain)) : \E inbuf \in [1..len -> Byte] :
    /\ plain' = plain \o inbuf
    /\ wire' = wire \o rc4_crypt(sender, inbuf).outbuf
    /\ sender' = rc4_crypt(sender, inbuf).state
    /\ UNCHANGED <<receiver, got>>

Decrypt ==
  \E len \in 1..Len(wire) :
    LET crypted == rc4_crypt(receiver, SubSeq(wire, 1, len))
    IN  /\ got' = got \o crypted.outbuf
        /\ receiver' = crypted.state
        /\ wire' = SubSeq(wire, len + 1, Len(wire))
        /\ UNCHANGED <<sender, plain>>

Next == Encrypt \/ Decrypt

Spec == Init /\ [][Next]_vars

-----------------------------------------------------------------------------
\* What is decrypted is what was sent, however the two cut it into calls, past
\* the place where index1 starts again at 0.
Recovered == got = SubSeq(plain, 1, Len(got))
=============================================================================
