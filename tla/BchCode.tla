------------------------------ MODULE BchCode -------------------------------
(***************************************************************************)
(* bch3.c with its two users: enroll.c encodes a seed, rep.c gets the code *)
(* word back from the PUF, with errors, and decodes it.  A data bit of     *)
(* encode_bch is a step; a turn of Berlekamp's loop in decode_bch is two.  *)
(* The Chien search and the correction are one step.                       *)
(***************************************************************************)
EXTENDS BchField

CONSTANTS Seeds,      \* data words, of which the first k bits are used
          MaxErrors,  \* bits the PUF may flip
          ElpColumns, \* columns of elp
          RootSize    \* entries of root and loc, one less than those of reg

CodeAssumption ==
  /\ BchAssumption
  /\ Seeds \subseteq [0..n -> {0, 1}]
  /\ {MaxErrors, ElpColumns, RootSize} \subseteq Nat

VARIABLES data, bb,      \* data bits and redundancy
          sent, errors,  \* what enroll gave, and where the PUF differs
          recd,
          s, disc,       \* syndromes, discrepancies (d in decode_bch): powers
          elp, l, u_lu,  \* the error location polynomials, their degrees
          u              \* and Berlekamp's step

codeVars == <<data, bb, sent, errors, recd, s, disc, elp, l, u_lu, u>>
vars == <<pc, fieldVars, codeVars>>

Nothing == <<>>

Init ==
  /\ FieldInit
  /\ data = Nothing /\ bb = Nothing /\ sent = Nothing /\ errors = {} /\ recd = Nothing
  /\ s = Nothing /\ disc = Nothing /\ elp = Nothing /\ l = Nothing /\ u_lu = Nothing
  /\ u = 0

CodeFault == Fault /\ UNCHANGED codeVars

\* generatePS draws the bits; encode_bch clears the redundancy.
DrawSeed ==
  /\ pc = "poly" /\ i > rdncy
  /\ \E w \in Seeds : data' = [j \in 0..(k - 1) |-> w[j]]
  /\ bb' = [j \in 0..(rdncy - 1) |-> 0]
  /\ i' = k - 1
  /\ pc' = "encode"
  /\ UNCHANGED <<codelength, t, alpha_to, index_of, cycle, zeros, g,
                 sent, errors, recd, s, disc, elp, l, u_lu, u>>

Feedback == (data[i] + bb[rdncy - 1]) % 2

\* bb is a shift register with taps where g has a coefficient.
EncodeBit ==
  /\ pc = "encode" /\ i >= 0
  /\ LET tap(j) == IF g[j] # 0 THEN Feedback ELSE 0
     IN  bb' = [j \in 0..(rdncy - 1) |->
                  IF j = 0 THEN tap(0) ELSE (bb[j-1] + tap(j)) % 2]
  /\ i' = i - 1
  /\ UNCHANGED <<pc, codelength, t, alpha_to, index_of, cycle, zeros, g,
                 data, sent, errors, recd, s, disc, elp, l, u_lu, u>>

\* b(x) + x^(codelength-k) data(x); recd is as long as the field is large.
CodeWord == [j \in 0..n |-> IF j < rdncy THEN bb[j]
                            ELSE IF j < codelength THEN data[j - rdncy] ELSE 0]

Flip(word, at) == [j \in DOMAIN word |-> IF j \in at THEN 1 - word[j] ELSE word[j]]

\* rep.c: the word is read back, some bits of it wrong.
Receive ==
  /\ pc = "encode" /\ i < 0
  /\ \E e \in SUBSET (0..(codelength - 1)) :
       Cardinality(e) <= MaxErrors /\ errors' = e /\ recd' = Flip(CodeWord, e)
  /\ sent' = CodeWord
  /\ pc' = "syndromes"
  /\ UNCHANGED <<fieldVars, data, bb, s, disc, elp, l, u_lu, u>>

-----------------------------------------------------------------------------
\* The value of a word at alpha^e; exponents are taken modulo n.
Syndrome(word, e) ==
  XorOf([j \in {q \in 0..(codelength - 1) : word[q] # 0} |-> alpha_to[(e * j) % n]])

\* Without errors decode_bch does nothing; with errors it begins with the
\* polynomials of steps -1 and 0, each 2t coefficients long.
FormSyndromes ==
  /\ pc = "syndromes"
  /\ LET syn == [e \in 1..(2 * t) |-> index_of[Syndrome(recd, e)]]
     IN  IF \A e \in DOMAIN syn : syn[e] = -1
         THEN /\ s' = syn /\ pc' = "done"
              /\ UNCHANGED <<fieldVars, data, bb, sent, errors, recd,
                             disc, elp, l, u_lu, u>>
         ELSE IF 2 * t > ElpColumns
         THEN CodeFault
         ELSE /\ s' = syn
              /\ disc' = [w \in 0..1 |-> IF w = 0 THEN 0 ELSE syn[1]]
              /\ elp' = [w \in 0..1 |-> [j \in 0..(ElpColumns - 1) |->
                           IF j = 0 THEN w ELSE w - 1]]
              /\ l' = [w \in 0..1 |-> 0]
              /\ u_lu' = [w \in 0..1 |-> w - 1]
              /\ u' = 1
              /\ pc' = "locate"
              /\ UNCHANGED <<fieldVars, data, bb, sent, errors, recd>>

\* Mutant: the first step with a discrepancy.
BestFirst ==
  LET with == {w \in 0..(u - 1) : disc[w] # -1}
  IN  CHOOSE w \in with : \A v \in with : v >= w

\* Of the steps before u with a discrepancy, one with the greatest u_lu, the
\* last of them; step 0 always has one.
Best ==
  LET with == {w \in 0..(u - 1) : disc[w] # -1}
  IN  CHOOSE w \in with : \A v \in with :
        u_lu[v] < u_lu[w] \/ (u_lu[v] = u_lu[w] /\ v <= w)

\* The polynomial of step u, corrected by that of step Best.
Corrected ==
  LET q == Best
      from(j) == IF j - (u - q) \in 0..l[q] /\ elp[q][j - (u - q)] # -1
                 THEN alpha_to[(disc[u] + n - disc[q] + elp[q][j - (u - q)]) % n]
                 ELSE 0
  IN  [j \in 0..(ElpColumns - 1) |->
         IF j <= l[u] THEN from(j) ^^ elp[u][j] ELSE from(j)]

\* Its coefficients fit the row.
RowFits ==
  LET q == Best
  IN  \A j \in 0..l[q] : elp[q][j] # -1 => j + (u - q) < ElpColumns

NextDegree ==
  IF disc[u] = -1 \/ l[u] > l[Best] + (u - Best) THEN l[u] ELSE l[Best] + (u - Best)

\* The first half of a turn of the loop, for u: the polynomial of step u + 1,
\* Best's when there is a discrepancy.  That of step u is left as powers.
NextPolynomial ==
  /\ pc = "locate"
  /\ IF disc[u] # -1 /\ ~RowFits THEN CodeFault
     ELSE LET poly == IF disc[u] = -1 THEN elp[u] ELSE Corrected
              row  == [j \in 0..(ElpColumns - 1) |->
                         IF j <= l[u] THEN index_of[elp[u][j]] ELSE elp[u][j]]
          IN  /\ elp' = [w \in 0..(u+1) |-> IF w = u + 1 THEN poly
                                            ELSE IF w = u THEN row ELSE elp[w]]
              /\ l' = [w \in 0..(u+1) |-> IF w = u + 1 THEN NextDegree ELSE l[w]]
              /\ u_lu' = [w \in 0..(u+1) |-> IF w = u + 1 THEN u - NextDegree ELSE u_lu[w]]
              /\ pc' = "discrepancy"
              /\ UNCHANGED <<fieldVars, data, bb, sent, errors, recd, s, disc, u>>

\* Of the polynomial of step u + 1, from the syndromes down from u + 1.
Discrepancy ==
  LET poly == elp[u+1]
      both == {j \in 1..l[u+1] : s[u+1-j] # -1 /\ poly[j] # 0}
      first == IF s[u+1] # -1 THEN alpha_to[s[u+1]] ELSE 0
  IN  index_of[first ^^ XorOf([j \in both |-> alpha_to[(s[u+1-j] + index_of[poly[j]]) % n]])]

\* Berlekamp goes on while there are syndromes left and the degree is in reach.
GoesOn == u < 2 * t /\ l[u+1] <= t

\* The second half: no discrepancy is formed in the last turn.
NextDiscrepancy ==
  /\ pc = "discrepancy"
  /\ disc' = IF u < 2 * t
             THEN [w \in 0..(u+1) |-> IF w = u + 1 THEN Discrepancy ELSE disc[w]]
             ELSE disc
  /\ u' = u + 1
  /\ pc' = IF GoesOn THEN "locate" ELSE "search"
  /\ UNCHANGED <<fieldVars, data, bb, sent, errors, recd, s, elp, l, u_lu>>

\* alpha^e is a root of the last polynomial.
IsRoot(e) ==
  XorOf([j \in {q \in 1..l[u] : elp[u][q] # 0} |->
           alpha_to[(index_of[elp[u][j]] + e * j) % n]]) = 1

\* Mutant: the root is taken for the location.
LocationOfRoot(e) == e % n

\* The location a root stands for: alpha^e is the inverse of alpha^(n-e).
Location(e) == n - e

\* Mutant: a degree above t is not refused.
SolvableAlways == TRUE

\* The error location polynomial may stand for no more than t errors.
Solvable == l[u] <= t

\* The Chien search; the bits it locates are corrected if they are as many
\* as the degree.
Correct ==
  /\ pc = "search"
  /\ IF Solvable /\ l[u] > RootSize THEN CodeFault
     ELSE LET at == {Location(e) : e \in {f \in 1..n : IsRoot(f)}}
          IN  /\ recd' = IF Solvable /\ Cardinality(at) = l[u] THEN Flip(recd, at) ELSE recd
              /\ pc' = "done"
              /\ UNCHANGED <<fieldVars, data, bb, sent, errors, s, disc, elp, l, u_lu, u>>

Next ==
  \/ FieldNext /\ UNCHANGED codeVars
  \/ DrawSeed \/ EncodeBit \/ Receive
  \/ FormSyndromes \/ NextPolynomial \/ NextDiscrepancy \/ Correct

Spec == Init /\ [][Next]_vars

-----------------------------------------------------------------------------
\* No table or array is accessed past its end: 2^m entries for the field, 2t
\* columns of elp and t roots are enough.
InBounds == pc # "fault"

\* With no more than t errors the word sent comes back, nothing past
\* codelength included ("t = error correcting capability", bch3.c:57).
CorrectsUpToT ==
  pc = "done" /\ Cardinality(errors) <= t => recd = sent

\* Whatever the errors, the word is either left as it was received or made a
\* word of the code of full length: never corrected in part.
WordOrUntouched ==
  LET full(e) == XorOf([j \in {q \in 0..(n-1) : recd[q] # 0} |-> alpha_to[(e * j) % n]])
  IN  pc = "done" => \/ recd = Flip(sent, errors)
                     \/ \A e \in 1..(2 * t) : full(e) = 0
=============================================================================
