------------------------------ MODULE BchField ------------------------------
(***************************************************************************)
(* bch3.c, the tables both programs of the PUF begin with: the elements of *)
(* GF(2^m) in two orders (generate_gf) and the generator polynomial of the *)
(* code (gen_poly).  An entry of a table is a step, so is a cycle set and  *)
(* a factor of the polynomial.  A field element is the integer whose bits  *)
(* are its coefficients.  The sizes the arrays are declared with are       *)
(* constants: the shipped ones were not changed when m was.                *)
(***************************************************************************)
EXTENDS Integers, Sequences, FiniteSets, SequencesExt, Bitwise

CONSTANTS m,           \* degree of the field, set in read_p
          p,           \* exponents with a coefficient in the primitive polynomial
          Parameters,  \* the [codelength, t] to go through
          IndexSize,   \* entries of index_of
          GenSize      \* entries of g

n == 2^m - 1

\* The exclusive or of the values of f, bit by bit.
XorOf(f) ==
  LET ones(e) == Cardinality({x \in DOMAIN f : (f[x] \div 2^e) % 2 = 1})
  IN  MapThenSumSet(LAMBDA e : (ones(e) % 2) * 2^e, 0..(m-1))

\* What m, p and the parameters are.
BchAssumption ==
  /\ m \in Nat /\ m > 1
  /\ {0, m} \subseteq p /\ p \subseteq 0..m
  /\ Parameters \subseteq [codelength : (n \div 2 + 1)..n, t : Nat \ {0}]
  /\ IndexSize \in Nat
  /\ GenSize \in Nat

VARIABLES pc,
          codelength, t,
          alpha_to, index_of,  \* power to element, element to power
          i,                   \* the element generate_gf is at
          cycle,               \* cycle sets found so far
          zeros, g             \* roots of the polynomial, its coefficients

fieldVars == <<codelength, t, alpha_to, index_of, i, cycle, zeros, g>>

d == 2 * t + 1
rdncy == Len(zeros)
k == codelength - rdncy

\* An array is accessed past its end.
Fault == pc' = "fault" /\ UNCHANGED fieldVars

FieldInit ==
  /\ pc = "field"
  /\ \E c \in Parameters : codelength = c.codelength /\ t = c.t
  /\ alpha_to = [j \in 0..n |-> 0]
  /\ index_of = [j \in 0..(IndexSize - 1) |-> 0]
  /\ i = 0
  /\ cycle = <<>>
  /\ zeros = <<>>
  /\ g = [j \in 0..(GenSize - 1) |-> 0]

\* alpha^i: a power of two, p(x) less its leading term, or alpha^(i-1) shifted.
NextElement ==
  IF i < m THEN 2^i
  ELSE IF i = m THEN alpha_to[m]
  ELSE IF alpha_to[i-1] >= 2^(m-1)
  THEN alpha_to[m] ^^ ((alpha_to[i-1] - 2^(m-1)) * 2)
  ELSE alpha_to[i-1] * 2

\* A turn of the loops of generate_gf; the first m gather alpha^m as well.
FieldElement ==
  /\ pc = "field" /\ i < n
  /\ IF NextElement < IndexSize
     THEN /\ alpha_to' = IF i < m
                         THEN [alpha_to EXCEPT ![i] = 2^i,
                                               ![m] = IF i \in p THEN @ + 2^i ELSE @]
                         ELSE [alpha_to EXCEPT ![i] = NextElement]
          /\ index_of' = [index_of EXCEPT ![NextElement] = i]
          /\ i' = i + 1
          /\ UNCHANGED <<pc, codelength, t, cycle, zeros, g>>
     ELSE Fault

FieldZero ==
  /\ pc = "field" /\ i = n
  /\ index_of' = [index_of EXCEPT ![0] = -1]
  /\ pc' = "cycles"
  /\ UNCHANGED <<codelength, t, alpha_to, i, cycle, zeros, g>>

-----------------------------------------------------------------------------
\* r, 2r, 4r, ... modulo n, until it comes back to r (from the second on).
CycleSet(r) ==
  LET size == CHOOSE e \in 2..m : /\ (r * 2^e) % n = r
                                  /\ \A f \in 2..(e-1) : (r * 2^f) % n # r
  IN  [e \in 1..size |-> (r * 2^(e-1)) % n]

\* What no cycle set has yet; the first set begins with 1.
Uncovered == {r \in 1..(n-1) : \A c \in ToSet(cycle) : r \notin ToSet(c)}

NextCycle ==
  /\ pc = "cycles" /\ Uncovered # {}
  /\ cycle' = Append(cycle, CycleSet(CHOOSE r \in Uncovered : \A q \in Uncovered : r <= q))
  /\ UNCHANGED <<pc, codelength, t, alpha_to, index_of, i, zeros, g>>

\* The set has one of the d - 1 consecutive roots.
HasRoot(c) == \E r \in ToSet(c) : r \in 1..(d - 1)

\* The roots are those of the sets with a root; with more roots than the
\* code is long the program ends, else the polynomial begins as x + zeros[1].
ChooseRoots ==
  /\ pc = "cycles" /\ Uncovered = {}
  /\ zeros' = FlattenSeq(SelectSeq(cycle, HasRoot))
  /\ IF Len(zeros') > codelength THEN pc' = "exit" /\ UNCHANGED g
     ELSE /\ pc' = "poly"
          /\ g' = [g EXCEPT ![0] = alpha_to[zeros'[1]], ![1] = 1]
  /\ i' = 2
  /\ UNCHANGED <<codelength, t, alpha_to, index_of, cycle>>

\* alpha^z times an element, by their powers; 0 has none.
Times(x, z) == IF x = 0 THEN 0 ELSE alpha_to[(index_of[x] + z) % n]

\* The polynomial times x + zeros[i].
NextFactor ==
  /\ pc = "poly" /\ i <= rdncy
  /\ IF i < GenSize
     THEN /\ g' = [j \in DOMAIN g |->
                     IF j = 0 THEN Times(g[0], zeros[i])
                     ELSE IF j < i THEN g[j-1] ^^ Times(g[j], zeros[i])
                     ELSE IF j = i THEN 1 ELSE g[j]]
          /\ i' = i + 1
          /\ UNCHANGED <<pc, codelength, t, alpha_to, index_of, cycle, zeros>>
     ELSE Fault

FieldNext == FieldElement \/ FieldZero \/ NextCycle \/ ChooseRoots \/ NextFactor

-----------------------------------------------------------------------------
\* No table is written past its end (bch3.c:77, "You may have to change the
\* size of the arrays to make it work.", bch3.c:18).
TablesInBounds == pc # "fault"
=============================================================================
