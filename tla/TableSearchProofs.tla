------------------------- MODULE TableSearchProofs -------------------------
(***************************************************************************)
(* The binary searches of trampoline.c are right for every well-formed     *)
(* table and every address it holds.                                       *)
(***************************************************************************)
EXTENDS TableSearch, TLAPS

\* The middle of a window lies between its ends, and at len only when the
\* window is empty at the table's end.
LEMMA MiddleBounds ==
  ASSUME NEW s \in Nat, NEW l \in Nat
  PROVE  /\ (s + l) \div 2 \in Nat
         /\ s <= l => s <= (s + l) \div 2 /\ (s + l) \div 2 <= l
         /\ s < l => (s + l) \div 2 < l
         /\ s <= l + 1 => (s + l) \div 2 <= l
         /\ 2 * ((s + l) \div 2) <= s + l
         /\ s + l <= 2 * ((s + l) \div 2) + 1
  OBVIOUS

LEMMA HalfBounds ==
  ASSUME NEW d \in Int, NEW x \in Int, 2 * x <= d
  PROVE  x <= d \div 2
  OBVIOUS

\* A query's table is a sequence of naturals, so its length is a natural.
LEMMA QueryFacts ==
  ASSUME query \in Queries
  PROVE  /\ len \in Nat
         /\ \A k \in 1 .. len : query.srcs[k] \in Nat /\ query.srcs[k] % 4 = 0
         /\ query.target \in Nat
         /\ query.target % 4 = 0
         /\ query.shift \in {0, 4}
         /\ wanted \in Int
         /\ \A a, b \in 1 .. len : a < b => query.srcs[a] < query.srcs[b]
  BY TableSearchAssumption DEF QueriesAssumption, WellFormed, len, wanted

\* Addresses are 4-aligned, so an address below the target that is not the
\* one wanted is below the one wanted, too.
LEMMA Aligned ==
  ASSUME NEW a \in Nat, NEW t \in Nat, NEW d \in {0, 4},
         a % 4 = 0, t % 4 = 0, a # t - d
  PROVE  /\ a < t => a < t - d
         /\ a >= t => a > t - d
  OBVIOUS

-----------------------------------------------------------------------------
\* The loop's variables stay in their ranges whether or not the address has a
\* row (TypeOK is inductive on its own).
THEOREM TypeCorrect == Spec => []TypeOK
<1>1. Init => TypeOK
  BY QueryFacts DEF Init, TypeOK
<1>2. TypeOK /\ [Next]_vars => TypeOK'
  <2> SUFFICES ASSUME TypeOK, [Next]_vars
               PROVE  TypeOK'
    OBVIOUS
  <2>1. len \in Nat
    BY QueryFacts DEF TypeOK
  <2>2. Middle \in 0 .. len
    BY <2>1, MiddleBounds DEF TypeOK, Middle
  <2>3. CASE Hit
    BY <2>1, <2>2, <2>3 DEF Hit, TypeOK, len
  <2>4. CASE GoRight
    BY <2>1, <2>2, <2>4 DEF GoRight, TypeOK, len
  <2>5. CASE GoLeft
    BY <2>1, <2>2, <2>5 DEF GoLeft, TypeOK, len
  <2>6. CASE UNCHANGED vars
    BY <2>6 DEF vars, TypeOK, len
  <2> QED
    BY <2>3, <2>4, <2>5, <2>6 DEF Next
<1> QED
  BY <1>1, <1>2, PTL DEF Spec

\* The window [ismall, ilarge) keeps the row asked for.  A row left of the
\* middle has a smaller address and a row right of it a larger one, because
\* the table is sorted; alignment carries this over to the search that steers
\* by `target` and looks for `target - 4`.
LEMMA WindowStep ==
  ASSUME TypeOK, TargetInWindow, [Next]_vars
  PROVE  TargetInWindow'
<1>1. /\ len \in Nat
      /\ Middle \in 0 .. len
      /\ query \in Queries
      /\ ismall \in Nat
      /\ ilarge \in 0 .. len
  BY QueryFacts, MiddleBounds DEF TypeOK, Middle
<1> SUFFICES ASSUME pc' = "loop", NEW k \in L!Rows(query)'
             PROVE  ismall' <= k /\ k < ilarge'
  BY DEF TargetInWindow
<1>2. query' = query
  BY DEF Next, Hit, GoRight, GoLeft, vars
<1>3. /\ k \in 0 .. len - 1
      /\ query.srcs[k + 1] = wanted
  BY <1>2 DEF L!Rows, len, wanted
<1>4. pc = "loop" /\ ~Hit
  BY DEF Next, Hit, GoRight, GoLeft, vars
<1>5. ismall <= k /\ k < ilarge
  BY <1>2, <1>4 DEF TargetInWindow
<1>6. Middle < len
  BY <1>1, <1>3, <1>5, MiddleBounds DEF Middle
<1>7. src(Middle) = query.srcs[Middle + 1]
  BY <1>6 DEF src
<1>8. /\ src(Middle) \in Nat
      /\ src(Middle) % 4 = 0
  BY <1>1, <1>6, <1>7, QueryFacts
<1>9. CASE GoRight
  <2>1. src(Middle) # wanted /\ src(Middle) < query.target
    BY <1>9 DEF GoRight
  <2>2. src(Middle) < wanted
    BY <2>1, <1>1, <1>8, QueryFacts, Aligned DEF wanted
  <2>3. ~(k < Middle)
    BY <2>2, <1>1, <1>3, <1>6, <1>7, <1>8, QueryFacts
  <2>4. k # Middle
    BY <2>1, <1>3, <1>7
  <2> QED
    BY <2>3, <2>4, <1>1, <1>3, <1>5, <1>9 DEF GoRight
<1>10. CASE GoLeft
  <2>1. src(Middle) # wanted /\ src(Middle) >= query.target
    BY <1>10 DEF GoLeft
  <2>2. src(Middle) > wanted
    BY <2>1, <1>1, <1>8, QueryFacts, Aligned DEF wanted
  <2>3. ~(Middle < k)
    BY <2>2, <1>1, <1>3, <1>6, <1>7, <1>8, QueryFacts
  <2>4. k # Middle
    BY <2>1, <1>3, <1>7
  <2> QED
    BY <2>3, <2>4, <1>1, <1>3, <1>5, <1>10 DEF GoLeft
<1>11. CASE UNCHANGED vars
  BY <1>5, <1>11 DEF vars
<1> QED
  BY <1>4, <1>9, <1>10, <1>11 DEF Next

THEOREM WindowCorrect == Spec => []TargetInWindow
<1>1. Init => TargetInWindow
  BY QueryFacts DEF Init, TargetInWindow, L!Rows, len
<1>2. TypeOK /\ TargetInWindow /\ [Next]_vars => TargetInWindow'
  BY WindowStep
<1> QED
  BY <1>1, <1>2, TypeCorrect, PTL DEF Spec

\* No search for a row that exists reads past the table.
LEMMA WindowInBounds ==
  ASSUME TypeOK, TargetInWindow
  PROVE  InBounds
<1> SUFFICES ASSUME Present, pc = "loop"
             PROVE  Middle < len
  BY DEF InBounds
<1>1. PICK k \in L!Rows(query) : TRUE
  BY DEF Present
<1>2. k \in 0 .. len - 1 /\ ismall <= k /\ k < ilarge
  BY DEF TargetInWindow, L!Rows, len
<1>3. len \in Nat /\ ismall \in Nat /\ ilarge \in 0 .. len
  BY QueryFacts DEF TypeOK
<1> QED
  BY <1>2, <1>3, MiddleBounds DEF Middle

THEOREM BoundsCorrect == Spec => []InBounds
  BY WindowInBounds, TypeCorrect, WindowCorrect, PTL

\* Each turn at least halves the window, in a table of any size.
THEOREM HalvingCorrect == Spec => WindowHalves
<1>1. TypeOK /\ [Next]_vars =>
        [pc' = "loop" =>
           ilarge' - ismall' <= (ilarge - ismall) \div 2]_vars
  <2> SUFFICES ASSUME TypeOK, Next, pc' = "loop"
               PROVE  ilarge' - ismall' <= (ilarge - ismall) \div 2
    OBVIOUS
  <2>1. /\ len \in Nat
        /\ ismall \in Nat
        /\ ilarge \in Nat
        /\ Middle \in Nat
        /\ 2 * Middle <= ismall + ilarge
        /\ ismall + ilarge <= 2 * Middle + 1
    BY QueryFacts, MiddleBounds DEF TypeOK, Middle
  <2>2. CASE GoRight
    <3>1. 2 * (ilarge' - ismall') <= ilarge - ismall
      BY <2>1, <2>2 DEF GoRight
    <3> QED
      BY <3>1, <2>1, <2>2, HalfBounds DEF GoRight
  <2>3. CASE GoLeft
    <3>1. 2 * (ilarge' - ismall') <= ilarge - ismall
      BY <2>1, <2>3 DEF GoLeft
    <3> QED
      BY <3>1, <2>1, <2>3, HalfBounds DEF GoLeft
  <2> QED
    BY <2>2, <2>3 DEF Next, Hit
<1> QED
  BY <1>1, TypeCorrect, PTL DEF Spec, WindowHalves

\* When every query's address is in its table, a search is the one-step
\* lookup: its only visible step hands back the row asked for.  (That the step
\* is taken is liveness and left to the runs.)
THEOREM Refinement ==
  ASSUME \A q \in Queries : L!Rows(q) # {}
  PROVE  Spec => L!Spec
<1>1. Init => L!Init
  BY DEF Init, L!Init, L!Pending
<1>2. TypeOK /\ TargetInWindow /\ [Next]_vars => [L!Next]_L!vars
  <2> SUFFICES ASSUME TypeOK, TargetInWindow, [Next]_vars
               PROVE  [L!Next]_L!vars
    OBVIOUS
  <2>1. CASE Hit
    <3>1. Middle < len
      BY <2>1, WindowInBounds DEF Hit, InBounds, Present, TypeOK
    <3>2. Middle \in Nat
      BY MiddleBounds, QueryFacts DEF Middle, TypeOK
    <3>3. len \in Nat
      BY QueryFacts DEF TypeOK
    <3>4. query.srcs[Middle + 1] = query.target - query.shift
      BY <2>1, <3>1 DEF Hit, src, wanted
    <3>5. Middle \in L!Rows(query)
      BY <3>1, <3>2, <3>3, <3>4 DEF L!Rows, len
    <3> QED
      BY <2>1, <3>5 DEF Hit, L!Next, L!Answer, L!Pending
  <2>2. CASE GoRight
    BY <2>2 DEF GoRight, L!vars
  <2>3. CASE GoLeft
    BY <2>3 DEF GoLeft, L!vars
  <2>4. CASE UNCHANGED vars
    BY <2>4 DEF vars, L!vars
  <2> QED
    BY <2>1, <2>2, <2>3, <2>4 DEF Next
<1> QED
  BY <1>1, <1>2, TypeCorrect, WindowCorrect, PTL DEF Spec, L!Spec
=============================================================================
