-------------------------- MODULE LinkedListProofs --------------------------
(***************************************************************************)
(* For any heap and any words: the list is never torn, its loops find the  *)
(* last element, and it is the two-ended sequence Deque says it is.        *)
(***************************************************************************)
EXTENDS LinkedList, Inductions

\* What a pointer leads to in a heap, and the addresses met from a place on.
CellIn(hp, p) == IF p \in Addrs THEN hp[p] ELSE Unused
WalkIn(hd, hp, W) ==
  W = [k \in 0..Cardinality(Addrs) |-> IF k = 0 THEN hd ELSE CellIn(hp, W[k - 1]).next]

\* The chain s: its places are all different, each leads to the next, the last
\* one to NULL, and there are no other elements.
Path(hp, n, s) ==
  /\ n \in Nat /\ s \in [0..n -> Addrs]
  /\ \A i, j \in 0..n : s[i] = s[j] => i = j
  /\ \A i \in 0..n : hp[s[i]].kind = "elem"
  /\ \A i \in 0..(n - 1) : hp[s[i]].next = s[i + 1]
  /\ hp[s[n]].next = NULL
  /\ \A a \in Addrs : hp[a].kind = "elem" => \E i \in 0..n : a = s[i]

\* The list is such a chain, from head to last; its first place is the sentinel.
Whole(n, s) ==
  Path(heap, n, s) /\ head = s[0] /\ last = s[n] /\ heap[s[0]].data = NULL

Chained ==
  IF head = NULL THEN last = NULL /\ Elems = {}
  ELSE /\ made
       /\ \E n \in 0..Cardinality(Addrs) : \E s \in [0..n -> Addrs] : Whole(n, s)

IteratorInside ==
  busy = "remove" => head # NULL /\ iter \in Elems /\ iter # last

\* Only a list that was made is finalized.
FinalizeMade == busy = "finalize" => made

IInv == TypeOK /\ Chained /\ IteratorInside /\ FinalizeMade /\ FaultsJustified

-----------------------------------------------------------------------------
(* Walk is what the chain says.                                            *)

\* A walk is determined by where it starts and the heap.
LEMMA WalkUnique ==
  ASSUME NEW hd, NEW hp, NEW V, NEW W, WalkIn(hd, hp, V), WalkIn(hd, hp, W),
         Cardinality(Addrs) \in Nat
  PROVE  V = W
<1> DEFINE C == Cardinality(Addrs)
           S == {k \in Nat : k <= C => V[k] = W[k]}
<1>1. /\ V = [k \in 0..C |-> IF k = 0 THEN hd ELSE CellIn(hp, V[k - 1]).next]
      /\ W = [k \in 0..C |-> IF k = 0 THEN hd ELSE CellIn(hp, W[k - 1]).next]
  BY Zenon DEF WalkIn
<1> HIDE DEF C
<1>2. C \in Nat
  BY DEF C
<1>3. 0 \in S
  BY <1>1, <1>2
<1>4. ASSUME NEW k \in Nat, k \in S
      PROVE  k + 1 \in S
  <2>1. SUFFICES ASSUME k + 1 <= C
                 PROVE  V[k + 1] = W[k + 1]
    OBVIOUS
  <2>2. V[k] = W[k] /\ k + 1 \in 0..C /\ k + 1 # 0 /\ (k + 1) - 1 = k
    BY <1>2, <1>4, <2>1
  <2>3. ASSUME NEW F,
               F = [i \in 0..C |-> IF i = 0 THEN hd ELSE CellIn(hp, F[i - 1]).next]
        PROVE  F[k + 1] = CellIn(hp, F[(k + 1) - 1]).next
    BY <2>2, <2>3, Zenon
  <2>4. /\ V[k + 1] = CellIn(hp, V[(k + 1) - 1]).next
        /\ W[k + 1] = CellIn(hp, W[(k + 1) - 1]).next
    BY <1>1, <2>3, Zenon
  <2> QED
    BY <2>2, <2>4
<1>5. Nat \subseteq S
  <2> HIDE DEF S
  <2> QED
    BY <1>3, <1>4, SetInduction
<1>6. \A k \in 0..C : V[k] = W[k]
  BY <1>5
<1> QED
  BY <1>1, <1>6, Zenon

\* Where there is a walk, Walk is it.
LEMMA WalkIs ==
  ASSUME NEW V, WalkIn(head, heap, V), Cardinality(Addrs) \in Nat
  PROVE  Walk = V
<1>1. V = [k \in 0..Cardinality(Addrs) |-> IF k = 0 THEN head ELSE At(V[k - 1]).next]
  <2>1. \A p : At(p) = CellIn(heap, p)
    BY DEF At, CellIn
  <2> QED
    BY <2>1 DEF WalkIn
<1>2. Walk = [k \in 0..Cardinality(Addrs) |-> IF k = 0 THEN head ELSE At(Walk[k - 1]).next]
  BY <1>1, Zenon DEF Walk
<1>3. WalkIn(head, heap, Walk)
  <2>1. \A p : At(p) = CellIn(heap, p)
    BY DEF At, CellIn
  <2> QED
    BY <1>2, <2>1 DEF WalkIn
<1> QED
  BY <1>3, WalkUnique, Zenon

\* The same after a step.
LEMMA WalkIsNext ==
  ASSUME NEW V, WalkIn(head', heap', V), Cardinality(Addrs) \in Nat
  PROVE  Walk' = V
<1>1. V = [k \in 0..Cardinality(Addrs) |->
             IF k = 0 THEN head'
             ELSE (IF V[k - 1] \in Addrs THEN heap'[V[k - 1]] ELSE Unused).next]
  BY Zenon DEF WalkIn, CellIn
<1>2. Walk' = [k \in 0..Cardinality(Addrs) |->
                 IF k = 0 THEN head'
                 ELSE (IF Walk'[k - 1] \in Addrs THEN heap'[Walk'[k - 1]] ELSE Unused).next]
  BY <1>1, Zenon DEF Walk, At
<1>3. WalkIn(head', heap', Walk')
  BY <1>2, Zenon DEF WalkIn, CellIn
<1> QED
  BY <1>3, WalkUnique, Zenon

\* There are no more places in a chain than addresses.
LEMMA ChainShort ==
  ASSUME NEW hp, NEW n, NEW s, Path(hp, n, s)
  PROVE  Cardinality(Addrs) \in Nat /\ n \in Nat /\ n < Cardinality(Addrs)
<1>1. IsFiniteSet(Addrs) /\ n \in Nat /\ s \in Injection(0..n, Addrs)
  BY ListAssumption DEF Path, Injection, IsInjective
<1>2. Cardinality(Addrs) \in Nat
  BY <1>1, FS_CardinalityType
<1>3. Cardinality(0..n) <= Cardinality(Addrs)
  BY <1>1, FS_Injection
<1>4. Cardinality(0..n) = n + 1
  BY <1>1, FS_Interval
<1> QED
  BY <1>1, <1>2, <1>3, <1>4

\* The walk along a chain.
Along(n, s) == [k \in 0..Cardinality(Addrs) |-> IF k <= n THEN s[k] ELSE NULL]

LEMMA PathWalk ==
  ASSUME NEW hp, NEW n, NEW s, Path(hp, n, s)
  PROVE  WalkIn(s[0], hp, Along(n, s))
<1> DEFINE C == Cardinality(Addrs)
           W == Along(n, s)
<1>1. C \in Nat /\ n \in Nat /\ n < C
  BY ChainShort
<1>2. NULL \notin Addrs /\ Unused.next = NULL
  BY ListAssumption DEF Unused
<1>3. ASSUME NEW k \in 0..C
      PROVE  W[k] = IF k = 0 THEN s[0] ELSE CellIn(hp, W[k - 1]).next
  <2> HIDE DEF C
  <2>1. \A j \in 0..C : W[j] = IF j <= n THEN s[j] ELSE NULL
    BY DEF Along, C
  <2>2. CASE k = 0
    BY <1>1, <2>1, <2>2
  <2>3. CASE k # 0 /\ k <= n
    <3>1. k - 1 \in 0..C /\ k - 1 \in 0..(n - 1) /\ k - 1 \in 0..n /\ (k - 1) + 1 = k
      BY <1>1, <2>3
    <3>2. W[k - 1] = s[k - 1] /\ s[k - 1] \in Addrs
      BY <2>1, <3>1 DEF Path
    <3>3. hp[s[k - 1]].next = s[k]
      BY <3>1 DEF Path
    <3> QED
      BY <2>1, <2>3, <3>2, <3>3 DEF CellIn
  <2>4. CASE k = n + 1
    <3>1. n \in 0..C /\ n \in 0..n /\ k - 1 = n /\ ~(k <= n) /\ k # 0
      BY <1>1, <2>4
    <3>2. W[k - 1] = s[n] /\ s[n] \in Addrs /\ hp[s[n]].next = NULL
      BY <1>1, <2>1, <3>1 DEF Path
    <3> QED
      BY <2>1, <3>1, <3>2 DEF CellIn
  <2>5. CASE k > n + 1
    <3>1. k - 1 \in 0..C /\ ~(k - 1 <= n) /\ ~(k <= n) /\ k # 0
      BY <1>1, <2>5
    <3>2. W[k - 1] = NULL /\ W[k] = NULL
      BY <2>1, <3>1
    <3> QED
      BY <1>2, <3>1, <3>2 DEF CellIn
  <2>6. \/ k = 0
        \/ k # 0 /\ k <= n
        \/ k = n + 1 \/ k > n + 1
    BY <1>1
  <2> QED
    BY <2>2, <2>3, <2>4, <2>5, <2>6
<1>4. W = [k \in 0..C |-> W[k]]
  BY DEF Along
<1> HIDE DEF W
<1>5. W = [k \in 0..C |-> IF k = 0 THEN s[0] ELSE CellIn(hp, W[k - 1]).next]
  BY <1>3, <1>4, Zenon
<1> QED
  BY <1>5, Zenon DEF WalkIn, W

\* The walk where there is no chain.
Nowhere == [k \in 0..Cardinality(Addrs) |-> NULL]

LEMMA NoWalk ==
  ASSUME NEW hp
  PROVE  WalkIn(NULL, hp, Nowhere) /\ Cardinality(Addrs) \in Nat
<1> DEFINE C == Cardinality(Addrs)
<1>1. C \in Nat
  BY ListAssumption, FS_CardinalityType
<1>2. NULL \notin Addrs /\ Unused.next = NULL
  BY ListAssumption DEF Unused
<1>3. ASSUME NEW k \in 0..C
      PROVE  Nowhere[k] = IF k = 0 THEN NULL ELSE CellIn(hp, Nowhere[k - 1]).next
  <2>1. k = 0 \/ k - 1 \in 0..C
    BY <1>1
  <2> QED
    BY <1>2, <2>1 DEF Nowhere, CellIn
<1>4. Nowhere = [k \in 0..C |-> Nowhere[k]]
  BY DEF Nowhere
<1>5. Nowhere = [k \in 0..C |-> IF k = 0 THEN NULL ELSE CellIn(hp, Nowhere[k - 1]).next]
  BY <1>3, <1>4, Zenon
<1> QED
  BY <1>1, <1>5, Zenon DEF WalkIn

\* How many places a walk has after the first.
LEMMA WalkLength ==
  ASSUME NEW hp, NEW n, NEW s, Path(hp, n, s)
  PROVE  Cardinality({k \in DOMAIN Along(n, s) : k > 0 /\ Along(n, s)[k] # NULL}) = n
<1> DEFINE C == Cardinality(Addrs)
           P == {k \in DOMAIN Along(n, s) : k > 0 /\ Along(n, s)[k] # NULL}
<1>1. C \in Nat /\ n \in Nat /\ n < C
  BY ChainShort
<1>2. \A k \in 0..n : s[k] \in Addrs /\ s[k] # NULL
  BY ListAssumption DEF Path
<1>3. P = 1..n
  BY <1>1, <1>2 DEF Along
<1>4. Cardinality(1..n) = n
  BY <1>1, FS_Interval
<1> QED
  BY <1>3, <1>4

-----------------------------------------------------------------------------
(* What the list shows of a chain, before and after a step.                *)

ItemsOf(hp, n, s) == [k \in 1..n |-> hp[s[k]].data]

\* What is said of the list through Walk.
LEMMA WholeList ==
  ASSUME NEW n, NEW s, Path(heap, n, s), head = s[0], last = s[n]
  PROVE  ChainWhole /\ Length = n /\ Items = ItemsOf(heap, n, s)
<1>1. Cardinality(Addrs) \in Nat /\ n \in Nat /\ n < Cardinality(Addrs)
  BY ChainShort
<1>2. Walk = Along(n, s)
  BY <1>1, PathWalk, WalkIs
<1>3. Length = n
  BY <1>2, WalkLength, Zenon DEF Length
<1>4. /\ NULL \notin Addrs
      /\ \A k \in 0..n : s[k] \in Addrs /\ heap[s[k]].kind = "elem"
      /\ heap[s[n]].next = NULL
      /\ \A a \in Addrs : heap[a].kind = "elem" => \E k \in 0..n : a = s[k]
  BY ListAssumption, Zenon DEF Path
<1>5. /\ DOMAIN Walk = 0..Cardinality(Addrs)
      /\ \A k \in 0..n : k \in DOMAIN Walk /\ Walk[k] = s[k]
      /\ \A k \in DOMAIN Walk : Walk[k] = NULL \/ k \in 0..n
  BY <1>1, <1>2 DEF Along
<1>6. Chain = Elems
  BY <1>4, <1>5 DEF Chain, Elems
<1>7. ChainWhole
  <2>1. Walk[Cardinality(Addrs)] = NULL
    BY <1>1, <1>2 DEF Along
  <2>2. n \in 0..n
    BY <1>1
  <2>3. last \in Elems /\ At(last).next = NULL /\ head # NULL
    BY <1>1, <1>4, <2>2 DEF Elems, At
  <2> QED
    BY <1>6, <2>1, <2>3 DEF ChainWhole
<1>8. Items = ItemsOf(heap, n, s)
  <2>1. ASSUME NEW k \in 1..n
        PROVE  At(Walk[k]).data = heap[s[k]].data
    <3>1. k \in 0..n
      BY <1>1
    <3> QED
      BY <1>4, <1>5, <3>1 DEF At
  <2> QED
    BY <1>3, <2>1 DEF Items, ItemsOf
<1> QED
  BY <1>3, <1>7, <1>8

LEMMA NoList_ ==
  ASSUME head = NULL, last = NULL, Elems = {}
  PROVE  ChainWhole /\ Items = <<>>
<1>1. Walk = Nowhere /\ Cardinality(Addrs) \in Nat
  BY NoWalk, WalkIs
<1>2. Cardinality(Addrs) \in 0..Cardinality(Addrs)
  BY <1>1
<1>3. Chain = Elems /\ Walk[Cardinality(Addrs)] = NULL
  BY <1>1, <1>2 DEF Chain, Nowhere
<1>4. {k \in DOMAIN Walk : k > 0 /\ Walk[k] # NULL} = {}
  BY <1>1 DEF Nowhere
<1>5. Length = 0
  BY <1>4, FS_EmptySet DEF Length
<1> QED
  BY <1>3, <1>5 DEF ChainWhole, Items

\* Its items after a step.
LEMMA WholeListNext ==
  ASSUME NEW n, NEW s, Path(heap', n, s), head' = s[0]
  PROVE  Items' = ItemsOf(heap', n, s)
<1>1. Cardinality(Addrs) \in Nat /\ n \in Nat /\ n < Cardinality(Addrs)
  BY ChainShort
<1>2. Walk' = Along(n, s)
  BY <1>1, PathWalk, WalkIsNext
<1>3. Length' = n
  BY <1>2, WalkLength, Zenon DEF Length
<1>4. ASSUME NEW k \in 1..n
      PROVE  At(Walk[k])' = heap'[s[k]]
  <2>1. k \in 0..n /\ k \in 0..Cardinality(Addrs) /\ k <= n
    BY <1>1
  <2> QED
    BY <1>2, <2>1 DEF Along, At, Path
<1> QED
  BY <1>3, <1>4 DEF Items, ItemsOf

LEMMA NoListNext ==
  ASSUME head' = NULL
  PROVE  Items' = <<>>
<1>1. Walk' = Nowhere
  BY NoWalk, WalkIsNext
<1>2. {k \in DOMAIN Walk' : k > 0 /\ Walk'[k] # NULL} = {}
  BY <1>1 DEF Nowhere
<1>3. Length' = 0
  BY <1>2, FS_EmptySet DEF Length
<1> QED
  BY <1>3 DEF Items

-----------------------------------------------------------------------------
(* What the operations do to a chain.                                      *)

ElemCells == [kind : {"elem"}, next : Pointers, data : Data \union {NULL}]

\* Cells of other kinds are no elements.
LEMMA CellKinds ==
  ASSUME NEW x \in Cells
  PROVE  /\ x.kind = "elem" => x \in ElemCells
         /\ x \in ElemCells => x.kind = "elem" /\ x # Unused
                               /\ x.next \in Pointers /\ x.data \in Data \union {NULL}
         /\ Unused.kind # "elem" /\ Iterator.kind # "elem"
  BY DEF Cells, ElemCells, Unused, Iterator

\* The chain with the new place a after place m.
Longer(n, s, m, a) ==
  [i \in 0..(n + 1) |-> IF i <= m THEN s[i] ELSE IF i = m + 1 THEN a ELSE s[i - 1]]

\* list_push and list_append: a fresh cell is written and linked in.
LEMMA Linked ==
  ASSUME heap \in [Addrs -> Cells], NEW n, NEW s, Path(heap, n, s),
         NEW m \in 0..n, NEW a \in Addrs, heap[a] = Unused,
         NEW d \in Data \union {NULL},
         heap' = [heap EXCEPT ![a] = Elem(heap[s[m]].next, d), ![s[m]].next = a]
  PROVE  /\ Path(heap', n + 1, Longer(n, s, m, a))
         /\ heap' \in [Addrs -> Cells]
         /\ \A k \in 1..(n + 1) :
              ItemsOf(heap', n + 1, Longer(n, s, m, a))[k] =
                IF k <= m THEN heap[s[k]].data
                ELSE IF k = m + 1 THEN d ELSE heap[s[k - 1]].data
         /\ heap'[s[0]].data = heap[s[0]].data
<1> DEFINE t == Longer(n, s, m, a)
<1>1. /\ n \in Nat /\ s \in [0..n -> Addrs]
      /\ \A i, j \in 0..n : s[i] = s[j] => i = j
      /\ \A i \in 0..n : s[i] \in Addrs /\ heap[s[i]].kind = "elem"
      /\ \A i \in 0..(n - 1) : heap[s[i]].next = s[i + 1]
      /\ heap[s[n]].next = NULL
      /\ \A x \in Addrs : heap[x].kind = "elem" => \E i \in 0..n : x = s[i]
  BY DEF Path
<1>2. \A i \in 0..n : s[i] # a /\ heap[s[i]] \in ElemCells
  BY <1>1, CellKinds
<1>3. /\ heap' \in [Addrs -> Cells]
      /\ heap'[a] = Elem(heap[s[m]].next, d)
      /\ heap'[s[m]] = Elem(a, heap[s[m]].data)
      /\ \A x \in Addrs : x # a /\ x # s[m] => heap'[x] = heap[x]
  <2>1. s[m] \in Addrs /\ s[m] # a /\ heap[s[m]] \in ElemCells
    BY <1>1, <1>2
  <2>2. /\ heap'[a] = Elem(heap[s[m]].next, d)
        /\ heap'[s[m]] = [heap[s[m]] EXCEPT !.next = a]
        /\ \A x \in Addrs : x # a /\ x # s[m] => heap'[x] = heap[x]
        /\ heap' = [x \in Addrs |-> heap'[x]]
    BY <2>1
  <2>3. heap'[s[m]] = Elem(a, heap[s[m]].data)
    BY <2>1, <2>2 DEF ElemCells, Elem
  <2>4. Elem(heap[s[m]].next, d) \in Cells /\ Elem(a, heap[s[m]].data) \in Cells
    BY <2>1 DEF ElemCells, Cells, Elem, Pointers
  <2>5. \A x \in Addrs : heap'[x] \in Cells
    BY <2>2, <2>3, <2>4
  <2> QED
    BY <2>2, <2>3, <2>5
<1>4. /\ \A i \in 0..n : heap'[s[i]].kind = "elem" /\ heap'[s[i]].data = heap[s[i]].data
      /\ heap'[a].kind = "elem" /\ heap'[a].data = d /\ heap'[a].next = heap[s[m]].next
      /\ heap'[s[m]].next = a
      /\ \A i \in 0..n : i # m => heap'[s[i]].next = heap[s[i]].next
      /\ \A x \in Addrs : heap'[x].kind = "elem" => x = a \/ heap[x].kind = "elem"
  BY <1>1, <1>2, <1>3 DEF Elem
<1>5. /\ \A i \in 0..(n + 1) :
           t[i] = IF i <= m THEN s[i] ELSE IF i = m + 1 THEN a ELSE s[i - 1]
      /\ DOMAIN t = 0..(n + 1) /\ t = [i \in 0..(n + 1) |-> t[i]]
      /\ m \in Nat /\ m <= n
  BY <1>1 DEF Longer
<1> HIDE DEF t
<1>6. \A i \in 0..(n + 1) :
        \/ i <= m /\ i \in 0..n /\ t[i] = s[i]
        \/ i = m + 1 /\ t[i] = a
        \/ i > m + 1 /\ i - 1 \in 0..n /\ t[i] = s[i - 1]
  BY <1>1, <1>5
<1>7. t \in [0..(n + 1) -> Addrs]
  BY <1>1, <1>5, <1>6
<1>8. ASSUME NEW i \in 0..(n + 1), NEW j \in 0..(n + 1), t[i] = t[j]
      PROVE  i = j
  BY <1>1, <1>2, <1>5, <1>6, <1>8
<1>9. ASSUME NEW i \in 0..(n + 1)
      PROVE  heap'[t[i]].kind = "elem"
  <2>1. t[i] = a \/ \E j \in 0..n : t[i] = s[j]
    BY <1>6
  <2> QED
    BY <1>4, <2>1, Zenon
<1>10. ASSUME NEW i \in 0..n
       PROVE  heap'[t[i]].next = t[i + 1]
  <2>1. CASE i < m
    <3>1. /\ i \in 0..n /\ i \in 0..(n - 1) /\ i # m /\ i \in 0..(n + 1)
          /\ i + 1 \in 0..(n + 1) /\ i <= m /\ i + 1 <= m
      BY <1>1, <1>5, <2>1
    <3>2. t[i] = s[i] /\ t[i + 1] = s[i + 1]
      BY <1>5, <3>1
    <3>3. heap'[s[i]].next = heap[s[i]].next /\ heap[s[i]].next = s[i + 1]
      BY <1>1, <1>4, <3>1
    <3> QED
      BY <3>2, <3>3
  <2>2. CASE i = m
    <3>1. i \in 0..(n + 1) /\ i + 1 \in 0..(n + 1) /\ i <= m /\ i + 1 = m + 1 /\ ~(i + 1 <= m)
      BY <1>1, <1>5, <2>2
    <3>2. t[i] = s[m] /\ t[i + 1] = a
      BY <1>5, <2>2, <3>1
    <3> QED
      BY <1>4, <3>2
  <2>3. CASE i = m + 1
    <3>1. m \in 0..(n - 1) /\ i + 1 \in 0..(n + 1) /\ (i + 1) - 1 = m + 1
          /\ ~(i + 1 <= m) /\ i + 1 # m + 1 /\ i \in 0..(n + 1) /\ ~(i <= m)
      BY <1>1, <1>5, <2>3
    <3>2. t[i] = a /\ t[i + 1] = s[m + 1]
      BY <1>5, <2>3, <3>1
    <3>3. heap'[a].next = s[m + 1]
      BY <1>1, <1>4, <3>1
    <3> QED
      BY <3>2, <3>3
  <2>4. CASE i > m + 1
    <3>1. i - 1 \in 0..(n - 1) /\ (i - 1) + 1 = i /\ i - 1 # m /\ i - 1 \in 0..n
      BY <1>1, <1>5, <2>4
    <3>2. /\ i \in 0..(n + 1) /\ ~(i <= m) /\ i # m + 1
          /\ i + 1 \in 0..(n + 1) /\ ~(i + 1 <= m) /\ i + 1 # m + 1 /\ (i + 1) - 1 = i
      BY <1>1, <1>5, <2>4
    <3>3. t[i] = s[i - 1] /\ t[i + 1] = s[i]
      BY <1>5, <3>2
    <3>4. heap'[s[i - 1]].next = heap[s[i - 1]].next
      BY <1>4, <3>1
    <3>5. heap[s[i - 1]].next = s[(i - 1) + 1]
      BY <1>1, <3>1
    <3> QED
      BY <3>1, <3>3, <3>4, <3>5
  <2> QED
    BY <1>5, <2>1, <2>2, <2>3, <2>4
<1>11. heap'[t[n + 1]].next = NULL
  <2>1. CASE m = n
    <3>1. n + 1 \in 0..(n + 1) /\ ~(n + 1 <= m) /\ n + 1 = m + 1
      BY <1>1, <2>1
    <3>2. t[n + 1] = a
      BY <1>5, <3>1
    <3>3. heap'[a].next = heap[s[n]].next
      BY <1>4, <2>1, Zenon
    <3>4. heap[s[n]].next = NULL
      BY <1>1
    <3> QED
      BY <3>2, <3>3, <3>4
  <2>2. CASE m < n
    <3>1. n \in 0..n /\ n # m /\ n + 1 \in 0..(n + 1) /\ ~(n + 1 <= m)
          /\ n + 1 # m + 1 /\ (n + 1) - 1 = n
      BY <1>1, <1>5, <2>2
    <3>2. t[n + 1] = s[n]
      BY <1>5, <3>1
    <3>3. heap'[s[n]].next = heap[s[n]].next
      BY <1>4, <3>1
    <3> QED
      BY <1>1, <3>2, <3>3
  <2> QED
    BY <1>1, <1>5, <2>1, <2>2
<1>12. ASSUME NEW x \in Addrs, heap'[x].kind = "elem"
       PROVE  \E i \in 0..(n + 1) : x = t[i]
  <2>1. CASE x = a
    <3>1. m + 1 \in 0..(n + 1) /\ t[m + 1] = a
      BY <1>1, <1>5
    <3> QED
      BY <2>1, <3>1
  <2>2. CASE x # a
    <3>1. PICK i \in 0..n : x = s[i]
      BY <1>1, <1>4, <1>12, <2>2
    <3>2. CASE i <= m
      BY <1>1, <1>5, <3>1, <3>2
    <3>3. CASE i > m
      <4>1. i + 1 \in 0..(n + 1) /\ ~(i + 1 <= m) /\ i + 1 # m + 1 /\ (i + 1) - 1 = i
        BY <1>1, <1>5, <3>3
      <4> QED
        BY <1>5, <3>1, <4>1
    <3> QED
      BY <1>5, <3>2, <3>3
  <2> QED
    BY <2>1, <2>2
<1>13. Path(heap', n + 1, t)
  <2>1. n + 1 \in Nat /\ (n + 1) - 1 = n
    BY <1>1
  <2> QED
    BY <1>7, <1>8, <1>9, <1>10, <1>11, <1>12, <2>1 DEF Path
<1>14. ASSUME NEW k \in 1..(n + 1)
       PROVE  heap'[t[k]].data =
                IF k <= m THEN heap[s[k]].data
                ELSE IF k = m + 1 THEN d ELSE heap[s[k - 1]].data
  <2>1. k \in 0..(n + 1) /\ k \in Nat
    BY <1>1
  <2>2. CASE k <= m
    <3>1. k \in 0..n /\ t[k] = s[k]
      BY <1>5, <1>6, <2>1, <2>2
    <3> QED
      BY <1>4, <2>2, <3>1
  <2>3. CASE k = m + 1
    <3>1. ~(k <= m) /\ t[k] = a
      BY <1>5, <2>1, <2>3
    <3> QED
      BY <1>4, <2>3, <3>1
  <2>4. CASE k > m + 1
    <3>1. ~(k <= m) /\ k # m + 1 /\ k - 1 \in 0..n /\ t[k] = s[k - 1]
      BY <1>5, <1>6, <2>1, <2>4
    <3> QED
      BY <1>4, <3>1
  <2> QED
    BY <1>5, <2>1, <2>2, <2>3, <2>4
<1>15. heap'[s[0]].data = heap[s[0]].data
  BY <1>1, <1>4
<1> QED
  BY <1>3, <1>13, <1>14, <1>15 DEF t, ItemsOf

\* The chain without place m.
Shorter(n, s, m) == [i \in 0..(n - 1) |-> IF i < m THEN s[i] ELSE s[i + 1]]

\* list_pop and list_remove: a cell is linked around and freed.
LEMMA Unlinked ==
  ASSUME heap \in [Addrs -> Cells], NEW n, NEW s, Path(heap, n, s),
         NEW m \in 1..n,
         heap' = [heap EXCEPT ![s[m - 1]].next = heap[s[m]].next, ![s[m]] = Unused]
  PROVE  /\ Path(heap', n - 1, Shorter(n, s, m))
         /\ heap' \in [Addrs -> Cells]
         /\ \A k \in 1..(n - 1) :
              ItemsOf(heap', n - 1, Shorter(n, s, m))[k] =
                IF k < m THEN heap[s[k]].data ELSE heap[s[k + 1]].data
         /\ heap'[s[0]].data = heap[s[0]].data
<1> DEFINE t == Shorter(n, s, m)
<1>1. /\ n \in Nat /\ s \in [0..n -> Addrs]
      /\ \A i, j \in 0..n : s[i] = s[j] => i = j
      /\ \A i \in 0..n : s[i] \in Addrs /\ heap[s[i]].kind = "elem"
      /\ \A i \in 0..(n - 1) : heap[s[i]].next = s[i + 1]
      /\ heap[s[n]].next = NULL
      /\ \A x \in Addrs : heap[x].kind = "elem" => \E i \in 0..n : x = s[i]
  BY DEF Path
<1>2. /\ n \in Nat /\ m \in Nat /\ m - 1 \in Nat /\ m <= n /\ m # m - 1 /\ n - 1 \in Nat
      /\ m \in 0..n /\ m - 1 \in 0..n
      /\ 0 \in 0..n /\ m # 0
  BY <1>1
<1>3. \A i \in 0..n : heap[s[i]] \in ElemCells
  BY <1>1, CellKinds
<1>4. s[m] # s[m - 1]
  BY <1>1, <1>2
<1>5. /\ heap' \in [Addrs -> Cells]
      /\ heap'[s[m]] = Unused
      /\ heap'[s[m - 1]] = Elem(heap[s[m]].next, heap[s[m - 1]].data)
      /\ \A x \in Addrs : x # s[m] /\ x # s[m - 1] => heap'[x] = heap[x]
  <2>1. /\ s[m] \in Addrs /\ s[m - 1] \in Addrs
        /\ heap[s[m]] \in ElemCells /\ heap[s[m - 1]] \in ElemCells
    BY <1>1, <1>2, <1>3
  <2>2. /\ heap'[s[m]] = Unused
        /\ heap'[s[m - 1]] = [heap[s[m - 1]] EXCEPT !.next = heap[s[m]].next]
        /\ \A x \in Addrs : x # s[m] /\ x # s[m - 1] => heap'[x] = heap[x]
        /\ heap' = [x \in Addrs |-> heap'[x]]
    BY <1>4, <2>1
  <2>3. heap'[s[m - 1]] = Elem(heap[s[m]].next, heap[s[m - 1]].data)
    BY <2>1, <2>2 DEF ElemCells, Elem
  <2>4. Unused \in Cells /\ Elem(heap[s[m]].next, heap[s[m - 1]].data) \in Cells
    BY <2>1 DEF ElemCells, Cells, Elem
  <2>5. ASSUME NEW x \in Addrs
        PROVE  heap'[x] \in Cells
    <3>1. CASE x = s[m] \/ x = s[m - 1]
      BY <2>2, <2>3, <2>4, <3>1, Zenon
    <3>2. CASE x # s[m] /\ x # s[m - 1]
      <4>1. heap[x] \in Cells
        OBVIOUS
      <4> QED
        BY <2>2, <3>2, <4>1, Zenon
    <3> QED
      BY <3>1, <3>2
  <2> QED
    BY <2>2, <2>3, <2>5
<1>6. /\ \A i \in 0..n :
           i # m => heap'[s[i]].kind = "elem" /\ heap'[s[i]].data = heap[s[i]].data
      /\ heap'[s[m - 1]].next = heap[s[m]].next
      /\ \A i \in 0..n : i # m /\ i # m - 1 => heap'[s[i]].next = heap[s[i]].next
      /\ \A x \in Addrs : heap'[x].kind = "elem" => x # s[m] /\ heap[x].kind = "elem"
  <2>1. \A i \in 0..n : i # m => s[i] # s[m]
    BY <1>1, <1>2
  <2>2. \A i \in 0..n : i # m - 1 => s[i] # s[m - 1]
    BY <1>1, <1>2
  <2>3. heap'[s[m]].kind # "elem"
    BY <1>5, CellKinds
  <2>4. heap'[s[m - 1]].kind = "elem" /\ heap'[s[m - 1]].data = heap[s[m - 1]].data
        /\ heap'[s[m - 1]].next = heap[s[m]].next
    BY <1>5 DEF Elem
  <2>5. ASSUME NEW i \in 0..n, i # m
        PROVE  /\ heap'[s[i]].kind = "elem" /\ heap'[s[i]].data = heap[s[i]].data
               /\ i # m - 1 => heap'[s[i]].next = heap[s[i]].next
    <3>1. CASE i = m - 1
      BY <2>4, <3>1
    <3>2. CASE i # m - 1
      <4>1. heap'[s[i]] = heap[s[i]]
        BY <1>1, <1>5, <2>1, <2>2, <2>5, <3>2
      <4> QED
        BY <1>1, <4>1
    <3> QED
      BY <3>1, <3>2
  <2>6. ASSUME NEW x \in Addrs, heap'[x].kind = "elem"
        PROVE  x # s[m] /\ heap[x].kind = "elem"
    <3>1. CASE x = s[m - 1]
      BY <1>1, <1>2, <1>4, <3>1
    <3>2. CASE x # s[m - 1]
      <4>1. x # s[m]
        BY <2>3, <2>6
      <4> QED
        BY <1>5, <2>6, <3>2, <4>1
    <3> QED
      BY <3>1, <3>2
  <2> QED
    BY <2>4, <2>5, <2>6
<1>7. /\ \A i \in 0..(n - 1) : t[i] = IF i < m THEN s[i] ELSE s[i + 1]
      /\ t = [i \in 0..(n - 1) |-> t[i]]
  BY DEF Shorter
<1> HIDE DEF t
<1>8. \A i \in 0..(n - 1) :
        \/ i < m /\ i \in 0..n /\ t[i] = s[i] /\ i # m
        \/ i >= m /\ i + 1 \in 0..n /\ t[i] = s[i + 1] /\ i + 1 # m
  BY <1>1, <1>2, <1>7
<1>9. t \in [0..(n - 1) -> Addrs]
  BY <1>1, <1>7, <1>8
<1>10. ASSUME NEW i \in 0..(n - 1), NEW j \in 0..(n - 1), t[i] = t[j]
       PROVE  i = j
  BY <1>1, <1>2, <1>8, <1>10
<1>11. ASSUME NEW i \in 0..(n - 1)
       PROVE  heap'[t[i]].kind = "elem"
  <2>1. \E j \in 0..n : j # m /\ t[i] = s[j]
    BY <1>8
  <2> QED
    BY <1>6, <2>1, Zenon
<1>12. ASSUME NEW i \in 0..((n - 1) - 1)
       PROVE  heap'[t[i]].next = t[i + 1]
  <2>1. i \in 0..(n - 1) /\ i + 1 \in 0..(n - 1) /\ i \in 0..n /\ i + 1 \in 0..n
        /\ (i + 1) + 1 \in 0..n
    BY <1>2
  <2>2. CASE i + 1 < m
    <3>1. t[i] = s[i] /\ t[i + 1] = s[i + 1] /\ i # m /\ i # m - 1
      BY <1>2, <1>7, <2>1, <2>2
    <3> QED
      BY <1>1, <1>6, <2>1, <3>1
  <2>3. CASE i + 1 = m
    <3>1. t[i] = s[m - 1] /\ t[i + 1] = s[m + 1] /\ m \in 0..(n - 1)
      BY <1>2, <1>7, <2>1, <2>3
    <3> QED
      BY <1>1, <1>6, <3>1
  <2>4. CASE i + 1 > m
    <3>1. t[i] = s[i + 1] /\ t[i + 1] = s[(i + 1) + 1] /\ i + 1 # m /\ i + 1 # m - 1
          /\ i + 1 \in 0..(n - 1)
      BY <1>1, <1>2, <1>7, <2>1, <2>4
    <3>2. heap'[s[i + 1]].next = heap[s[i + 1]].next
      BY <1>6, <2>1, <3>1
    <3> QED
      BY <1>1, <3>1, <3>2
  <2> QED
    BY <1>2, <2>1, <2>2, <2>3, <2>4
<1>13. heap'[t[n - 1]].next = NULL
  <2>1. n - 1 \in 0..(n - 1) /\ n \in 0..n /\ (n - 1) + 1 = n
    BY <1>2
  <2>2. CASE m = n
    <3>1. t[n - 1] = s[m - 1]
      BY <1>2, <1>7, <2>1, <2>2
    <3> QED
      BY <1>1, <1>6, <2>2, <3>1
  <2>3. CASE m < n
    <3>1. t[n - 1] = s[n] /\ n # m /\ n # m - 1
      BY <1>2, <1>7, <2>1, <2>3
    <3>2. heap'[s[n]].next = heap[s[n]].next
      BY <1>6, <2>1, <3>1
    <3> QED
      BY <1>1, <3>1, <3>2
  <2> QED
    BY <1>2, <2>2, <2>3
<1>14. ASSUME NEW x \in Addrs, heap'[x].kind = "elem"
       PROVE  \E i \in 0..(n - 1) : x = t[i]
  <2>1. x # s[m] /\ \E j \in 0..n : x = s[j]
    BY <1>1, <1>6, <1>14
  <2>2. PICK j \in 0..n : x = s[j] /\ j # m
    BY <2>1
  <2>3. CASE j < m
    <3>1. j \in 0..(n - 1) /\ t[j] = s[j]
      BY <1>2, <1>7, <2>3
    <3> QED
      BY <2>2, <3>1
  <2>4. CASE j > m
    <3>1. j - 1 \in 0..(n - 1) /\ ~(j - 1 < m) /\ (j - 1) + 1 = j
      BY <1>2, <2>4
    <3> QED
      BY <1>7, <2>2, <3>1
  <2> QED
    BY <1>2, <2>2, <2>3, <2>4
<1>15. Path(heap', n - 1, t)
  BY <1>2, <1>9, <1>10, <1>11, <1>12, <1>13, <1>14 DEF Path
<1>16. ASSUME NEW k \in 1..(n - 1)
       PROVE  heap'[t[k]].data = IF k < m THEN heap[s[k]].data ELSE heap[s[k + 1]].data
  <2>1. k \in 0..(n - 1) /\ k \in Nat
    BY <1>2
  <2>2. CASE k < m
    <3>1. k \in 0..n /\ t[k] = s[k] /\ k # m
      BY <1>7, <1>8, <2>1, <2>2
    <3> QED
      BY <1>6, <2>2, <3>1
  <2>3. CASE ~(k < m)
    <3>1. k + 1 \in 0..n /\ t[k] = s[k + 1] /\ k + 1 # m
      BY <1>2, <1>7, <2>1, <2>3
    <3> QED
      BY <1>6, <2>3, <3>1
  <2> QED
    BY <2>2, <2>3
<1>17. heap'[s[0]].data = heap[s[0]].data
  BY <1>2, <1>6
<1> QED
  BY <1>5, <1>15, <1>16, <1>17 DEF t, ItemsOf

-----------------------------------------------------------------------------
(* The steps of Deque, for the values the refinement gives its variables.  *)

Status ==
  IF busy \in {"fault", "oom"} THEN "dead"
  ELSE IF ~made THEN "absent"
  ELSE IF head = NULL THEN "closed" ELSE "open"

Contents == IF busy = "finalize" THEN <<>> ELSE Items

LEMMA Opens ==
  ASSUME Status \in {"absent", "closed"}, Status' = "open",
         Contents' = Contents, call' = Did("init", NULL, NULL)
  PROVE  D!Next
  BY Zenon DEF D!Next, D!Open, D!Did, Did, Status, Contents

LEMMA Dies ==
  ASSUME Status # "dead", Status' = "dead", Contents' = Contents, call' = call
  PROVE  D!Next
  BY Zenon DEF D!Next, D!Die, Status, Contents

LEMMA Clears ==
  ASSUME Status = "open", Status' = "open", Contents' = <<>>, call' = call
  PROVE  D!Next
  BY Zenon DEF D!Next, D!Clear, Status, Contents

LEMMA Closes ==
  ASSUME Status \in {"open", "closed"}, Status' = "closed",
         Contents = <<>>, Contents' = <<>>, call' = Did("finalize", NULL, NULL)
  PROVE  D!Next
  BY Zenon DEF D!Next, D!Close, D!Did, Did, Status, Contents

LEMMA Adds ==
  ASSUME NEW d \in Data, Status \in {"absent", "open"}, Status' = Status,
         \/ /\ call' = Did("push", d, NULL)
            /\ Contents' = IF Status = "open" THEN <<d>> \o Contents ELSE Contents
         \/ /\ call' = Did("append", d, NULL)
            /\ Contents' = IF Status = "open" THEN Append(Contents, d) ELSE Contents
  PROVE  D!Next
<1>1. D!Push(d) \/ D!Append_(d)
  BY Zenon DEF D!Push, D!Append_, D!Add, D!Did, Did, Status, Contents
<1> QED
  BY <1>1, Zenon DEF D!Next

LEMMA Takes ==
  ASSUME Status # "dead", Status' = Status,
         \/ /\ call' = Did("pop", NULL,
                           IF Contents = <<>> THEN NULL ELSE Head(Contents))
            /\ Contents' = IF Contents = <<>> THEN <<>> ELSE Tail(Contents)
         \/ /\ call' = Did("remove", NULL,
                           IF Contents = <<>> THEN NULL ELSE Contents[Len(Contents)])
            /\ Contents' = IF Contents = <<>> THEN <<>>
                           ELSE SubSeq(Contents, 1, Len(Contents) - 1)
         \/ /\ \/ call' = Did("head", NULL,
                              IF Contents = <<>> THEN NULL ELSE Head(Contents))
               \/ call' = Did("last", NULL,
                              IF Contents = <<>> THEN NULL ELSE Contents[Len(Contents)])
            /\ Contents' = Contents
  PROVE  D!Next
<1>1. D!Pop \/ D!Remove \/ D!Look
  BY Zenon DEF D!Pop, D!Remove, D!Look, D!Take, D!First, D!Final, D!Did, Did,
               Status, Contents
<1> QED
  BY <1>1, Zenon DEF D!Next

LEMMA Rests ==
  ASSUME Status' = Status, Contents' = Contents, call' = call
  PROVE  UNCHANGED D!vars
  BY Zenon DEF D!vars, Status, Contents

-----------------------------------------------------------------------------
(* Sequences that differ at one end.                                       *)

LEMMA IsSequence ==
  ASSUME NEW V, NEW n \in Nat, NEW f \in [1..n -> V]
  PROVE  /\ f \in Seq(V) /\ Len(f) = n
         /\ f = <<>> <=> n = 0
         /\ n # 0 => Head(f) = f[1]
  OBVIOUS

LEMMA ConsIs ==
  ASSUME NEW V, NEW n \in Nat, NEW f \in [1..n -> V], NEW g \in [1..(n + 1) -> V],
         NEW d \in V, g[1] = d, \A k \in 1..n : g[k + 1] = f[k]
  PROVE  g = <<d>> \o f
<1>1. f \in Seq(V) /\ Len(f) = n /\ g \in Seq(V) /\ Len(g) = n + 1
  OBVIOUS
<1>2. <<d>> \o f \in Seq(V) /\ Len(<<d>> \o f) = n + 1
  BY <1>1
<1>3. ASSUME NEW k \in 1..(n + 1)
      PROVE  g[k] = (<<d>> \o f)[k]
  <2>1. CASE k = 1
    BY <1>1, <2>1
  <2>2. CASE k # 1
    <3>1. k - 1 \in 1..n /\ (k - 1) + 1 = k
      BY <2>2
    <3>2. g[k] = f[k - 1]
      BY <3>1
    <3>3. (<<d>> \o f)[k] = f[k - 1]
      BY <1>1, <2>2, <3>1
    <3> QED
      BY <3>2, <3>3
  <2> QED
    BY <2>1, <2>2
<1> QED
  BY <1>1, <1>2, <1>3

LEMMA SnocIs ==
  ASSUME NEW V, NEW n \in Nat, NEW f \in [1..n -> V], NEW g \in [1..(n + 1) -> V],
         NEW d \in V, g[n + 1] = d, \A k \in 1..n : g[k] = f[k]
  PROVE  g = Append(f, d)
<1>1. f \in Seq(V) /\ Len(f) = n /\ g \in Seq(V) /\ Len(g) = n + 1
  OBVIOUS
<1>2. Append(f, d) \in Seq(V) /\ Len(Append(f, d)) = n + 1
  BY <1>1
<1>3. \A k \in 1..(n + 1) : g[k] = Append(f, d)[k]
  BY <1>1
<1> QED
  BY <1>1, <1>2, <1>3

LEMMA TailIs ==
  ASSUME NEW V, NEW n \in Nat \ {0}, NEW f \in [1..n -> V], NEW g \in [1..(n - 1) -> V],
         \A k \in 1..(n - 1) : g[k] = f[k + 1]
  PROVE  g = Tail(f)
<1>1. f \in Seq(V) /\ Len(f) = n /\ f # <<>> /\ g \in Seq(V) /\ Len(g) = n - 1
  OBVIOUS
<1>2. Tail(f) \in Seq(V) /\ Len(Tail(f)) = n - 1
  BY <1>1
<1>3. \A k \in 1..(n - 1) : Tail(f)[k] = f[k + 1]
  BY <1>1
<1> QED
  BY <1>1, <1>2, <1>3

LEMMA FrontIs ==
  ASSUME NEW V, NEW n \in Nat \ {0}, NEW f \in [1..n -> V], NEW g \in [1..(n - 1) -> V],
         \A k \in 1..(n - 1) : g[k] = f[k]
  PROVE  g = SubSeq(f, 1, Len(f) - 1)
<1>1. f \in Seq(V) /\ Len(f) = n /\ g \in Seq(V) /\ Len(g) = n - 1
  OBVIOUS
<1>2. /\ SubSeq(f, 1, n - 1) \in Seq(V) /\ Len(SubSeq(f, 1, n - 1)) = n - 1
      /\ \A k \in 1..(n - 1) : SubSeq(f, 1, n - 1)[k] = f[k]
  BY <1>1
<1> QED
  BY <1>1, <1>2

-----------------------------------------------------------------------------
(* The list before and after a step.                                       *)

Stored == Data \union {NULL}

\* What there is to know of a list that is there.
Known(n, s) ==
  /\ Whole(n, s) /\ made
  /\ n \in Nat /\ s \in [0..n -> Addrs]
  /\ Items = ItemsOf(heap, n, s)
  /\ Items \in [1..n -> Stored]
  /\ n = 0 <=> head = last
  /\ \A i \in 0..n : s[i] \in Addrs /\ At(s[i]) = heap[s[i]]
                     /\ heap[s[i]] \in ElemCells
  /\ ChainWhole

LEMMA OpenList ==
  ASSUME IInv, head # NULL
  PROVE  \E n, s : Known(n, s)
<1>1. PICK n \in 0..Cardinality(Addrs) : \E s \in [0..n -> Addrs] : Whole(n, s)
  BY DEF IInv, Chained
<1>2. PICK s \in [0..n -> Addrs] : Whole(n, s)
  BY <1>1
<1>3. made
  BY DEF IInv, Chained
<1>4. /\ Path(heap, n, s) /\ head = s[0] /\ last = s[n]
      /\ n \in Nat
      /\ \A i, j \in 0..n : s[i] = s[j] => i = j
      /\ \A i \in 0..n : s[i] \in Addrs /\ heap[s[i]].kind = "elem"
  BY <1>2 DEF Whole, Path
<1>5. ChainWhole /\ Items = ItemsOf(heap, n, s)
  BY <1>4, WholeList
<1>6. n = 0 <=> head = last
  BY <1>4
<1>7. \A i \in 0..n : s[i] \in Addrs /\ At(s[i]) = heap[s[i]]
                     /\ heap[s[i]] \in ElemCells
  BY <1>4, CellKinds DEF At, IInv, TypeOK
<1>8. \A i \in 0..n : heap[s[i]].data \in Stored
  BY <1>7 DEF ElemCells, Stored
<1>9. ItemsOf(heap, n, s) \in [1..n -> Stored]
  BY <1>4, <1>8 DEF ItemsOf
<1> QED
  BY <1>2, <1>3, <1>4, <1>5, <1>6, <1>7, <1>9 DEF Known

\* A list that is not there has no items.
LEMMA ShutList ==
  ASSUME IInv, head = NULL
  PROVE  /\ Items = <<>> /\ Contents = <<>> /\ ChainWhole
         /\ last = NULL /\ Elems = {}
         /\ ~Good({head}) /\ ~Good({last})
<1>1. last = NULL /\ Elems = {}
  BY DEF IInv, Chained
<1>2. Items = <<>> /\ ChainWhole
  BY <1>1, NoList_
<1>3. At(NULL).kind # "elem"
  BY ListAssumption DEF At, Unused
<1> QED
  BY <1>1, <1>2, <1>3 DEF Contents, Good

\* A chain after the step makes a list that is there.
LEMMA WholeNext ==
  ASSUME NEW n, NEW s, Path(heap', n, s), head' = s[0], last' = s[n],
         heap'[s[0]].data = NULL, made'
  PROVE  Chained' /\ Items' = ItemsOf(heap', n, s) /\ head' # NULL
<1>1. Cardinality(Addrs) \in Nat /\ n \in Nat /\ n < Cardinality(Addrs)
  BY ChainShort
<1>2. n \in 0..Cardinality(Addrs) /\ s \in [0..n -> Addrs] /\ s[0] \in Addrs
  BY <1>1 DEF Path
<1>3. head' # NULL
  BY <1>2, ListAssumption
<1>4. Whole(n, s)'
  BY DEF Whole, Path
<1>5. Chained'
  BY <1>2, <1>3, <1>4 DEF Chained
<1> QED
  BY <1>3, <1>5, WholeListNext

\* A step that leaves the elements alone leaves the list alone.
LEMMA SameElements ==
  ASSUME IInv, UNCHANGED <<made, head, last>>,
         \A x \in Addrs : heap[x].kind = "elem" \/ heap'[x].kind = "elem"
                            => heap'[x] = heap[x]
  PROVE  Chained' /\ Items' = Items /\ Elems' = Elems
<1>1. Elems' = Elems
  BY DEF Elems
<1>2. CASE head = NULL
  <2>1. Chained'
    BY <1>1, <1>2 DEF IInv, Chained
  <2> QED
    BY <1>1, <1>2, <2>1, ShutList, NoListNext
<1>3. CASE head # NULL
  <2>1. PICK n, s : n \in Nat /\ Whole(n, s) /\ made /\ Items = ItemsOf(heap, n, s)
    BY <1>3, OpenList DEF Known
  <2>2. /\ Path(heap, n, s) /\ head = s[0] /\ last = s[n] /\ heap[s[0]].data = NULL
        /\ 0 \in 0..n /\ n \in 0..n
    BY <2>1 DEF Whole
  <2>3. \A i \in 0..n : s[i] \in Addrs /\ heap'[s[i]] = heap[s[i]]
    BY <2>2 DEF Path
  <2>4. Path(heap', n, s)
    <3>1. \A x \in Addrs : heap'[x].kind = "elem" => heap[x].kind = "elem"
      OBVIOUS
    <3>2. \A i \in 0..(n - 1) : i \in 0..n
      BY <2>1
    <3> QED
      BY <2>2, <2>3, <3>1, <3>2 DEF Path
  <2>5. ItemsOf(heap', n, s) = ItemsOf(heap, n, s)
    <3>1. \A k \in 1..n : k \in 0..n
      BY <2>1
    <3> QED
      BY <2>3, <3>1 DEF ItemsOf
  <2>6. head' = s[0] /\ last' = s[n] /\ heap'[s[0]].data = NULL /\ made'
    BY <2>1, <2>2, <2>3
  <2> QED
    BY <1>1, <2>1, <2>4, <2>5, <2>6, WholeNext
<1> QED
  BY <1>2, <1>3

-----------------------------------------------------------------------------
(* The steps: each keeps the invariant and is a step of Deque, or none.    *)

Refines == D!Next \/ UNCHANGED D!vars

LEMMA NullWord == NULL \in Stored
  BY DEF Stored

LEMMA StatusCases ==
  ASSUME NEW m \in BOOLEAN, NEW p, NEW b
  PROVE  LET status == IF b \in {"fault", "oom"} THEN "dead"
                       ELSE IF ~m THEN "absent"
                       ELSE IF p = NULL THEN "closed" ELSE "open"
         IN  /\ m /\ p # NULL /\ b \notin {"fault", "oom"} => status = "open"
             /\ m /\ p = NULL /\ b \notin {"fault", "oom"} => status = "closed"
             /\ ~m /\ b \notin {"fault", "oom"} => status = "absent"
             /\ b \in {"fault", "oom"} => status = "dead"
  OBVIOUS

\* A list that is there is open as long as the process is well.
LEMMA OpenStatus ==
  ASSUME IInv
  PROVE  /\ head # NULL => made
         /\ made /\ head # NULL /\ busy \notin {"fault", "oom"} => Status = "open"
         /\ made /\ head = NULL /\ busy \notin {"fault", "oom"} => Status = "closed"
         /\ ~made /\ busy \notin {"fault", "oom"} => Status = "absent"
         /\ ~made => head = NULL
         /\ busy = "finalize" => Contents = <<>>
         /\ busy # "finalize" => Contents = Items
<1>1. (head # NULL => made) /\ (~made => head = NULL)
  BY Zenon DEF IInv, Chained
<1>2. busy = "finalize" => Contents = <<>>
  BY DEF Contents
<1>3. busy # "finalize" => Contents = Items
  BY DEF Contents
<1>4. made \in BOOLEAN
  BY DEF IInv, TypeOK
<1> QED
  BY <1>1, <1>2, <1>3, <1>4, StatusCases, Zenon DEF Status

LEMMA StatusNext ==
  ASSUME TypeOK'
  PROVE  /\ made' /\ head' # NULL /\ busy' \notin {"fault", "oom"} => Status' = "open"
         /\ made' /\ head' = NULL /\ busy' \notin {"fault", "oom"} => Status' = "closed"
         /\ ~made' /\ busy' \notin {"fault", "oom"} => Status' = "absent"
         /\ busy' \in {"fault", "oom"} => Status' = "dead"
         /\ busy' = "finalize" => Contents' = <<>>
         /\ busy' # "finalize" => Contents' = Items'
<1>1. busy' = "finalize" => Contents' = <<>>
  BY DEF Contents
<1>2. busy' # "finalize" => Contents' = Items'
  BY DEF Contents
<1>3. made' \in BOOLEAN
  BY DEF TypeOK
<1> QED
  BY <1>1, <1>2, <1>3, StatusCases, Zenon DEF Status

\* A bad pointer where there is no list.
LEMMA FaultStep ==
  ASSUME IInv, Idle, made, head = NULL, Fault
  PROVE  IInv' /\ Refines
<1>1. /\ busy = "no" /\ busy' = "fault"
      /\ UNCHANGED <<made, head, last, heap, iter, call>>
  BY DEF Idle, Fault
<1>2. Chained' /\ Items' = Items
  BY <1>1, SameElements
<1>3. TypeOK'
  BY <1>1 DEF IInv, TypeOK
<1>4. IInv'
  BY <1>1, <1>2, <1>3 DEF IInv, IteratorInside, FaultsJustified, FinalizeMade
<1>5. Status = "closed" /\ Status' = "dead" /\ Contents' = Contents
  BY <1>1, <1>2, <1>3, OpenStatus, StatusNext
<1>6. Refines
  BY <1>1, <1>5, Dies DEF Refines
<1> QED
  BY <1>4, <1>6

\* Without memory the process dies.
LEMMA MallocFailsStep ==
  ASSUME IInv, MallocFails
  PROVE  IInv' /\ Refines
<1>1. /\ busy = "no" /\ busy' = "oom"
      /\ UNCHANGED <<made, head, last, heap, iter, call>>
  BY DEF Idle, MallocFails
<1>2. Chained' /\ Items' = Items
  BY <1>1, SameElements
<1>3. TypeOK'
  BY <1>1 DEF IInv, TypeOK
<1>4. IInv'
  BY <1>1, <1>2, <1>3 DEF IInv, IteratorInside, FaultsJustified, FinalizeMade
<1>5. Status # "dead" /\ Status' = "dead" /\ Contents' = Contents
  BY <1>1, <1>2, <1>3, OpenStatus, StatusNext
<1>6. Refines
  BY <1>1, <1>5, Dies DEF Refines
<1> QED
  BY <1>4, <1>6

\* Steps of an idle thread that only return something.
LEMMA SameList ==
  ASSUME IInv, Idle, UNCHANGED <<made, head, last, heap, iter, busy>>,
         call'.out \in Stored
  PROVE  IInv' /\ Status' = Status /\ Contents' = Contents /\ Status # "dead"
<1>1. busy = "no" /\ busy' = "no"
  BY DEF Idle
<1>2. Chained' /\ Items' = Items
  BY SameElements
<1>3. TypeOK'
  BY DEF IInv, TypeOK, Stored
<1>4. IInv'
  BY <1>1, <1>2, <1>3 DEF IInv, IteratorInside, FaultsJustified, FinalizeMade
<1>5. Status' = Status /\ Contents' = Contents /\ Status # "dead"
  <2>1. Status' = Status
    BY DEF Status
  <2>2. Contents' = Contents
    BY <1>2 DEF Contents
  <2>3. Status # "dead"
    BY <1>1, OpenStatus
  <2> QED
    BY <2>1, <2>2, <2>3
<1> QED
  BY <1>4, <1>5

LEMMA NoListStep ==
  ASSUME IInv, NoList
  PROVE  IInv' /\ Refines
<1>1. /\ Idle /\ ~made
      /\ UNCHANGED <<made, head, last, heap, iter, busy>>
  BY DEF NoList
<1>2. \/ \E d \in Data : call' = Did("push", d, NULL) \/ call' = Did("append", d, NULL)
      \/ \E op \in {"pop", "remove", "head", "last"} : call' = Did(op, NULL, NULL)
  BY DEF NoList
<1>3. call'.out = NULL
  BY <1>2 DEF Did
<1>4. IInv' /\ Status' = Status /\ Contents' = Contents /\ Status # "dead"
  BY <1>1, <1>3, NullWord, SameList
<1>5. Status = "absent" /\ Contents = <<>>
  BY <1>1, OpenStatus, ShutList DEF Idle
<1>6. D!Next
  <2>1. ASSUME NEW d \in Data,
               call' = Did("push", d, NULL) \/ call' = Did("append", d, NULL)
        PROVE  D!Next
    BY <1>4, <1>5, <2>1, Adds
  <2>2. ASSUME NEW op \in {"pop", "remove", "head", "last"}, call' = Did(op, NULL, NULL)
        PROVE  D!Next
    BY <1>4, <1>5, <2>2, Takes
  <2> QED
    BY <1>2, <2>1, <2>2
<1> QED
  BY <1>4, <1>6 DEF Refines

\* Looking at either end.
LEMMA LookStep ==
  ASSUME IInv, list_head \/ list_last
  PROVE  IInv' /\ Refines
<1>1. Idle /\ made /\ UNCHANGED <<made, head, last, heap, iter, busy>>
  BY DEF list_head, list_last
<1>2. \/ call' = Did("head", NULL, IF Items = <<>> THEN NULL ELSE Head(Items))
      \/ call' = Did("last", NULL, IF Items = <<>> THEN NULL ELSE Items[Len(Items)])
  <2>1. CASE head = NULL
    <3>1. Items = <<>> /\ last = NULL
      BY <2>1, ShutList
    <3>2. call' = Did("head", NULL, NULL) \/ call' = Did("last", NULL, NULL)
      BY <2>1, <3>1 DEF list_head, list_last
    <3> QED
      BY <3>1, <3>2
  <2>2. CASE head # NULL
    <3>1. PICK n, s :
            /\ n \in Nat
            /\ Whole(n, s)
            /\ Items = ItemsOf(heap, n, s)
            /\ Items \in [1..n -> Stored]
            /\ \A i \in 0..n : s[i] \in Addrs /\ At(s[i]) = heap[s[i]]
      BY <2>2, OpenList DEF Known
    <3>2. /\ head = s[0] /\ last = s[n] /\ heap[s[0]].data = NULL
          /\ heap[s[n]].next = NULL
          /\ \A i \in 0..(n - 1) : heap[s[i]].next = s[i + 1]
      BY <3>1 DEF Whole, Path
    <3>3. /\ Len(Items) = n /\ (Items = <<>> <=> n = 0)
          /\ n # 0 => Head(Items) = Items[1]
      BY <3>1, IsSequence
    <3>4. \A k \in 1..n : Items[k] = heap[s[k]].data /\ s[k] # NULL /\ s[k] \in Addrs
                          /\ At(s[k]) = heap[s[k]]
      <4>1. \A k \in 1..n : k \in 0..n
        BY <3>1
      <4> QED
        BY <3>1, <4>1, ListAssumption DEF ItemsOf
    <3>5. At(head) = heap[s[0]] /\ At(last) = heap[s[n]] /\ last # NULL
      BY <3>1, <3>2, ListAssumption
    <3>6. CASE n = 0
      <4>1. At(head).next = NULL /\ At(last).data = NULL /\ Items = <<>>
        BY <3>2, <3>3, <3>5, <3>6
      <4> QED
        BY <4>1 DEF list_head, list_last
    <3>7. CASE n # 0
      <4>1. 0 \in 0..(n - 1) /\ 1 \in 1..n /\ n \in 1..n
        BY <3>1, <3>7
      <4>2. heap[s[0]].next = s[1]
        BY <3>2, <4>1
      <4>3. At(head).next = s[1] /\ s[1] # NULL /\ At(s[1]).data = Items[1]
        BY <3>4, <3>5, <4>1, <4>2
      <4>4. At(last).data = Items[n]
        BY <3>4, <3>5, <4>1
      <4>5. \/ call' = Did("head", NULL, Items[1])
            \/ call' = Did("last", NULL, Items[n])
        BY <2>2, <3>5, <4>3, <4>4, Zenon DEF list_head, list_last
      <4> QED
        BY <3>3, <3>7, <4>5
    <3> QED
      BY <3>6, <3>7
  <2> QED
    BY <2>1, <2>2
<1>3. call'.out \in Stored
  <2>1. CASE head = NULL
    BY <1>2, <2>1, ShutList, NullWord DEF Did
  <2>2. CASE head # NULL
    <3>1. PICK n \in Nat : Items \in [1..n -> Stored]
      BY <2>2, OpenList DEF Known
    <3>2. /\ Len(Items) = n /\ (Items = <<>> <=> n = 0)
          /\ n # 0 => Head(Items) = Items[1]
      BY <3>1, IsSequence
    <3>3. Items # <<>> => Head(Items) \in Stored /\ Items[Len(Items)] \in Stored
      BY <3>1, <3>2
    <3> QED
      BY <1>2, <3>3, NullWord DEF Did
  <2> QED
    BY <2>1, <2>2
<1>4. IInv' /\ Status' = Status /\ Contents' = Contents /\ Status # "dead"
  BY <1>1, <1>3, SameList
<1>5. Contents = Items
  BY <1>1, OpenStatus DEF Idle
<1>6. D!Next
  BY <1>2, <1>4, <1>5, Takes
<1> QED
  BY <1>4, <1>6 DEF Refines

\* A new list is the sentinel alone.
LEMMA InitStep ==
  ASSUME IInv, list_init
  PROVE  IInv' /\ Refines
<1>1. PICK a \in Addrs :
        /\ Free(a)
        /\ heap' = [heap EXCEPT ![a] = Elem(NULL, NULL)]
        /\ made' = TRUE /\ head' = a /\ last' = a
        /\ call' = Did("init", NULL, NULL)
        /\ UNCHANGED <<iter, busy>>
  BY DEF list_init
<1>2. busy = "no" /\ head = NULL
  BY DEF list_init, Idle
<1>3. Elems = {} /\ Items = <<>> /\ heap \in [Addrs -> Cells]
  BY <1>2, ShutList DEF IInv, TypeOK
<1> DEFINE s == [i \in 0..0 |-> a]
<1>4. /\ heap' \in [Addrs -> Cells]
      /\ heap'[a] = Elem(NULL, NULL)
      /\ \A x \in Addrs : x # a => heap'[x] = heap[x]
  <2>1. Elem(NULL, NULL) \in Cells
    BY DEF Elem, Cells, Pointers
  <2> QED
    BY <1>1, <1>3, <2>1
<1>5. Path(heap', 0, s) /\ s[0] = a
  <2>1. \A x \in Addrs : heap'[x].kind = "elem" => x = a
    BY <1>3, <1>4 DEF Elems
  <2>2. heap'[a].kind = "elem" /\ heap'[a].next = NULL
    BY <1>4 DEF Elem
  <2> QED
    BY <2>1, <2>2 DEF Path
<1>6. heap'[s[0]].data = NULL
  BY <1>4, <1>5 DEF Elem
<1> HIDE DEF s
<1>7. Chained' /\ Items' = ItemsOf(heap', 0, s) /\ head' # NULL
  BY <1>1, <1>5, <1>6, WholeNext
<1>8. TypeOK'
  BY <1>1, <1>4 DEF IInv, TypeOK, Pointers, Did
<1>9. IInv'
  BY <1>1, <1>2, <1>7, <1>8 DEF IInv, IteratorInside, FaultsJustified,
                                FinalizeMade
<1>10. Items' = <<>>
  BY <1>7 DEF ItemsOf
<1>11. /\ Status \in {"absent", "closed"} /\ Status' = "open"
       /\ Contents = <<>> /\ Contents' = <<>>
  <2>1. Status \in {"absent", "closed"} /\ Contents = Items
    BY <1>2, OpenStatus
  <2>2. Status' = "open" /\ Contents' = Items'
    BY <1>1, <1>2, <1>7, <1>8, StatusNext
  <2> QED
    BY <1>3, <1>10, <2>1, <2>2
<1>12. D!Next
  BY <1>1, <1>11, Opens
<1> QED
  BY <1>9, <1>12 DEF Refines

\* An element is added at either end.
LEMMA AddStep ==
  ASSUME IInv, NEW d \in Data, list_push(d) \/ list_append(d)
  PROVE  IInv' /\ Refines
<1>1. Idle /\ made /\ busy = "no"
  BY DEF list_push, list_append, Idle
<1>2. CASE head = NULL
  <2>1. Fault
    BY <1>2, ShutList DEF list_push, list_append
  <2> QED
    BY <1>1, <1>2, <2>1, FaultStep
<1>3. CASE head # NULL
  <2>1. PICK n, s :
          /\ n \in Nat
          /\ Whole(n, s) /\ made /\ s \in [0..n -> Addrs]
          /\ Items = ItemsOf(heap, n, s)
          /\ Items \in [1..n -> Stored]
          /\ n = 0 <=> head = last
          /\ \A i \in 0..n : s[i] \in Addrs /\ At(s[i]) = heap[s[i]]
                             /\ heap[s[i]] \in ElemCells
    BY <1>3, OpenList DEF Known
  <2>2. /\ Path(heap, n, s) /\ head = s[0] /\ last = s[n] /\ heap[s[0]].data = NULL
        /\ heap[s[n]].next = NULL
        /\ 0 \in 0..n /\ n \in 0..n
    BY <2>1 DEF Whole, Path
  <2>3. Good({head}) /\ Good({last})
    BY <2>1, <2>2, CellKinds DEF Good, ElemCells
  <2>4. PICK a \in Addrs :
          /\ Free(a)
          /\ \/ /\ heap' = [heap EXCEPT ![a] = Elem(At(head).next, d), ![head].next = a]
                /\ last' = IF head = last THEN a ELSE last
                /\ call' = Did("push", d, NULL)
             \/ /\ heap' = [heap EXCEPT ![a] = Elem(NULL, d), ![last].next = a]
                /\ last' = a
                /\ call' = Did("append", d, NULL)
          /\ UNCHANGED <<made, head, iter, busy>>
    BY <2>3 DEF list_push, list_append
  <2>5. PICK m \in 0..n :
          /\ heap' = [heap EXCEPT ![a] = Elem(heap[s[m]].next, d), ![s[m]].next = a]
          /\ \/ /\ m = 0 /\ call' = Did("push", d, NULL)
                /\ last' = IF head = last THEN a ELSE last
             \/ /\ m = n /\ call' = Did("append", d, NULL)
                /\ last' = a
    <3>1. CASE call' = Did("push", d, NULL)
      BY <2>1, <2>2, <2>4, <3>1 DEF Did
    <3>2. CASE call' = Did("append", d, NULL)
      BY <2>1, <2>2, <2>4, <3>2 DEF Did
    <3> QED
      BY <2>4, <3>1, <3>2
  <2> DEFINE t == Longer(n, s, m, a)
             items == ItemsOf(heap', n + 1, t)
  <2>6. heap \in [Addrs -> Cells] /\ heap[a] = Unused /\ d \in Data \union {NULL}
    BY <2>4 DEF IInv, TypeOK, Free
  <2>7. /\ Path(heap', n + 1, t)
        /\ heap' \in [Addrs -> Cells]
        /\ \A k \in 1..(n + 1) :
             items[k] = IF k <= m THEN heap[s[k]].data
                        ELSE IF k = m + 1 THEN d ELSE heap[s[k - 1]].data
        /\ heap'[s[0]].data = heap[s[0]].data
    <3>1. heap' = [heap EXCEPT ![a] = Elem(heap[s[m]].next, d), ![s[m]].next = a]
      BY <2>5
    <3>2. Path(heap, n, s)
      BY <2>2
    <3> QED
      BY <2>6, <3>1, <3>2, Linked, Zenon
  <2>8. t[0] = s[0] /\ t[n + 1] = last'
    <3>1. \A i \in 0..(n + 1) :
            t[i] = IF i <= m THEN s[i] ELSE IF i = m + 1 THEN a ELSE s[i - 1]
      BY DEF Longer
    <3> HIDE DEF t
    <3>2. 0 \in 0..(n + 1) /\ n + 1 \in 0..(n + 1) /\ (n + 1) - 1 = n /\ ~(n + 1 <= m)
      BY <2>1
    <3>3. t[0] = s[0]
      BY <3>1, <3>2
    <3>4. t[n + 1] = IF n = m THEN a ELSE s[n]
      BY <2>1, <3>1, <3>2
    <3> QED
      BY <2>1, <2>2, <2>5, <3>3, <3>4
  <2> HIDE DEF t, items
  <2>9. Chained' /\ Items' = items /\ head' # NULL
    BY <2>1, <2>2, <2>4, <2>7, <2>8, WholeNext DEF items
  <2>10. TypeOK'
    <3>1. head' \in Pointers /\ last' \in Pointers /\ iter' \in Pointers
      BY <2>4 DEF IInv, TypeOK, Pointers
    <3>2. call'.out \in Data \union {NULL}
      BY <2>5 DEF Did
    <3> QED
      BY <2>4, <2>7, <3>1, <3>2 DEF IInv, TypeOK
  <2>11. IInv'
    BY <1>1, <2>4, <2>9, <2>10 DEF IInv, IteratorInside, FaultsJustified,
                                   FinalizeMade
  <2>12. /\ Status = "open" /\ Status' = "open"
         /\ Contents = Items /\ Contents' = Items'
    <3>1. Status = "open" /\ Contents = Items
      BY <1>1, <1>3, OpenStatus
    <3>2. Status' = "open" /\ Contents' = Items'
      BY <1>1, <2>4, <2>9, <2>10, StatusNext
    <3> QED
      BY <3>1, <3>2
  <2>13. /\ items \in [1..(n + 1) -> Stored] /\ d \in Stored
         /\ \A k \in 1..n : Items[k] = heap[s[k]].data
    <3>1. \A k \in 0..n : heap[s[k]].data \in Stored
      BY <2>1 DEF ElemCells, Stored
    <3>2. d \in Stored
      BY DEF Stored
    <3>3. ASSUME NEW k \in 1..(n + 1)
          PROVE  items[k] \in Stored
      <4>1. \/ k <= m /\ k \in 0..n
            \/ ~(k <= m) /\ k = m + 1
            \/ ~(k <= m) /\ k # m + 1 /\ k - 1 \in 0..n
        BY <2>1
      <4> QED
        BY <2>7, <3>1, <3>2, <4>1
    <3>4. items = [k \in 1..(n + 1) |-> items[k]]
      BY DEF items, ItemsOf
    <3> QED
      BY <2>1, <3>2, <3>3, <3>4 DEF ItemsOf
  <2>14. CASE m = 0 /\ call' = Did("push", d, NULL)
    <3>1. items[1] = d /\ \A k \in 1..n : items[k + 1] = Items[k]
      <4>1. 1 \in 1..(n + 1) /\ \A k \in 1..n : /\ k + 1 \in 1..(n + 1) /\ ~(k + 1 <= 0)
                                                /\ k + 1 # 0 + 1 /\ (k + 1) - 1 = k
        BY <2>1
      <4> QED
        BY <2>7, <2>13, <2>14, <4>1
    <3>2. items = <<d>> \o Items
      BY <2>1, <2>13, <3>1, ConsIs
    <3>3. Contents' = <<d>> \o Contents
      BY <2>9, <2>12, <3>2
    <3> QED
      BY <2>11, <2>12, <2>14, <3>3, Adds DEF Refines
  <2>15. CASE m = n /\ call' = Did("append", d, NULL)
    <3>1. items[n + 1] = d /\ \A k \in 1..n : items[k] = Items[k]
      <4>1. n + 1 \in 1..(n + 1) /\ ~(n + 1 <= n)
            /\ \A k \in 1..n : k \in 1..(n + 1) /\ k <= n
        BY <2>1
      <4> QED
        BY <2>7, <2>13, <2>15, <4>1
    <3>2. items = Append(Items, d)
      BY <2>1, <2>13, <3>1, SnocIs
    <3>3. Contents' = Append(Contents, d)
      BY <2>9, <2>12, <3>2
    <3> QED
      BY <2>11, <2>12, <2>15, <3>3, Adds DEF Refines
  <2> QED
    BY <2>5, <2>14, <2>15
<1> QED
  BY <1>2, <1>3

\* A list that is there and not empty has something to take.
LEMMA NotEmpty ==
  ASSUME IInv, ~IsEmpty
  PROVE  head # NULL /\ made
<1>1. made /\ head # last
  BY DEF IsEmpty
<1>2. head = NULL => last = NULL
  BY ShutList
<1> QED
  BY <1>1, <1>2

\* The sentinel and the first element are where they should be.
LEMMA PopIsGood ==
  ASSUME IInv, ~IsEmpty
  PROVE  PopGood
<1>1. PICK n, s :
        /\ n \in Nat
        /\ Whole(n, s)
        /\ n = 0 <=> head = last
        /\ \A i \in 0..n : s[i] \in Addrs /\ At(s[i]) = heap[s[i]]
                           /\ heap[s[i]] \in ElemCells
  BY NotEmpty, OpenList DEF Known
<1>2. n # 0
  BY <1>1 DEF IsEmpty
<1>3. 0 \in 0..(n - 1) /\ 0 \in 0..n /\ 1 \in 0..n
  BY <1>1, <1>2
<1>4. head = s[0] /\ heap[s[0]].next = s[0 + 1]
  BY <1>1, <1>3 DEF Whole, Path
<1> QED
  BY <1>1, <1>3, <1>4, CellKinds DEF PopGood, Good, ElemCells

\* Unlink takes the first element off.
LEMMA UnlinkKeeps ==
  ASSUME IInv, head # NULL, ~IsEmpty, Unlink, UNCHANGED <<made, head>>
  PROVE  /\ Chained' /\ head' # NULL /\ made /\ heap' \in [Addrs -> Cells]
         /\ last' \in Pointers
         /\ Items # <<>> /\ Items' = Tail(Items)
         /\ Head(Items) = At(At(head).next).data
         /\ Head(Items) \in Stored
<1>1. PICK n, s :
        /\ n \in Nat
        /\ Whole(n, s) /\ made /\ s \in [0..n -> Addrs]
        /\ Items = ItemsOf(heap, n, s)
        /\ Items \in [1..n -> Stored]
        /\ n = 0 <=> head = last
        /\ \A i \in 0..n : s[i] \in Addrs /\ At(s[i]) = heap[s[i]]
                           /\ heap[s[i]] \in ElemCells
  BY OpenList DEF Known
<1>2. n # 0
  BY <1>1 DEF IsEmpty
<1>3. /\ 0 \in 0..n /\ 1 \in 0..n /\ n \in 0..n /\ 1 \in 1..n
      /\ n - 1 \in Nat /\ n \in Nat \ {0} /\ 1 - 1 = 0 /\ 0 \in 0..(n - 1)
  BY <1>1, <1>2
<1>4. /\ Path(heap, n, s) /\ head = s[0] /\ last = s[n] /\ heap[s[0]].data = NULL
      /\ heap[s[0]].next = s[0 + 1]
      /\ \A i, j \in 0..n : s[i] = s[j] => i = j
  BY <1>1, <1>3 DEF Whole, Path
<1>5. At(head) = heap[s[0]] /\ At(head).next = s[1] /\ At(s[1]) = heap[s[1]]
  BY <1>1, <1>3, <1>4
<1>6. /\ heap' = [heap EXCEPT ![s[1 - 1]].next = heap[s[1]].next, ![s[1]] = Unused]
      /\ last' = IF s[1] = last THEN head ELSE last
  BY <1>3, <1>4, <1>5 DEF Unlink
<1> DEFINE t == Shorter(n, s, 1)
           items == ItemsOf(heap', n - 1, t)
<1>7. /\ Path(heap', n - 1, t)
      /\ heap' \in [Addrs -> Cells]
      /\ \A k \in 1..(n - 1) :
           items[k] = IF k < 1 THEN heap[s[k]].data ELSE heap[s[k + 1]].data
      /\ heap'[s[0]].data = heap[s[0]].data
  <2>1. heap \in [Addrs -> Cells]
    BY DEF IInv, TypeOK
  <2> QED
    BY <1>3, <1>4, <1>6, <2>1, Unlinked, Zenon
<1>8. t[0] = s[0] /\ t[n - 1] = last'
  <2>1. \A i \in 0..(n - 1) : t[i] = IF i < 1 THEN s[i] ELSE s[i + 1]
    BY DEF Shorter
  <2> HIDE DEF t
  <2>2. t[0] = s[0]
    BY <1>3, <2>1
  <2>3. CASE n = 1
    BY <1>4, <1>6, <2>2, <2>3
  <2>4. CASE n # 1
    <3>1. n - 1 \in 0..(n - 1) /\ ~(n - 1 < 1) /\ (n - 1) + 1 = n
      BY <1>3, <2>4
    <3>2. t[n - 1] = s[n]
      BY <2>1, <3>1
    <3>3. s[1] # last
      BY <1>3, <1>4, <2>4
    <3> QED
      BY <1>4, <1>6, <2>2, <3>2, <3>3
  <2> QED
    BY <2>3, <2>4, <2>2
<1> HIDE DEF t, items
<1>9. Chained' /\ Items' = items /\ head' # NULL
  BY <1>1, <1>4, <1>7, <1>8, WholeNext DEF items
<1>10. \A k \in 1..n : Items[k] = heap[s[k]].data
  BY <1>1 DEF ItemsOf
<1>11. items = Tail(Items)
  <2>1. \A k \in 1..(n - 1) : k + 1 \in 1..n /\ ~(k < 1)
    BY <1>3
  <2>2. \A k \in 1..(n - 1) : items[k] = Items[k + 1]
    BY <1>7, <1>10, <2>1
  <2>3. items = [k \in 1..(n - 1) |-> items[k]]
    BY DEF items, ItemsOf
  <2>4. items \in [1..(n - 1) -> Stored]
    BY <1>1, <2>1, <2>2, <2>3
  <2> QED
    BY <1>1, <1>3, <2>2, <2>4, TailIs
<1>12. Items # <<>> /\ Head(Items) = Items[1] /\ Items[1] \in Stored
  BY <1>1, <1>3, IsSequence
<1>13. last' \in Pointers
  BY <1>6 DEF IInv, TypeOK
<1> QED
  BY <1>1, <1>3, <1>5, <1>7, <1>9, <1>10, <1>11, <1>12, <1>13

\* Where there is nothing to take there are no items.
LEMMA EmptyItems ==
  ASSUME IInv, IsEmpty
  PROVE  Items = <<>>
<1>1. CASE head = NULL
  BY <1>1, ShutList
<1>2. CASE head # NULL
  <2>1. PICK n, s :
          n \in Nat /\ made /\ Items \in [1..n -> Stored] /\ (n = 0 <=> head = last)
    BY <1>2, OpenList DEF Known
  <2>2. n = 0
    BY <2>1 DEF IsEmpty
  <2> QED
    BY <2>1, <2>2, IsSequence
<1> QED
  BY <1>1, <1>2

LEMMA PopStep ==
  ASSUME IInv, list_pop
  PROVE  IInv' /\ Refines
<1>1. Idle /\ made /\ busy = "no"
  BY DEF list_pop, Idle
<1>2. Contents = Items
  BY <1>1, OpenStatus
<1>3. CASE IsEmpty
  <2>1. call' = Did("pop", NULL, NULL)
        /\ UNCHANGED <<made, head, last, heap, iter, busy>>
    BY <1>3 DEF list_pop
  <2>2. call'.out \in Stored
    BY <2>1, NullWord DEF Did
  <2>3. IInv' /\ Status' = Status /\ Contents' = Contents /\ Status # "dead"
    BY <1>1, <2>1, <2>2, SameList
  <2>4. Contents = <<>>
    BY <1>2, <1>3, EmptyItems
  <2>5. D!Next
    BY <2>1, <2>3, <2>4, Takes
  <2> QED
    BY <2>3, <2>5 DEF Refines
<1>4. CASE ~IsEmpty
  <2>1. head # NULL
    BY <1>4, NotEmpty
  <2>2. PopGood
    BY <1>4, PopIsGood
  <2>3. Unlink /\ call' = Did("pop", NULL, At(At(head).next).data)
        /\ UNCHANGED <<made, head, iter, busy>>
    BY <1>4, <2>2, Zenon DEF list_pop
  <2>4. /\ Chained' /\ head' # NULL /\ heap' \in [Addrs -> Cells] /\ last' \in Pointers
        /\ Items # <<>> /\ Items' = Tail(Items)
        /\ Head(Items) = At(At(head).next).data /\ Head(Items) \in Stored
    BY <1>4, <2>1, <2>3, UnlinkKeeps
  <2>5. TypeOK'
    BY <2>3, <2>4 DEF IInv, TypeOK, Did, Stored
  <2>6. IInv'
    BY <1>1, <2>3, <2>4, <2>5 DEF IInv, IteratorInside, FaultsJustified,
                                  FinalizeMade
  <2>7. Status = "open" /\ Status' = "open" /\ Contents' = Items'
    BY <1>1, <2>1, <2>3, <2>4, <2>5, OpenStatus, StatusNext
  <2>8. call' = Did("pop", NULL, Head(Contents)) /\ Contents # <<>>
        /\ Contents' = Tail(Contents)
    BY <1>2, <2>3, <2>4, <2>7
  <2>9. D!Next
    BY <2>7, <2>8, Takes
  <2> QED
    BY <2>6, <2>9 DEF Refines
<1> QED
  BY <1>3, <1>4

\* list_remove sets its iterator on the sentinel.
LEMMA RemoveStep ==
  ASSUME IInv, list_remove
  PROVE  IInv' /\ Refines
<1>1. Idle /\ made /\ busy = "no" /\ UNCHANGED <<made, head, last>>
  BY DEF list_remove, Idle
<1>2. CASE IsEmpty
  <2>1. call' = Did("remove", NULL, NULL) /\ UNCHANGED <<heap, iter, busy>>
    BY <1>2 DEF list_remove
  <2>2. call'.out \in Stored
    BY <2>1, NullWord DEF Did
  <2>3. IInv' /\ Status' = Status /\ Contents' = Contents /\ Status # "dead"
    BY <1>1, <2>1, <2>2, SameList
  <2>4. Contents = <<>>
    BY <1>1, <1>2, EmptyItems, OpenStatus
  <2>5. D!Next
    BY <2>1, <2>3, <2>4, Takes
  <2> QED
    BY <2>3, <2>5 DEF Refines
<1>3. CASE ~IsEmpty
  <2>1. PICK a \in Addrs :
          /\ Free(a)
          /\ heap' = [heap EXCEPT ![a] = Iterator]
          /\ iter' = head /\ busy' = "remove" /\ call' = call
    BY <1>3 DEF list_remove
  <2>2. heap \in [Addrs -> Cells] /\ heap[a] = Unused
    BY <2>1 DEF IInv, TypeOK, Free
  <2>3. /\ heap' \in [Addrs -> Cells]
        /\ \A x \in Addrs : heap[x].kind = "elem" \/ heap'[x].kind = "elem"
                              => heap'[x] = heap[x]
    BY <2>1, <2>2 DEF Cells, Unused, Iterator
  <2>4. Chained' /\ Items' = Items /\ Elems' = Elems
    BY <1>1, <2>3, SameElements
  <2>5. head # NULL
    BY <1>3, NotEmpty
  <2>6. head \in Elems /\ head # last
    <3>1. PICK n, s : /\ n \in Nat /\ Whole(n, s)
                      /\ \A i \in 0..n : s[i] \in Addrs /\ heap[s[i]] \in ElemCells
      BY <2>5, OpenList DEF Known
    <3>2. head = s[0] /\ 0 \in 0..n
      BY <3>1 DEF Whole
    <3> QED
      BY <1>1, <1>3, <3>1, <3>2 DEF Elems, ElemCells, IsEmpty
  <2>7. TypeOK'
    BY <1>1, <2>1, <2>3 DEF IInv, TypeOK
  <2>8. IInv'
    BY <1>1, <2>1, <2>4, <2>5, <2>6, <2>7 DEF IInv, IteratorInside, FaultsJustified,
                                              FinalizeMade
  <2>9. Status = "open" /\ Status' = "open" /\ Contents' = Contents
    BY <1>1, <2>1, <2>4, <2>5, <2>7, OpenStatus, StatusNext
  <2> QED
    BY <2>1, <2>8, <2>9, Rests DEF Refines
<1> QED
  BY <1>2, <1>3

\* Where the iterator of list_remove is.
LEMMA IteratorPlace ==
  ASSUME IInv, busy = "remove"
  PROVE  \E n, k, s : /\ k \in Nat /\ k < n
                      /\ Known(n, s) /\ iter = s[k] /\ At(iter).next = s[k + 1]
<1>1. head # NULL /\ iter \in Elems /\ iter # last
  BY DEF IInv, IteratorInside
<1>2. PICK n, s : n \in Nat /\ Known(n, s)
  BY <1>1, OpenList DEF Known
<1>3. Path(heap, n, s) /\ last = s[n]
  BY <1>2 DEF Known, Whole
<1>4. PICK k \in 0..n : iter = s[k]
  BY <1>1, <1>3 DEF Path, Elems
<1>5. k \in Nat /\ k < n /\ k \in 0..(n - 1)
  BY <1>1, <1>2, <1>3, <1>4
<1>6. At(iter) = heap[s[k]]
  BY <1>2, <1>4 DEF Known
<1>7. At(iter).next = s[k + 1]
  BY <1>3, <1>5, <1>6 DEF Path
<1> QED
  BY <1>2, <1>4, <1>5, <1>7

\* The iterator goes on, to an element that is not the last one.
LEMMA NextStep ==
  ASSUME IInv, list_next
  PROVE  IInv' /\ Refines
<1>1. busy = "remove" /\ At(iter).next # last
  BY DEF list_next
<1>2. PICK n, k, s : /\ n \in Nat /\ k \in Nat /\ k < n
                    /\ Known(n, s) /\ iter = s[k] /\ At(iter).next = s[k + 1]
  BY <1>1, IteratorPlace DEF Known
<1>3. /\ k \in 0..n /\ k + 1 \in 0..n
      /\ iter \in Addrs /\ At(iter) \in ElemCells
      /\ s[k + 1] \in Addrs /\ heap[s[k + 1]] \in ElemCells
  BY <1>2 DEF Known
<1>4. Good({iter}) /\ At(iter).next # NULL
  <2>1. At(iter).kind = "elem"
    BY <1>3 DEF ElemCells
  <2>2. NULL \notin Addrs
    BY ListAssumption
  <2> QED
    BY <1>2, <1>3, <2>1, <2>2 DEF Good
<1>5. /\ iter' = s[k + 1]
      /\ UNCHANGED <<made, head, last, heap, busy, call>>
  BY <1>1, <1>2, <1>4 DEF list_next
<1>6. iter' \in Elems /\ iter' # last
  <2>1. heap[s[k + 1]].kind = "elem"
    BY <1>3 DEF ElemCells
  <2> QED
    BY <1>1, <1>2, <1>3, <1>5, <2>1 DEF Elems
<1>7. Chained' /\ Items' = Items /\ Elems' = Elems
  BY <1>5, SameElements
<1>8. TypeOK'
  BY <1>3, <1>5 DEF IInv, TypeOK, Pointers
<1>9. IInv'
  BY <1>1, <1>5, <1>6, <1>7, <1>8 DEF IInv, IteratorInside, FaultsJustified,
                                      FinalizeMade
<1>10. Status' = Status /\ Contents' = Contents
  <2>1. Status' = Status
    BY <1>5 DEF Status
  <2>2. Contents' = Contents
    BY <1>5, <1>7 DEF Contents
  <2> QED
    BY <2>1, <2>2
<1> QED
  BY <1>5, <1>9, <1>10, Rests DEF Refines

\* The last element is cut off where the iterator is.
LEMMA CutStep ==
  ASSUME IInv, CutLast
  PROVE  IInv' /\ Refines
<1>1. busy = "remove" /\ At(iter).next = last /\ head # NULL
  BY DEF CutLast, IInv, IteratorInside
<1>2. PICK n, k, s : /\ n \in Nat /\ k \in Nat /\ k < n
                    /\ Known(n, s) /\ iter = s[k] /\ At(iter).next = s[k + 1]
  BY <1>1, IteratorPlace DEF Known
<1>3. /\ made /\ s \in [0..n -> Addrs]
      /\ Items = ItemsOf(heap, n, s)
      /\ Items \in [1..n -> Stored]
      /\ \A i \in 0..n : s[i] \in Addrs /\ At(s[i]) = heap[s[i]]
                         /\ heap[s[i]] \in ElemCells
      /\ Path(heap, n, s) /\ head = s[0] /\ last = s[n] /\ heap[s[0]].data = NULL
      /\ heap[s[n]].next = NULL
      /\ \A i, j \in 0..n : s[i] = s[j] => i = j
  BY <1>2 DEF Known, Whole, Path
<1>4. k = n - 1
  <2>1. k + 1 \in 0..n /\ n \in 0..n
    BY <1>2
  <2> QED
    BY <1>1, <1>2, <1>3, <2>1
<1>5. /\ n \in Nat \ {0} /\ n - 1 \in Nat /\ k \in 0..n /\ n \in 0..n /\ 0 \in 0..n
      /\ n \in 1..n /\ n - 1 \in 0..(n - 1) /\ 0 \in 0..(n - 1)
  BY <1>2, <1>4
<1>6. Good({iter, last})
  BY <1>2, <1>3, <1>5, CellKinds DEF Good, ElemCells
<1>7. /\ heap' = [heap EXCEPT ![s[n - 1]].next = heap[s[n]].next, ![s[n]] = Unused]
      /\ last' = s[n - 1] /\ iter' = NULL /\ busy' = "no"
      /\ call' = Did("remove", NULL, heap[s[n]].data)
      /\ UNCHANGED <<made, head>>
  <2>1. At(last) = heap[s[n]]
    BY <1>3, <1>5
  <2> QED
    BY <1>2, <1>3, <1>4, <1>6, <2>1 DEF CutLast
<1> DEFINE t == Shorter(n, s, n)
           items == ItemsOf(heap', n - 1, t)
<1>8. /\ Path(heap', n - 1, t)
      /\ heap' \in [Addrs -> Cells]
      /\ \A i \in 1..(n - 1) :
           items[i] = IF i < n THEN heap[s[i]].data ELSE heap[s[i + 1]].data
      /\ heap'[s[0]].data = heap[s[0]].data
  <2>1. heap \in [Addrs -> Cells]
    BY DEF IInv, TypeOK
  <2> QED
    BY <1>3, <1>5, <1>7, <2>1, Unlinked, Zenon
<1>9. t[0] = s[0] /\ t[n - 1] = last'
  <2>1. \A i \in 0..(n - 1) : t[i] = IF i < n THEN s[i] ELSE s[i + 1]
    BY DEF Shorter
  <2> HIDE DEF t
  <2> QED
    BY <1>5, <1>7, <2>1
<1> HIDE DEF t, items
<1>10. Chained' /\ Items' = items /\ head' # NULL
  <2>1. head' = t[0] /\ heap'[t[0]].data = NULL /\ made'
    BY <1>3, <1>7, <1>8, <1>9
  <2> QED
    BY <1>8, <1>9, <2>1, WholeNext DEF items
<1>11. \A i \in 1..n : Items[i] = heap[s[i]].data
  BY <1>3 DEF ItemsOf
<1>12. items = SubSeq(Items, 1, Len(Items) - 1)
  <2>1. \A i \in 1..(n - 1) : i \in 1..n /\ i < n
    BY <1>5
  <2>2. \A i \in 1..(n - 1) : items[i] = Items[i]
    BY <1>8, <1>11, <2>1
  <2>3. items = [i \in 1..(n - 1) |-> items[i]]
    BY DEF items, ItemsOf
  <2>4. items \in [1..(n - 1) -> Stored]
    BY <1>3, <2>1, <2>2, <2>3
  <2> QED
    BY <1>3, <1>5, <2>2, <2>4, FrontIs
<1>13. Items # <<>> /\ Len(Items) = n /\ Items[n] \in Stored
  BY <1>3, <1>5, IsSequence
<1>14. TypeOK'
  <2>1. last' \in Pointers /\ iter' \in Pointers
    BY <1>3, <1>7, <1>5 DEF Pointers
  <2>2. call'.out \in Data \union {NULL}
    BY <1>5, <1>7, <1>11, <1>13 DEF Did, Stored
  <2> QED
    BY <1>7, <1>8, <2>1, <2>2 DEF IInv, TypeOK
<1>15. IInv'
  BY <1>7, <1>10, <1>14 DEF IInv, IteratorInside, FaultsJustified, FinalizeMade
<1>16. /\ Status = "open" /\ Status' = "open"
       /\ Contents = Items /\ Contents' = Items'
  <2>1. Status = "open" /\ Contents = Items
    BY <1>1, <1>3, OpenStatus
  <2>2. Status' = "open" /\ Contents' = Items'
    BY <1>3, <1>7, <1>10, <1>14, StatusNext
  <2> QED
    BY <2>1, <2>2
<1>17. /\ call' = Did("remove", NULL, Contents[Len(Contents)]) /\ Contents # <<>>
       /\ Contents' = SubSeq(Contents, 1, Len(Contents) - 1)
  BY <1>5, <1>7, <1>10, <1>11, <1>12, <1>13, <1>16
<1>18. D!Next
  BY <1>16, <1>17, Takes
<1> QED
  BY <1>15, <1>18 DEF Refines

\* list_finalize begins; from here on nothing is in the list.
LEMMA FinalizeStep ==
  ASSUME IInv, list_finalize
  PROVE  IInv' /\ Refines
<1>1. /\ busy = "no" /\ made /\ busy' = "finalize"
      /\ UNCHANGED <<made, head, last, heap, iter, call>>
  BY DEF list_finalize, Idle
<1>2. Chained' /\ Items' = Items
  BY <1>1, SameElements
<1>3. TypeOK'
  BY <1>1 DEF IInv, TypeOK
<1>4. IInv'
  BY <1>1, <1>2, <1>3 DEF IInv, IteratorInside, FaultsJustified, FinalizeMade
<1>5. Contents' = <<>>
  BY <1>1 DEF Contents
<1>6. CASE head = NULL
  <2>1. Contents = <<>>
    BY <1>6, ShutList
  <2>2. Status' = Status
    BY <1>1, <1>3, <1>6, OpenStatus, StatusNext
  <2> QED
    BY <1>1, <1>4, <1>5, <2>1, <2>2, Rests DEF Refines
<1>7. CASE head # NULL
  <2>1. Status = "open" /\ Status' = "open"
    BY <1>1, <1>3, <1>7, OpenStatus, StatusNext
  <2>2. D!Next
    BY <1>1, <1>5, <2>1, Clears
  <2> QED
    BY <1>4, <2>2 DEF Refines
<1> QED
  BY <1>6, <1>7

LEMMA FinalizePopStep ==
  ASSUME IInv, FinalizePop
  PROVE  IInv' /\ Refines
<1>1. busy = "finalize" /\ ~IsEmpty
  BY DEF FinalizePop
<1>2. head # NULL /\ made
  BY <1>1, NotEmpty
<1>3. Unlink /\ UNCHANGED <<made, head, iter, busy, call>>
  BY <1>1, PopIsGood DEF FinalizePop
<1>4. /\ Chained' /\ head' # NULL /\ heap' \in [Addrs -> Cells] /\ last' \in Pointers
  BY <1>1, <1>2, <1>3, UnlinkKeeps
<1>5. TypeOK'
  BY <1>3, <1>4 DEF IInv, TypeOK
<1>6. IInv'
  BY <1>1, <1>3, <1>4, <1>5 DEF IInv, IteratorInside, FaultsJustified,
                                FinalizeMade
<1>7. Status' = Status
  BY <1>1, <1>2, <1>3, <1>4, <1>5, OpenStatus, StatusNext
<1>8. Contents' = Contents
  BY <1>1, <1>3 DEF Contents
<1> QED
  BY <1>3, <1>6, <1>7, <1>8, Rests DEF Refines

\* The sentinel goes last.
LEMMA FinalizeEndStep ==
  ASSUME IInv, FinalizeEnd
  PROVE  IInv' /\ Refines
<1>1. /\ busy = "finalize" /\ IsEmpty
      /\ heap' = [a \in Addrs |-> IF a = head THEN Unused ELSE heap[a]]
      /\ head' = NULL /\ last' = NULL /\ busy' = "no"
      /\ call' = Did("finalize", NULL, NULL)
      /\ UNCHANGED <<made, iter>>
  BY DEF FinalizeEnd
<1>2. made
  BY <1>1 DEF IInv, FinalizeMade
<1>3. \A a \in Elems : a = head
  <2>1. CASE head = NULL
    BY <2>1, ShutList
  <2>2. CASE head # NULL
    <3>1. PICK n, s : n \in Nat /\ Whole(n, s) /\ (n = 0 <=> head = last)
      BY <2>2, OpenList DEF Known
    <3>2. n = 0
      BY <1>1, <1>2, <3>1 DEF IsEmpty
    <3> QED
      BY <3>1, <3>2 DEF Whole, Path, Elems
  <2> QED
    BY <2>1, <2>2
<1>4. Elems' = {}
  <2>1. Unused.kind # "elem"
    BY DEF Unused
  <2> QED
    BY <1>1, <1>3, <2>1 DEF Elems
<1>5. Chained'
  BY <1>1, <1>4 DEF Chained
<1>6. TypeOK'
  <2>1. heap' \in [Addrs -> Cells]
    BY <1>1 DEF IInv, TypeOK, Cells
  <2> QED
    BY <1>1, <2>1 DEF IInv, TypeOK, Pointers, Did
<1>7. IInv'
  BY <1>1, <1>5, <1>6 DEF IInv, IteratorInside, FaultsJustified, FinalizeMade
<1>8. Status \in {"open", "closed"} /\ Status' = "closed"
  BY <1>1, <1>2, <1>6, OpenStatus, StatusNext
<1>9. Contents = <<>> /\ Contents' = <<>>
  BY <1>1, NoListNext DEF Contents
<1>10. D!Next
  BY <1>1, <1>8, <1>9, Closes
<1> QED
  BY <1>7, <1>10 DEF Refines

-----------------------------------------------------------------------------
LEMMA InitInvariant ==
  ASSUME Init
  PROVE  IInv /\ D!Init
<1>1. /\ made = FALSE /\ head = NULL /\ last = NULL /\ iter = NULL
      /\ heap = [a \in Addrs |-> Unused]
      /\ busy = "no" /\ call = Did("none", NULL, NULL)
  BY DEF Init
<1>2. TypeOK
  BY <1>1 DEF TypeOK, Pointers, Cells, Did
<1>3. Chained
  BY <1>1 DEF Chained, Elems, Unused
<1>4. IInv
  BY <1>1, <1>2, <1>3 DEF IInv, IteratorInside, FaultsJustified, FinalizeMade
<1>5. Status = "absent" /\ Contents = <<>>
  BY <1>1, <1>4, OpenStatus, ShutList
<1>6. D!Init
  BY <1>1, <1>5, Zenon DEF D!Init, D!Did, Did, Status, Contents
<1> QED
  BY <1>4, <1>6

LEMMA NextKeeps ==
  ASSUME IInv, [Next]_vars
  PROVE  IInv' /\ Refines
<1>1. CASE UNCHANGED vars
  <2>1. UNCHANGED <<made, head, last, heap, iter, busy, call>>
    BY <1>1 DEF vars
  <2>2. Chained' /\ Items' = Items /\ Elems' = Elems
    BY <2>1, SameElements
  <2>3. IInv'
    BY <2>1, <2>2 DEF IInv, TypeOK, IteratorInside, FaultsJustified, FinalizeMade
  <2>4. Status' = Status
    BY <2>1 DEF Status
  <2>5. Contents' = Contents
    BY <2>1, <2>2 DEF Contents
  <2> QED
    BY <2>1, <2>3, <2>4, <2>5, Rests DEF Refines
<1>2. CASE Operation
  BY <1>2, InitStep, MallocFailsStep, NoListStep, PopStep, LookStep, RemoveStep,
     FinalizeStep, AddStep DEF Operation
<1>3. CASE Loop
  BY <1>3, NextStep, CutStep, FinalizePopStep, FinalizeEndStep DEF Loop
<1> QED
  BY <1>1, <1>2, <1>3 DEF Next

\* The inductive invariant.
THEOREM Invariant == Spec => []IInv
<1>1. Init => IInv
  BY InitInvariant
<1>2. IInv /\ [Next]_vars => IInv'
  BY NextKeeps
<1> QED
  BY <1>1, <1>2, PTL DEF Spec

\* Types of the variables; no operation returns what was never written.
THEOREM TypeCorrect == Spec => []TypeOK
<1>1. IInv => TypeOK
  BY DEF IInv
<1> QED
  BY <1>1, Invariant, PTL

\* The chain from the sentinel ends at last and holds exactly the elements that
\* are allocated, for any number of addresses.
THEOREM ChainIsWhole == Spec => []ChainWhole
<1>1. IInv => ChainWhole
  BY OpenList, ShutList DEF Known
<1> QED
  BY <1>1, Invariant, PTL

\* The process dies of a bad pointer only by adding to a finalized list.
THEOREM FaultsAreJustified == Spec => []FaultsJustified
<1>1. IInv => FaultsJustified
  BY DEF IInv
<1> QED
  BY <1>1, Invariant, PTL

\* list_remove's iterator is in the list, before the last element.
THEOREM IteratorStaysBehind == Spec => []IteratorBehind
<1>1. IInv => IteratorBehind
  <2>1. SUFFICES ASSUME IInv
                 PROVE  IteratorBehind
    OBVIOUS
  <2>2. ChainWhole
    BY <2>1, OpenList, ShutList DEF Known
  <2> QED
    BY <2>1, <2>2 DEF IInv, IteratorInside, IteratorBehind, ChainWhole
<1> QED
  BY <1>1, Invariant, PTL

\* Each operation is the step of Deque it should be, and returns what that step
\* returns; the turns of the loops are no steps of Deque.
THEOREM ImplementsDeque == Spec => RefinesDeque
<1>1. Init => D!Init
  BY InitInvariant
<1>2. IInv /\ [Next]_vars => [D!Next]_(D!vars)
  BY NextKeeps DEF Refines
<1> QED
  BY <1>1, <1>2, Invariant, PTL DEF Spec, RefinesDeque, D!Spec
=============================================================================
