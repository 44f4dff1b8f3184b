---------------------------- MODULE MCAlgorithms ----------------------------
(* The programs that run alone, checked together, and with them the code of *)
(* the PUF, which stays with the model checker.                             *)
EXTENDS Algorithms, Bitwise

MCPrograms == {"TokenText", "Rc4", "Isqrt", "Dijkstra", "StringSearch", "Sha",
               "HookRegisters", "BchCode"}

MCBitXor(j, k) == j ^^ k

\* TokenText: numbers of six binary digits, of which an address has four and a
\* token two.
Hashes == [0..5 -> {0, 1}]
EndIn(ends) == {h \in Hashes : \E e \in ends : \A j \in 2..5 : h[j] = e[j - 1]}
MCReturns == {h \in Hashes : h[0] = 0 /\ h[1] = 0}
MCKey == [j \in 0..5 |-> IF j \in {3, 5} THEN 1 ELSE 0]
MCMeasurements == EndIn({<<0, 0, 0, 0>>, <<0, 1, 1, 0>>})
MCOtherDigests == EndIn({<<0, 1, 0, 1>>})

\* Rc4: bytes of two bits, keys of one to three of them.
MCKeys == UNION {[1..k -> 0..3] : k \in 1..3}

\* Dijkstra: four nodes, edges in both directions between 1 and 2, some that
\* cost nothing.
Edges == {<<0, 1>>, <<0, 2>>, <<1, 2>>, <<2, 1>>, <<1, 3>>, <<2, 3>>}
MCMatrices ==
  {[v \in 0..3 |-> [w \in 0..3 |-> IF <<v, w>> \in Edges THEN cost[<<v, w>>] ELSE NONE]] :
     cost \in [Edges -> {0, 1, 3, NONE}]}

\* HookRegisters: every list of r0 to ip a pop can name with pc.
MCPopLists == SUBSET (0..12)

-----------------------------------------------------------------------------
VARIABLES bpc, codelength, t, alpha_to, index_of, bi, cycle, zeros, g, bdata, bb, sent,
          errors, recd, s, disc, elp, l, u_lu, u

\* BchCode: codes over GF(16), of full length and shortened, up to four errors;
\* and one that is refused, its redundancy being longer than itself.
B == INSTANCE BchCode WITH
       m <- 4, p <- {0, 1, 4},
       Parameters <- [codelength : {13, 15}, t : 1..3] \cup {[codelength |-> 13, t |-> 7]},
       IndexSize <- 16, GenSize <- 15, ElpColumns <- 6, RootSize <- 3,
       Seeds <- {[j \in 0..15 |-> IF j % 3 = 0 THEN 1 ELSE 0]}, MaxErrors <- 4,
       pc <- bpc, i <- bi, data <- bdata

ASSUME MCAssumption == B!CodeAssumption

NoCode ==
  /\ bpc = 0 /\ codelength = 0 /\ t = 0 /\ alpha_to = 0 /\ index_of = 0 /\ bi = 0
  /\ cycle = 0 /\ zeros = 0 /\ g = 0 /\ bdata = 0 /\ bb = 0 /\ sent = 0 /\ errors = 0
  /\ recd = 0 /\ s = 0 /\ disc = 0 /\ elp = 0 /\ l = 0 /\ u_lu = 0 /\ u = 0

bch == <<bpc, codelength, t, alpha_to, index_of, bi, cycle, zeros, g, bdata, bb, sent,
         errors, recd, s, disc, elp, l, u_lu, u>>

MCInit == Init /\ IF program = "BchCode" THEN B!Init ELSE NoCode

MCNext ==
  \/ Next /\ UNCHANGED bch
  \/ program = "BchCode" /\ B!Next /\ UNCHANGED vars

MCSpec == MCInit /\ [][MCNext]_<<vars, bch>>

-----------------------------------------------------------------------------
\* bch3.c leaves none of its arrays, if they are as long as m and t ask for.
InBounds == program = "BchCode" => B!InBounds

\* decode_bch gives back what enroll.c sent when t bits or fewer are wrong.
CorrectsUpToT == program = "BchCode" => B!CorrectsUpToT

\* decode_bch never corrects a word in part.
WordOrUntouched == program = "BchCode" => B!WordOrUntouched
=============================================================================
