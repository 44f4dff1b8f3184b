------------------------------ MODULE Dijkstra ------------------------------
(***************************************************************************)
(* dijkstra/dijkstra_large.c: the queue is first in, first out, so a node  *)
(* is queued again each time a shorter way to it is found, and entries for *)
(* longer ways are still worked off after that.  A step is a turn of the   *)
(* while loop of dijkstra().                                               *)
(***************************************************************************)
EXTENDS Integers, Sequences, FiniteSets, Functions

CONSTANTS NUM_NODES,
          NONE,      \* 9999: no edge, not reached yet, no node before
          Matrices   \* AdjMatrix[i][j], as read from the file

Node == 0..(NUM_NODES - 1)

\* No way through all nodes costs as much as NONE.
DijkstraAssumption ==
  /\ NUM_NODES \in Nat \ {0} /\ NONE \in Nat \ {0}
  /\ \A m \in Matrices, i, j \in Node :
       m[i][j] \in Nat /\ (m[i][j] = NONE \/ (NUM_NODES - 1) * m[i][j] < NONE)

VARIABLES AdjMatrix, chStart,
          rgnNodes, \* of each node: iDist and iPrev
          queue     \* from qHead on: iNode and iDist

vars == <<AdjMatrix, chStart, rgnNodes, queue>>

Unreached == [iDist |-> NONE, iPrev |-> NONE]

Init ==
  /\ AdjMatrix \in Matrices /\ chStart \in Node
  /\ rgnNodes = [i \in Node |-> IF i = chStart THEN [Unreached EXCEPT !.iDist = 0] ELSE Unreached]
  /\ queue = <<[iNode |-> chStart, iDist |-> 0]>>

\* Mutant: a node is reached once.
ReachedFirst(nodes, i, dist) == nodes[i].iDist = NONE

Shorter(nodes, i, dist) == nodes[i].iDist = NONE \/ nodes[i].iDist > dist

\* A turn of the for loop: the edge from the node of item to i.
Relax(so_far, item, i) ==
  LET iCost == AdjMatrix[item.iNode][i]
      dist == item.iDist + iCost
  IN  IF iCost # NONE /\ Shorter(so_far.nodes, i, dist)
      THEN [nodes |-> [so_far.nodes EXCEPT ![i] = [iDist |-> dist, iPrev |-> item.iNode]],
            queue |-> Append(so_far.queue, [iNode |-> i, iDist |-> dist])]
      ELSE so_far

\* The head of the queue with all edges from its node.
Turn ==
  /\ queue # <<>>
  /\ LET worked[i \in 0..NUM_NODES] ==
           IF i = 0 THEN [nodes |-> rgnNodes, queue |-> Tail(queue)]
           ELSE Relax(worked[i - 1], Head(queue), i - 1)
     IN  /\ rgnNodes' = worked[NUM_NODES].nodes
         /\ queue' = worked[NUM_NODES].queue
  /\ UNCHANGED <<AdjMatrix, chStart>>

Next == Turn

Spec == Init /\ [][Next]_vars

-----------------------------------------------------------------------------
\* Ways that visit no node twice.
Ways == {w \in UNION {[1..n -> Node] : n \in 1..NUM_NODES} : IsInjective(w)}

Step(w, n) == AdjMatrix[w[n]][w[n + 1]]

WaysTo(i) ==
  {w \in Ways : /\ w[1] = chStart /\ w[Len(w)] = i
               /\ \A n \in 1..(Len(w) - 1) : Step(w, n) # NONE}

\* The cost up to each node of a way.
Costs(w) ==
  LET upto[n \in 1..Len(w)] == IF n = 1 THEN 0 ELSE upto[n - 1] + Step(w, n - 1) IN upto

Cost(w) == Costs(w)[Len(w)]

\* When the queue is empty each node has the cost of the cheapest way, NONE if
\* there is none, although entries of ways given up were worked off in between.
EndsShortest ==
  queue = <<>> =>
    \A i \in Node :
      IF WaysTo(i) = {} THEN rgnNodes[i].iDist = NONE
      ELSE /\ \E w \in WaysTo(i) : Cost(w) = rgnNodes[i].iDist
           /\ \A w \in WaysTo(i) : Cost(w) >= rgnNodes[i].iDist
=============================================================================
