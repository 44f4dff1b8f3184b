---------------------------- MODULE MCLinkedList ----------------------------
(***************************************************************************)
(* A heap of four cells: a sentinel and three elements, or fewer elements  *)
(* and the iterators list_remove leaves.  The words include NULL.          *)
(***************************************************************************)
EXTENDS LinkedList

CONSTANT token

Words == {token, NULL}
=============================================================================
