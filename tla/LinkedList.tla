----------------------------- MODULE LinkedList -----------------------------
(***************************************************************************)
(* list.c: a singly linked list with a sentinel in front of the first      *)
(* element and a pointer to the last one.  trampoline.c keeps its          *)
(* program_stack in one.  The heap is modelled cell by cell, so that an    *)
(* element may be freed and its address given out again.  An operation is  *)
(* one step, except for the two loops: list_remove walks to the last       *)
(* element but one, list_finalize pops what is left.  sample.c makes the   *)
(* list with malloc and list_init together, and until then the pointer is  *)
(* NULL.                                                                   *)
(***************************************************************************)
EXTENDS Integers, Sequences, FiniteSets

CONSTANTS Addrs,   \* the addresses malloc has to give, iterators included
          Data,    \* words the users store; the hooks also store NULL
          NULL,
          Garbage  \* what fresh memory holds

ASSUME ListAssumption ==
  /\ IsFiniteSet(Addrs)
  /\ NULL \notin Addrs
  /\ Garbage \notin Data \union {NULL}

VARIABLES made,   \* the list_t exists
          head,   \* its fields
          last,
          heap,   \* what each address holds
          iter,   \* list_remove's iter->curr, NULL outside of it
          busy,   \* the loop the thread is in, if any
          call    \* the last operation: its name, argument and result

vars == <<made, head, last, heap, iter, busy, call>>

Pointers == Addrs \union {NULL}
Unused == [kind |-> "unused", next |-> NULL, data |-> Garbage]
Iterator == [kind |-> "iterator", next |-> NULL, data |-> Garbage]
Elem(next, data) == [kind |-> "elem", next |-> next, data |-> data]

Cells ==
  {Unused, Iterator}
    \union [kind : {"elem"}, next : Pointers, data : Data \union {NULL}]

\* The cell a pointer leads to; nothing is at NULL.
At(p) == IF p \in Addrs THEN heap[p] ELSE Unused

\* Reading or writing through these pointers does no harm.
Good(ptrs) == \A p \in ptrs : At(p).kind = "elem"

Free(a) == heap[a] = Unused

Did(op, arg, out) == [op |-> op, arg |-> arg, out |-> out]

Idle == busy = "no"

\* An access through NULL or to freed memory ends the process.
Fault ==
  /\ busy' = "fault"
  /\ UNCHANGED <<made, head, last, heap, iter, call>>

Init ==
  /\ made = FALSE
  /\ head = NULL
  /\ last = NULL
  /\ heap = [a \in Addrs |-> Unused]
  /\ iter = NULL
  /\ busy = "no"
  /\ call = Did("none", NULL, NULL)

\* Mutant: emptiness is not seen.
IsEmptyMissed == ~made

\* list_is_empty: also of no list, and of a finalized one.
IsEmpty == ~made \/ head = last

-----------------------------------------------------------------------------
\* malloc(sizeof(list_t)) and list_init, or list_init again after
\* list_finalize.
list_init ==
  /\ Idle
  /\ head = NULL
  /\ \E a \in Addrs :
       /\ Free(a)
       /\ heap' = [heap EXCEPT ![a] = Elem(NULL, NULL)]
       /\ made' = TRUE
       /\ head' = a
       /\ last' = a
       /\ call' = Did("init", NULL, NULL)
       /\ UNCHANGED <<iter, busy>>

\* malloc may have nothing to give, to list_init, list_push, list_append or
\* list_iter, and no caller looks.
MallocFails ==
  /\ Idle
  /\ busy' = "oom"
  /\ UNCHANGED <<made, head, last, heap, iter, call>>

\* Without a list the operations on it return at once.
NoList ==
  /\ Idle
  /\ ~made
  /\ \/ \E d \in Data, op \in {"push", "append"} : call' = Did(op, d, NULL)
     \/ \E op \in {"pop", "remove", "head", "last"} :
          call' = Did(op, NULL, NULL)
  /\ UNCHANGED <<made, head, last, heap, iter, busy>>

list_push(d) ==
  /\ Idle
  /\ made
  /\ \E a \in Addrs :
       /\ Free(a)
       /\ IF Good({head})
            THEN /\ heap' = [heap EXCEPT ![a] = Elem(At(head).next, d),
                                         ![head].next = a]
                 /\ last' = IF head = last THEN a ELSE last
                 /\ call' = Did("push", d, NULL)
                 /\ UNCHANGED <<made, head, iter, busy>>
            ELSE Fault

list_append(d) ==
  /\ Idle
  /\ made
  /\ \E a \in Addrs :
       /\ Free(a)
       /\ IF Good({last})
            THEN /\ heap' = [heap EXCEPT ![a] = Elem(NULL, d),
                                         ![last].next = a]
                 /\ last' = a
                 /\ call' = Did("append", d, NULL)
                 /\ UNCHANGED <<made, head, iter, busy>>
            ELSE Fault

\* Mutant: last keeps pointing to the element.
UnlinkKeepLast ==
  LET first == At(head).next
  IN  /\ heap' = [heap EXCEPT ![head].next = At(first).next,
                              ![first] = Unused]
      /\ UNCHANGED last

\* The first element is unlinked and freed.
Unlink ==
  LET first == At(head).next
  IN  /\ heap' = [heap EXCEPT ![head].next = At(first).next,
                              ![first] = Unused]
      /\ last' = IF first = last THEN head ELSE last

PopGood == Good({head, At(head).next})

list_pop ==
  /\ Idle
  /\ made
  /\ IF IsEmpty
       THEN /\ call' = Did("pop", NULL, NULL)
            /\ UNCHANGED <<made, head, last, heap, iter, busy>>
       ELSE IF PopGood
       THEN /\ Unlink
            /\ call' = Did("pop", NULL, At(At(head).next).data)
            /\ UNCHANGED <<made, head, iter, busy>>
       ELSE Fault

\* Mutant: the sentinel's data for the first element's.
HeadOfSentinel ==
  /\ Idle
  /\ made
  /\ call' = Did("head", NULL, IF head = NULL THEN NULL ELSE At(head).data)
  /\ UNCHANGED <<made, head, last, heap, iter, busy>>

list_head ==
  /\ Idle
  /\ made
  /\ call' = Did("head", NULL,
                 IF head = NULL \/ At(head).next = NULL THEN NULL
                 ELSE At(At(head).next).data)
  /\ UNCHANGED <<made, head, last, heap, iter, busy>>

list_last ==
  /\ Idle
  /\ made
  /\ call' = Did("last", NULL, IF last = NULL THEN NULL ELSE At(last).data)
  /\ UNCHANGED <<made, head, last, heap, iter, busy>>

-----------------------------------------------------------------------------
\* Mutant: the iterator starts at the first element.
RemoveFromFirst ==
  /\ Idle
  /\ made
  /\ \E a \in Addrs :
       /\ ~IsEmpty
       /\ Free(a)
       /\ heap' = [heap EXCEPT ![a] = Iterator]
       /\ iter' = At(head).next
       /\ busy' = "remove"
  /\ UNCHANGED <<made, head, last, call>>

\* list_remove up to its loop.  The iterator is never freed.
list_remove ==
  /\ Idle
  /\ made
  /\ \/ /\ IsEmpty
        /\ call' = Did("remove", NULL, NULL)
        /\ UNCHANGED <<heap, iter, busy>>
     \/ \E a \in Addrs :
          /\ ~IsEmpty
          /\ Free(a)
          /\ heap' = [heap EXCEPT ![a] = Iterator]
          /\ iter' = head
          /\ busy' = "remove"
          /\ UNCHANGED call
  /\ UNCHANGED <<made, head, last>>

\* Mutant: list_next returns the next element and stays.
NextStays ==
  /\ busy = "remove"
  /\ At(iter).next # last
  /\ UNCHANGED vars

\* A turn of `while (iter->curr->next != list->last) list_next(iter)`.
\* list_next stays where it is at the end of the list.
list_next ==
  /\ busy = "remove"
  /\ At(iter).next # last
  /\ IF Good({iter})
       THEN /\ iter' = IF At(iter).next = NULL THEN iter ELSE At(iter).next
            /\ UNCHANGED <<made, head, last, heap, busy, call>>
       ELSE Fault

CutLast ==
  /\ busy = "remove"
  /\ At(iter).next = last
  /\ IF Good({iter, last})
       THEN /\ heap' = [heap EXCEPT ![iter].next = NULL, ![last] = Unused]
            /\ last' = iter
            /\ iter' = NULL
            /\ busy' = "no"
            /\ call' = Did("remove", NULL, At(last).data)
            /\ UNCHANGED <<made, head>>
       ELSE Fault

list_finalize ==
  /\ Idle
  /\ made
  /\ busy' = "finalize"
  /\ UNCHANGED <<made, head, last, heap, iter, call>>

FinalizePop ==
  /\ busy = "finalize"
  /\ ~IsEmpty
  /\ IF PopGood THEN Unlink /\ UNCHANGED <<made, head, iter, busy, call>>
                ELSE Fault

\* free(NULL) does nothing.
FinalizeEnd ==
  /\ busy = "finalize"
  /\ IsEmpty
  /\ heap' = [a \in Addrs |-> IF a = head THEN Unused ELSE heap[a]]
  /\ head' = NULL
  /\ last' = NULL
  /\ busy' = "no"
  /\ call' = Did("finalize", NULL, NULL)
  /\ UNCHANGED <<made, iter>>

Loop == list_next \/ CutLast \/ FinalizePop \/ FinalizeEnd

Operation ==
  \/ list_init \/ MallocFails \/ NoList \/ list_pop \/ list_head \/ list_last
  \/ list_remove \/ list_finalize
  \/ \E d \in Data : list_push(d) \/ list_append(d)

Next == Operation \/ Loop

\* One thread: a loop that is begun goes on.
Spec == Init /\ [][Next]_vars /\ WF_vars(Loop)

-----------------------------------------------------------------------------
\* The addresses met from the sentinel on: Walk[0] is the sentinel, and after
\* the end of the chain comes NULL for ever.
Walk[k \in 0 .. Cardinality(Addrs)] ==
  IF k = 0 THEN head ELSE At(Walk[k - 1]).next

Length == Cardinality({k \in DOMAIN Walk : k > 0 /\ Walk[k] # NULL})

Chain == {Walk[k] : k \in DOMAIN Walk} \ {NULL}

Elems == {a \in Addrs : heap[a].kind = "elem"}

\* Types of the variables; nothing an operation returns was read from memory
\* that was never written.
TypeOK ==
  /\ made \in BOOLEAN
  /\ head \in Pointers /\ last \in Pointers /\ iter \in Pointers
  /\ heap \in [Addrs -> Cells]
  /\ busy \in {"no", "remove", "finalize", "fault", "oom"}
  /\ call.out \in Data \union {NULL}

\* The chain from the sentinel ends, ends at last, and holds exactly the
\* elements that are allocated: none is lost, none is freed and still linked.
ChainWhole ==
  /\ Walk[Cardinality(Addrs)] = NULL
  /\ Chain = Elems
  /\ head # NULL => At(last).next = NULL /\ last \in Chain
  /\ head = NULL => last = NULL

\* As long as malloc gives memory, the process dies of a bad pointer only by
\* adding to a finalized list; never of a pointer the list let go stale.
FaultsJustified == busy = "fault" => made /\ head = NULL

\* list_remove's iterator is in the list and before the last element, so its
\* loop finds the last element.
IteratorBehind ==
  busy = "remove" => iter \in Chain /\ iter # last

\* The loops of list_remove and list_finalize end.
LoopsEnd == busy \in {"remove", "finalize"} ~> busy = "no"

\* The list is the two-ended sequence Deque says it is.  Once list_finalize
\* has begun nothing is in it.
Items == [k \in 1 .. Length |-> At(Walk[k]).data]

D == INSTANCE Deque WITH
       status <- IF busy \in {"fault", "oom"} THEN "dead"
                 ELSE IF ~made THEN "absent"
                 ELSE IF head = NULL THEN "closed" ELSE "open",
       items <- IF busy = "finalize" THEN <<>> ELSE Items

RefinesDeque == D!Spec
=============================================================================
