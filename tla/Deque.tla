------------------------------- MODULE Deque -------------------------------
(***************************************************************************)
(* What list.c promises its users: a sequence with two ends, of which each *)
(* operation reads or changes one.  Where there is no list (NULL) every    *)
(* operation does nothing; a finalized list reads as empty.  Adding to a   *)
(* finalized list kills the process, and so does running out of memory.    *)
(***************************************************************************)
EXTENDS Integers, Sequences

CONSTANTS Data, NULL

VARIABLES status,  \* "absent", "open", "closed" or "dead"
          items,
          call     \* the last operation: its name, argument and result

vars == <<status, items, call>>

Did(op, arg, out) == [op |-> op, arg |-> arg, out |-> out]

\* First and last item, NULL when there is none.
First == IF items = <<>> THEN NULL ELSE Head(items)
Final == IF items = <<>> THEN NULL ELSE items[Len(items)]

Init ==
  /\ status = "absent"
  /\ items = <<>>
  /\ call = Did("none", NULL, NULL)

Die ==
  /\ status # "dead"
  /\ status' = "dead"
  /\ UNCHANGED <<items, call>>

Open ==
  /\ status \in {"absent", "closed"}
  /\ status' = "open"
  /\ call' = Did("init", NULL, NULL)
  /\ UNCHANGED items

\* Finalizing loses the items first.
Clear ==
  /\ status = "open"
  /\ items' = <<>>
  /\ UNCHANGED <<status, call>>

Close ==
  /\ status \in {"open", "closed"}
  /\ items = <<>>
  /\ status' = "closed"
  /\ call' = Did("finalize", NULL, NULL)
  /\ UNCHANGED items

\* Adding: nothing happens without a list.
Add(op, d, new) ==
  /\ status \in {"absent", "open"}
  /\ items' = IF status = "open" THEN new ELSE items
  /\ call' = Did(op, d, NULL)
  /\ UNCHANGED status

Push(d) == Add("push", d, <<d>> \o items)
Append_(d) == Add("append", d, Append(items, d))

\* Taking and looking: NULL from an empty, a finalized or no list.
Take(op, out, rest) ==
  /\ status # "dead"
  /\ items' = IF items = <<>> THEN <<>> ELSE rest
  /\ call' = Did(op, NULL, out)
  /\ UNCHANGED status

Pop == Take("pop", First, Tail(items))
Remove == Take("remove", Final, SubSeq(items, 1, Len(items) - 1))
Look == Take("head", First, items) \/ Take("last", Final, items)

Next ==
  \/ Open \/ Clear \/ Close \/ Die \/ Pop \/ Remove \/ Look
  \/ \E d \in Data : Push(d) \/ Append_(d)

Spec == Init /\ [][Next]_vars
=============================================================================
