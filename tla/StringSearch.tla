---------------------------- MODULE StringSearch ----------------------------
(***************************************************************************)
(* stringsearch/pbmsrch_large.c: init_search leaves table, len and findme  *)
(* in static variables, strsearch looks for findme in one text after the   *)
(* other.  A turn of either of its loops is a step.                        *)
(***************************************************************************)
EXTENDS Integers, Sequences

CONSTANTS Chars, MaxFind, MaxText, NULL

SearchAssumption == MaxFind \in Nat /\ MaxText \in Nat /\ NULL \notin Nat

Strings(max) == UNION {[1..n -> Chars] : n \in 0..max}

VARIABLES table, len, findme, \* static
          string, pos,        \* of strsearch
          pc, here

vars == <<table, len, findme, string, pos, pc, here>>

Init ==
  /\ table = [c \in Chars |-> 0] /\ len = 0 /\ findme = <<>>
  /\ string = <<>> /\ pos = 0
  /\ pc = "new" /\ here = NULL

\* The distance of the last place of a character from the end.
Shift(find, c) ==
  LET places == {i \in 1..Len(find) : find[i] = c}
  IN  IF places = {} THEN Len(find)
      ELSE Len(find) - CHOOSE i \in places : \A h \in places : h <= i

init_search ==
  /\ pc # "search"
  /\ \E find \in Strings(MaxFind) :
       /\ findme' = find
       /\ len' = Len(find)
       /\ table' = [c \in Chars |-> Shift(find, c)]
  /\ pc' = "idle" /\ here' = NULL
  /\ UNCHANGED <<string, pos>>

\* len - 1 of no character is the largest size_t: past any text.
strsearch ==
  /\ pc \in {"idle", "answered"}
  /\ \E text \in Strings(MaxText) : string' = text
  /\ pos' = IF len = 0 THEN MaxText + MaxFind ELSE len - 1
  /\ pc' = "search" /\ here' = NULL
  /\ UNCHANGED <<table, len, findme>>

NotFound ==
  /\ pc = "search" /\ pos >= Len(string)
  /\ pc' = "answered"
  /\ UNCHANGED <<table, len, findme, string, pos, here>>

Skip ==
  /\ pc = "search" /\ pos < Len(string) /\ table[string[pos + 1]] > 0
  /\ pos' = pos + table[string[pos + 1]]
  /\ UNCHANGED <<table, len, findme, string, pc, here>>

\* Mutant: a mismatch moves on by the length.
AfterMismatchFar == pos + len

AfterMismatch == pos + 1

Compare ==
  /\ pc = "search" /\ pos < Len(string) /\ table[string[pos + 1]] = 0
  /\ IF SubSeq(string, pos - len + 2, pos + 1) = findme
     THEN here' = pos - len + 1 /\ pc' = "answered" /\ UNCHANGED pos
     ELSE pos' = AfterMismatch /\ UNCHANGED <<pc, here>>
  /\ UNCHANGED <<table, len, findme, string>>

Next == init_search \/ strsearch \/ NotFound \/ Skip \/ Compare

Spec == Init /\ [][Next]_vars

-----------------------------------------------------------------------------
Matches(p) == SubSeq(string, p + 1, p + len) = findme

\* The answer is the first place in this text of this findme, whatever the
\* static table was before; NULL only if there is none or nothing is looked for.
FirstFound ==
  pc = "answered" =>
    IF here = NULL THEN len = 0 \/ \A p \in 0..(Len(string) - len) : ~Matches(p)
    ELSE Matches(here) /\ \A p \in 0..(here - 1) : ~Matches(p)
=============================================================================
