--------------------------- MODULE WorkloadProofs ---------------------------
(***************************************************************************)
(* What the programs that run alone compute, for inputs of any size:       *)
(* strsearch finds the first place of the word, sha_stream hashes the      *)
(* blocks of the padded file, usqrt has the root, RC4 gives back the text, *)
(* dijkstra() ends with the cheapest ways, a token tells its call apart    *)
(* and is decoded, and the assembly of a hook does what the instruction it *)
(* replaces would.                                                         *)
(***************************************************************************)
EXTENDS Algorithms, SequenceTheorems, FiniteSetTheorems, Inductions

-----------------------------------------------------------------------------
(* strsearch.                                                              *)

SearchTypes ==
  /\ findme \in S!Strings(MaxFind) /\ len = Len(findme)
  /\ string \in S!Strings(MaxText)
  /\ pos \in Nat
  /\ here \in Nat \union {NULL}
  /\ turn \in {"new", "idle", "search", "answered"}

\* The static table is that of the word; before the first call of init_search
\* it is that of no word.
TableFor(word) == [c \in Chars |-> S!Shift(word, c)]

TableOfWord == table = TableFor(findme)

\* Nothing is found yet, and the word is at no place that ends before pos.
NoneBefore ==
  turn = "search" =>
    /\ here = NULL
    /\ IF len = 0 THEN pos >= Len(string)
       ELSE /\ pos >= len - 1
            /\ \A p \in Nat : p + len <= pos /\ p + len <= Len(string) => ~S!Matches(p)

SearchInv == SearchTypes /\ TableOfWord /\ NoneBefore /\ S!FirstFound

\* A character is at no place of the word that is nearer to its end.
LEMMA ShiftIs ==
  ASSUME NEW V, NEW find \in Seq(V), NEW c
  PROVE  /\ S!Shift(find, c) \in 0..Len(find)
         /\ \A i \in 1..Len(find) : find[i] = c => i <= Len(find) - S!Shift(find, c)
<1> DEFINE places == {i \in 1..Len(find) : find[i] = c}
           n == Len(find)
           last == CHOOSE i \in places : \A h \in places : h <= i
<1>1. n \in Nat
  OBVIOUS
<1>2. CASE places = {}
  <2>1. S!Shift(find, c) = n
    BY <1>2 DEF S!Shift
  <2>2. \A i \in 1..n : find[i] # c
    BY <1>2
  <2> QED
    BY <1>1, <2>1, <2>2
<1>3. CASE places # {}
  <2>1. \E i \in places : \A h \in places : h <= i
    <3> DEFINE far == {n - i : i \in places}
    <3>1. far \in SUBSET Nat /\ far # {}
      BY <1>1, <1>3
    <3>2. PICK d \in far : \A e \in far : d <= e
      BY <3>1, LeastElement
    <3>3. PICK i \in places : d = n - i
      BY <3>2
    <3>4. \A h \in places : n - i <= n - h
      BY <3>2, <3>3
    <3>5. \A h \in places : h <= i
      BY <1>1, <3>3, <3>4
    <3> QED
      BY <3>3, <3>5
  <2>2. last \in places /\ \A h \in places : h <= last
    BY <2>1
  <2>3. S!Shift(find, c) = n - last
    BY <1>3 DEF S!Shift
  <2> HIDE DEF last
  <2>4. last \in 1..n
    BY <2>2
  <2> QED
    BY <1>1, <2>2, <2>3, <2>4
<1> QED
  BY <1>2, <1>3

LEMMA StringsAre ==
  ASSUME NEW max \in Nat, NEW w \in S!Strings(max)
  PROVE  w \in Seq(Chars) /\ Len(w) \in 0..max /\ \A i \in 1..Len(w) : w[i] \in Chars
<1>1. PICK n \in 0..max : w \in [1..n -> Chars]
  BY DEF S!Strings
<1> QED
  BY <1>1

\* What is found where a character stands.
LEMMA MatchedThere ==
  ASSUME NEW V, NEW w \in Seq(V), NEW u \in Seq(V), NEW p \in Nat,
         p + Len(u) <= Len(w), SubSeq(w, p + 1, p + Len(u)) = u,
         NEW j \in 1..Len(u)
  PROVE  w[p + j] = u[j]
<1>1. SubSeq(w, p + 1, p + Len(u))[j] = w[(p + 1) + j - 1]
  OBVIOUS
<1>2. (p + 1) + j - 1 = p + j
  OBVIOUS
<1> QED
  BY <1>1, <1>2

LEMMA SearchInit ==
  ASSUME S!SearchAssumption, S!Init
  PROVE  SearchInv
<1>1. /\ table = [c \in Chars |-> 0] /\ len = 0 /\ findme = <<>>
      /\ string = <<>> /\ pos = 0 /\ turn = "new" /\ here = NULL
      /\ MaxFind \in Nat /\ MaxText \in Nat
  BY DEF S!Init, S!SearchAssumption
<1>2. <<>> \in S!Strings(MaxFind) /\ <<>> \in S!Strings(MaxText)
  <2>1. <<>> \in [1..0 -> Chars] /\ 0 \in 0..MaxFind /\ 0 \in 0..MaxText
    BY <1>1
  <2> QED
    BY <2>1, Zenon DEF S!Strings
<1>3. SearchTypes
  BY <1>1, <1>2 DEF SearchTypes
<1>4. TableOfWord
  <2>1. \A c : S!Shift(<<>>, c) = 0
    BY DEF S!Shift
  <2> QED
    BY <1>1, <2>1 DEF TableOfWord, TableFor
<1> QED
  BY <1>1, <1>3, <1>4 DEF SearchInv, NoneBefore, S!FirstFound

\* Where the next character stands and what the table has for it.
LEMMA Turn ==
  ASSUME S!SearchAssumption, SearchInv, turn = "search", pos < Len(string)
  PROVE  /\ findme \in Seq(Chars) /\ string \in Seq(Chars) /\ len = Len(findme)
         /\ len \in Nat \ {0} /\ pos \in Nat /\ pos >= len - 1
         /\ pos + 1 \in 1..Len(string) /\ Len(string) \in Nat
         /\ here = NULL /\ table[string[pos + 1]] \in 0..len
         /\ \A i \in 1..len : findme[i] = string[pos + 1]
                                => i <= len - table[string[pos + 1]]
         /\ \A p \in Nat : p + len <= pos /\ p + len <= Len(string) => ~S!Matches(p)
<1>1. MaxFind \in Nat /\ MaxText \in Nat
  BY DEF S!SearchAssumption
<1>2. /\ findme \in Seq(Chars) /\ string \in Seq(Chars) /\ len = Len(findme)
      /\ pos \in Nat /\ len \in Nat /\ Len(string) \in Nat
      /\ \A i \in 1..Len(string) : string[i] \in Chars
  BY <1>1, StringsAre DEF SearchInv, SearchTypes
<1>3. len # 0 /\ pos >= len - 1 /\ here = NULL
      /\ \A p \in Nat : p + len <= pos /\ p + len <= Len(string) => ~S!Matches(p)
  BY <1>2 DEF SearchInv, NoneBefore
<1>4. pos + 1 \in 1..Len(string)
  BY <1>2
<1>5. table[string[pos + 1]] = S!Shift(findme, string[pos + 1])
  BY <1>2, <1>4 DEF SearchInv, TableOfWord, TableFor
<1> QED
  BY <1>2, <1>3, <1>4, <1>5, ShiftIs

\* A match is not passed over by the distance in the table.
LEMMA SkipKeeps ==
  ASSUME S!SearchAssumption, SearchInv, S!Skip
  PROVE  SearchInv'
<1> DEFINE c == string[pos + 1]
           shift == table[c]
<1>1. /\ turn = "search" /\ pos < Len(string) /\ shift > 0
      /\ pos' = pos + shift
      /\ UNCHANGED <<table, len, findme, string, turn, here>>
  BY DEF S!Skip
<1>2. /\ findme \in Seq(Chars) /\ string \in Seq(Chars) /\ len = Len(findme)
      /\ len \in Nat \ {0} /\ pos \in Nat /\ pos >= len - 1
      /\ pos + 1 \in 1..Len(string) /\ Len(string) \in Nat
      /\ here = NULL /\ shift \in 0..len
      /\ \A i \in 1..len : findme[i] = c => i <= len - shift
      /\ \A p \in Nat : p + len <= pos /\ p + len <= Len(string) => ~S!Matches(p)
  BY <1>1, Turn
<1> HIDE DEF c, shift
<1>3. ASSUME NEW p \in Nat, p + len <= pos + shift, p + len <= Len(string), S!Matches(p)
      PROVE  FALSE
  <2>1. CASE p + len <= pos
    BY <1>2, <1>3, <2>1
  <2>2. CASE p + len > pos
    <3>1. (pos + 1) - p \in 1..len /\ p + ((pos + 1) - p) = pos + 1
      BY <1>2, <1>3, <2>2
    <3>2. string[p + ((pos + 1) - p)] = findme[(pos + 1) - p]
      BY <1>2, <1>3, <3>1, MatchedThere DEF S!Matches
    <3>3. (pos + 1) - p <= len - shift
      BY <1>2, <3>1, <3>2 DEF c
    <3> QED
      BY <1>2, <1>3, <3>3
  <2> QED
    BY <1>2, <1>3, <2>1, <2>2
<1>4. pos' \in Nat /\ pos' >= len - 1
  BY <1>1, <1>2
<1>5. NoneBefore'
  <2>1. \A p : S!Matches(p)' <=> S!Matches(p)
    BY <1>1 DEF S!Matches
  <2> QED
    BY <1>1, <1>2, <1>3, <1>4, <2>1 DEF NoneBefore
<1>6. SearchTypes'
  BY <1>1, <1>4 DEF SearchInv, SearchTypes, S!Strings
<1>7. TableOfWord'
  BY <1>1 DEF SearchInv, TableOfWord
<1> QED
  BY <1>1, <1>5, <1>6, <1>7 DEF SearchInv, S!FirstFound

\* The word is compared where its last character stands.
LEMMA CompareKeeps ==
  ASSUME S!SearchAssumption, SearchInv, S!Compare
  PROVE  SearchInv'
<1>1. /\ turn = "search" /\ pos < Len(string)
      /\ UNCHANGED <<table, len, findme, string>>
      /\ IF SubSeq(string, pos - len + 2, pos + 1) = findme
         THEN here' = pos - len + 1 /\ turn' = "answered" /\ pos' = pos
         ELSE pos' = pos + 1 /\ turn' = turn /\ here' = here
  BY DEF S!Compare, S!AfterMismatch
<1>2. /\ len \in Nat \ {0} /\ pos \in Nat /\ pos >= len - 1
      /\ here = NULL /\ Len(string) \in Nat
      /\ \A p \in Nat : p + len <= pos /\ p + len <= Len(string) => ~S!Matches(p)
  BY <1>1, Turn
<1> DEFINE spot == pos - len + 1
<1>3. /\ spot \in Nat /\ spot + len = pos + 1 /\ spot + 1 = pos - len + 2
      /\ \A p \in Nat : p + len <= pos + 1 => p + len <= pos \/ p = spot
  BY <1>2
<1>4. S!Matches(spot) <=> SubSeq(string, pos - len + 2, pos + 1) = findme
  BY <1>3, Zenon DEF S!Matches
<1> HIDE DEF spot
<1>5. \A p : S!Matches(p)' <=> S!Matches(p)
  BY <1>1 DEF S!Matches
<1>6. TableOfWord'
  BY <1>1 DEF SearchInv, TableOfWord
<1>7. CASE S!Matches(spot)
  <2>1. here' = spot /\ turn' = "answered" /\ pos' = pos
    BY <1>1, <1>4, <1>7 DEF spot
  <2>2. SearchTypes'
    BY <1>1, <1>3, <2>1 DEF SearchInv, SearchTypes, S!Strings
  <2>3. NULL \notin Nat
    BY DEF S!SearchAssumption
  <2>4. \A p \in 0..(spot - 1) : ~S!Matches(p)
    <3>1. \A p \in 0..(spot - 1) : p \in Nat /\ p + len <= pos /\ p + len <= Len(string)
      BY <1>1, <1>2, <1>3
    <3> QED
      BY <1>2, <3>1
  <2>5. S!FirstFound'
    BY <1>3, <1>5, <1>7, <2>1, <2>3, <2>4 DEF S!FirstFound
  <2> QED
    BY <1>6, <2>1, <2>2, <2>5 DEF SearchInv, NoneBefore
<1>8. CASE ~S!Matches(spot)
  <2>1. pos' = pos + 1 /\ turn' = turn /\ here' = here
    BY <1>1, <1>4, <1>8
  <2>2. SearchTypes'
    BY <1>1, <1>2, <2>1 DEF SearchInv, SearchTypes, S!Strings
  <2>3. \A p \in Nat : p + len <= pos' /\ p + len <= Len(string) => ~S!Matches(p)
    BY <1>2, <1>3, <1>8, <2>1
  <2>4. NoneBefore'
    BY <1>1, <1>2, <1>5, <2>1, <2>3 DEF NoneBefore
  <2> QED
    BY <1>1, <1>6, <2>1, <2>2, <2>4 DEF SearchInv, S!FirstFound
<1> QED
  BY <1>7, <1>8

\* Past the end of the text there is no place left.
LEMMA NotFoundKeeps ==
  ASSUME S!SearchAssumption, SearchInv, S!NotFound
  PROVE  SearchInv'
<1>1. /\ turn = "search" /\ pos >= Len(string) /\ turn' = "answered"
      /\ UNCHANGED <<table, len, findme, string, pos, here>>
  BY DEF S!NotFound
<1>2. MaxFind \in Nat /\ MaxText \in Nat
  BY DEF S!SearchAssumption
<1>3. len \in Nat /\ Len(string) \in Nat /\ pos \in Nat
  BY <1>2, StringsAre DEF SearchInv, SearchTypes
<1>4. len = 0 \/ \A p \in 0..(Len(string) - len) : ~S!Matches(p)
  <2>1. CASE len # 0
    <3>1. \A p \in Nat : p + len <= pos /\ p + len <= Len(string) => ~S!Matches(p)
      BY <1>1, <2>1 DEF SearchInv, NoneBefore
    <3>2. \A p \in 0..(Len(string) - len) :
            p \in Nat /\ p + len <= pos /\ p + len <= Len(string)
      BY <1>1, <1>3
    <3> QED
      BY <3>1, <3>2
  <2> QED
    BY <2>1
<1>5. here = NULL
  BY <1>1 DEF SearchInv, NoneBefore
<1>6. \A p : S!Matches(p)' <=> S!Matches(p)
  BY <1>1 DEF S!Matches
<1>7. S!FirstFound'
  BY <1>1, <1>4, <1>5, <1>6 DEF S!FirstFound
<1>8. SearchTypes'
  BY <1>1 DEF SearchInv, SearchTypes, S!Strings
<1>9. TableOfWord'
  BY <1>1 DEF SearchInv, TableOfWord
<1> QED
  BY <1>1, <1>7, <1>8, <1>9 DEF SearchInv, NoneBefore

\* A call of init_search leaves nothing of the word before.
LEMMA NewWordKeeps ==
  ASSUME S!SearchAssumption, SearchInv, S!init_search
  PROVE  SearchInv'
<1>1. PICK find \in S!Strings(MaxFind) :
        findme' = find /\ len' = Len(find) /\ table' = [c \in Chars |-> S!Shift(find, c)]
  BY DEF S!init_search
<1>2. turn' = "idle" /\ here' = NULL /\ UNCHANGED <<string, pos>>
  BY DEF S!init_search
<1>3. SearchTypes'
  BY <1>1, <1>2 DEF SearchInv, SearchTypes, S!Strings
<1>4. TableOfWord'
  BY <1>1 DEF TableOfWord, TableFor
<1> QED
  BY <1>2, <1>3, <1>4 DEF SearchInv, NoneBefore, S!FirstFound

\* A call of strsearch starts at the last character of the word.
LEMMA NewTextKeeps ==
  ASSUME S!SearchAssumption, SearchInv, S!strsearch
  PROVE  SearchInv'
<1>1. PICK text \in S!Strings(MaxText) : string' = text
  BY DEF S!strsearch
<1>2. /\ pos' = IF len = 0 THEN MaxText + MaxFind ELSE len - 1
      /\ turn' = "search" /\ here' = NULL
      /\ UNCHANGED <<table, len, findme>>
  BY DEF S!strsearch
<1>3. MaxFind \in Nat /\ MaxText \in Nat
  BY DEF S!SearchAssumption
<1>4. len \in Nat /\ Len(text) \in 0..MaxText
  BY <1>1, <1>3, StringsAre DEF SearchInv, SearchTypes
<1>5. pos' \in Nat /\ (len = 0 => pos' >= Len(text)) /\ (len # 0 => pos' = len - 1)
  BY <1>2, <1>3, <1>4
<1>6. SearchTypes'
  BY <1>1, <1>2, <1>5 DEF SearchInv, SearchTypes, S!Strings
<1>7. TableOfWord'
  BY <1>2 DEF SearchInv, TableOfWord
<1>8. NoneBefore'
  <2>1. \A p \in Nat : len # 0 => ~(p + len <= pos')
    BY <1>4, <1>5
  <2> QED
    BY <1>1, <1>2, <1>4, <1>5, <2>1 DEF NoneBefore
<1> QED
  BY <1>2, <1>6, <1>7, <1>8 DEF SearchInv, S!FirstFound

\* strsearch of pbmsrch_large.c answers with the first place in the text of the
\* word init_search was last called with, and with NULL only if there is none
\* or the word is empty, for words and texts of any length.
THEOREM FindsFirst == Spec => []FirstFound
<1> DEFINE Inv == program = "StringSearch" => SearchInv
<1>0. S!SearchAssumption
  BY AlgorithmsAssumption
<1>1. Init => Inv
  BY <1>0, SearchInit DEF Init
<1>2. SearchInv /\ [S!Next]_(S!vars) => SearchInv'
  <2> SUFFICES ASSUME SearchInv, [S!Next]_(S!vars)
               PROVE  SearchInv'
    OBVIOUS
  <2>1. CASE S!init_search
    BY <2>1, NewWordKeeps, <1>0
  <2>2. CASE S!strsearch
    BY <2>2, NewTextKeeps, <1>0
  <2>3. CASE S!NotFound
    BY <2>3, NotFoundKeeps, <1>0
  <2>4. CASE S!Skip
    BY <2>4, SkipKeeps, <1>0
  <2>5. CASE S!Compare
    BY <2>5, CompareKeeps, <1>0
  <2>6. CASE UNCHANGED S!vars
    <3>1. UNCHANGED <<table, len, findme, string, pos, turn, here>>
      BY <2>6 DEF S!vars
    <3>2. SearchTypes'
      BY <3>1 DEF SearchInv, SearchTypes, S!Strings
    <3>3. TableOfWord'
      BY <3>1 DEF SearchInv, TableOfWord
    <3>4. \A p : S!Matches(p)' <=> S!Matches(p)
      BY <3>1 DEF S!Matches
    <3>5. NoneBefore'
      BY <3>1, <3>4 DEF SearchInv, NoneBefore
    <3>6. S!FirstFound'
      BY <3>1, <3>4 DEF SearchInv, S!FirstFound
    <3> QED
      BY <3>2, <3>3, <3>5, <3>6 DEF SearchInv
  <2> QED
    BY <2>1, <2>2, <2>3, <2>4, <2>5, <2>6 DEF S!Next
<1>3. Inv /\ [Next]_vars => Inv'
  <2> SUFFICES ASSUME Inv, [Next]_vars, program' = "StringSearch"
               PROVE  SearchInv'
    OBVIOUS
  <2>1. program = "StringSearch" /\ (S!Next \/ UNCHANGED search)
    BY DEF Next, vars, search
  <2>2. [S!Next]_(S!vars)
    BY <2>1 DEF S!vars, search
  <2> QED
    BY <1>2, <2>1, <2>2
<1>4. Inv => FirstFound
  BY DEF SearchInv, FirstFound
<1> QED
  BY <1>1, <1>3, <1>4, PTL DEF Spec

-----------------------------------------------------------------------------
(* Quotients and remainders.                                               *)

LEMMA DivMod ==
  ASSUME NEW a \in Nat, NEW b \in Nat \ {0}
  PROVE  /\ a = ((a \div b) * b) + (a % b) /\ a % b \in 0..(b - 1)
         /\ a \div b \in Nat /\ (a \div b) * b \in Nat
<1>1. a = ((a \div b) * b) + (a % b) /\ a % b \in 0..(b - 1) /\ a \div b \in Nat
  OBVIOUS
<1>2. \A x \in Nat : x * b \in Nat
  OBVIOUS
<1> QED
  BY <1>1, <1>2

LEMMA TimesOrdered ==
  ASSUME NEW b \in Nat, NEW x \in Nat, NEW y \in Nat, x < y
  PROVE  /\ x * b \in Nat /\ y * b \in Nat /\ (x + 1) * b = (x * b) + b
         /\ (x * b) + b <= y * b
<1>1. y - x - 1 \in Nat /\ y = x + 1 + (y - x - 1)
  OBVIOUS
<1>2. PICK d \in Nat : y = x + 1 + d
  BY <1>1
<1>3. y * b = (x * b) + b + (d * b) /\ d * b \in Nat
  BY <1>2
<1>4. x * b \in Nat /\ (x + 1) * b = (x * b) + b
  OBVIOUS
<1> QED
  BY <1>3, <1>4

LEMMA DivIs ==
  ASSUME NEW b \in Nat \ {0}, NEW q \in Nat, NEW r \in 0..(b - 1)
  PROVE  /\ (q * b) + r \in Nat
         /\ ((q * b) + r) \div b = q
         /\ ((q * b) + r) % b = r
<1> DEFINE a == (q * b) + r
           x == q * b
           y == (a \div b) * b
<1>1. a \in Nat /\ x \in Nat /\ a = x + r
  OBVIOUS
<1>2. a = y + (a % b) /\ a % b \in 0..(b - 1) /\ a \div b \in Nat
  BY <1>1, DivMod
<1>3. y \in Nat /\ (q < a \div b => x + b <= y) /\ (a \div b < q => y + b <= x)
  BY <1>2, TimesOrdered
<1> HIDE DEF a, x
<1>4. ~(q < a \div b) /\ ~(a \div b < q)
  <2> HIDE DEF y
  <2> QED
    BY <1>1, <1>2, <1>3
<1>5. a \div b = q
  BY <1>2, <1>4
<1>6. y = x
  BY <1>5 DEF x
<1>7. a % b = r
  <2> HIDE DEF y
  <2> QED
    BY <1>1, <1>2, <1>3, <1>6
<1> QED
  BY <1>1, <1>5, <1>7 DEF a

-----------------------------------------------------------------------------
(* sha_stream.                                                             *)

Bsize == SHA_BLOCKSIZE

\* The first n blocks of the file.
FileBlocks(n) == [m \in 1..n |-> [k \in 1..Bsize |-> H!Byte(((m - 1) * Bsize) + k)]]

\* All of the file that was read is in whole blocks, but for the bytes at the
\* beginning of data; the two counts are the bits read.
Streaming ==
  /\ at = fin \/ at % Bsize = 0
  /\ count_lo = (8 * at) % LONG /\ count_hi = (8 * at) \div LONG
  /\ data = [k \in 1..Bsize |-> data[k]]
  /\ \A k \in 1..(at % Bsize) : data[k] = H!Byte(((at \div Bsize) * Bsize) + k)
  /\ blocks = FileBlocks(at \div Bsize)

ShaInv ==
  /\ fin \in Nat /\ at \in 0..fin
  /\ stage \in {"stream", "done"}
  /\ stage = "stream" => Streaming
  /\ H!BlocksOfFile

LEMMA ShaSizes ==
  ASSUME H!ShaAssumption
  PROVE  /\ Bsize \in Nat \ {0} /\ Bsize > 2
         /\ BLOCK_SIZE \in Nat \ {0} /\ BLOCK_SIZE % Bsize = 0
         /\ LONG \in Nat \ {0} /\ LONG % (8 * Bsize) = 0
         /\ MaxFile \in Nat
  BY DEF H!ShaAssumption, Bsize

LEMMA ShaInit ==
  ASSUME H!ShaAssumption, H!Init
  PROVE  ShaInv
<1>1. /\ Bsize \in Nat \ {0} /\ LONG \in Nat \ {0} /\ MaxFile \in Nat
  BY ShaSizes
<1>2. /\ fin \in 0..MaxFile /\ at = 0 /\ stage = "stream"
      /\ data = [k \in 1..Bsize |-> <<"junk">>]
      /\ count_lo = 0 /\ count_hi = 0 /\ blocks = <<>>
  BY DEF H!Init, Bsize
<1>3. \A b \in Nat \ {0} : 0 \div b = 0 /\ 0 % b = 0
  <2> TAKE b \in Nat \ {0}
  <2>1. 0 \in 0..(b - 1) /\ (0 * b) + 0 = 0
    OBVIOUS
  <2> QED
    BY <2>1, DivIs
<1>4. FileBlocks(0) = <<>>
  BY DEF FileBlocks
<1>5. data = [k \in 1..Bsize |-> data[k]]
  BY <1>2
<1>6. Streaming
  BY <1>1, <1>2, <1>3, <1>4, <1>5 DEF Streaming
<1> QED
  BY <1>1, <1>2, <1>6 DEF ShaInv, H!BlocksOfFile

\* count_hi with the carry and count_lo are the number of bits, in two words.
LEMMA CountAdds ==
  ASSUME NEW n \in Nat, NEW bits \in Nat, LONG \in Nat \ {0},
         count_lo = n % LONG, count_hi = n \div LONG
  PROVE  /\ (count_lo + bits) % LONG = (n + bits) % LONG
         /\ H!High(bits) = (n + bits) \div LONG
<1> DEFINE h == count_hi
           lo == count_lo
           d == bits \div LONG
           e == bits % LONG
           x == h * LONG
           y == d * LONG
           sum == (lo + bits) % LONG
<1>1. n = x + lo /\ lo \in 0..(LONG - 1) /\ h \in Nat /\ x \in Nat
  BY DivMod, Zenon
<1>2. bits = y + e /\ e \in 0..(LONG - 1) /\ d \in Nat /\ y \in Nat
  BY DivMod, Zenon
<1>3. (h + d) * LONG = x + y /\ (h + d + 1) * LONG = x + y + LONG
      /\ (d + 1) * LONG = y + LONG
  BY <1>1, <1>2
<1>4. H!High(bits) = h + (IF sum < lo THEN 1 ELSE 0) + d
  BY DEF H!High
<1> HIDE DEF h, lo, d, e, x, y
<1>5. CASE lo + e < LONG
  <2>1. lo + e \in 0..(LONG - 1)
    BY <1>1, <1>2, <1>5
  <2>2. lo + bits = y + (lo + e) /\ n + bits = (x + y) + (lo + e) /\ h + d \in Nat
    BY <1>1, <1>2
  <2>3. (y + (lo + e)) % LONG = lo + e
    BY <1>2, <2>1, DivIs DEF y
  <2>4. (((h + d) * LONG) + (lo + e)) % LONG = lo + e
        /\ (((h + d) * LONG) + (lo + e)) \div LONG = h + d
    BY <2>1, <2>2, DivIs
  <2>5. sum = lo + e
    BY <2>2, <2>3
  <2>6. ~(sum < lo)
    BY <1>1, <1>2, <2>5
  <2>7. H!High(bits) = h + d
    BY <1>1, <1>2, <1>4, <2>6
  <2> QED
    BY <1>3, <2>2, <2>4, <2>5, <2>7 DEF lo
<1>6. CASE lo + e >= LONG
  <2>1. lo + e - LONG \in 0..(LONG - 1)
    BY <1>1, <1>2, <1>6
  <2>2. lo + bits = (y + LONG) + (lo + e - LONG)
        /\ n + bits = (x + y + LONG) + (lo + e - LONG) /\ h + d + 1 \in Nat /\ d + 1 \in Nat
    BY <1>1, <1>2
  <2>3. (((d + 1) * LONG) + (lo + e - LONG)) % LONG = lo + e - LONG
    BY <2>1, <2>2, DivIs
  <2>4. (((h + d + 1) * LONG) + (lo + e - LONG)) % LONG = lo + e - LONG
        /\ (((h + d + 1) * LONG) + (lo + e - LONG)) \div LONG = h + d + 1
    BY <2>1, <2>2, DivIs
  <2>5. sum = lo + e - LONG
    BY <1>3, <2>2, <2>3
  <2>6. sum < lo
    BY <1>1, <1>2, <2>5
  <2>7. H!High(bits) = h + d + 1
    BY <1>1, <1>2, <1>4, <2>6
  <2> QED
    BY <1>3, <2>2, <2>4, <2>5, <2>7 DEF lo
<1> QED
  BY <1>1, <1>2, <1>5, <1>6

LEMMA JoinedSeq ==
  ASSUME NEW F, NEW q \in Nat, NEW w \in Nat
  PROVE  [m \in 1..q |-> F[m]] \o [n \in 1..w |-> F[q + n]] = [m \in 1..(q + w) |-> F[m]]
<1> DEFINE f == [m \in 1..q |-> F[m]]
           g == [n \in 1..w |-> F[q + n]]
           h == [m \in 1..(q + w) |-> F[m]]
           V == {F[m] : m \in 1..(q + w)}
<1>1. f \in Seq(V) /\ g \in Seq(V) /\ Len(f) = q /\ Len(g) = w
      /\ (\A m \in 1..q : f[m] = F[m]) /\ \A n \in 1..w : g[n] = F[q + n]
  OBVIOUS
<1>2. h \in Seq(V) /\ Len(h) = q + w /\ \A m \in 1..(q + w) : h[m] = F[m]
  OBVIOUS
<1> HIDE DEF f, g, h, V
<1>3. /\ f \o g \in Seq(V) /\ Len(f \o g) = q + w
      /\ \A m \in 1..(q + w) : (f \o g)[m] = IF m <= q THEN f[m] ELSE g[m - q]
  BY <1>1, ConcatProperties
<1>4. ASSUME NEW m \in 1..(q + w)
      PROVE  (f \o g)[m] = h[m]
  <2>1. CASE m <= q
    BY <1>1, <1>2, <1>3, <2>1
  <2>2. CASE m > q
    <3>1. m - q \in 1..w /\ q + (m - q) = m
      BY <2>2
    <3>2. g[m - q] = F[m]
      BY <1>1, <3>1
    <3> QED
      BY <1>2, <1>3, <2>2, <3>2
  <2>3. m <= q \/ m > q
    OBVIOUS
  <2> QED
    BY <2>1, <2>2, <2>3, Zenon
<1>5. f \o g = h
  BY <1>2, <1>3, <1>4, SeqEqual
<1> QED
  BY <1>5 DEF f, g, h

\* Blocks that follow one another in the file.
LEMMA BlocksJoin ==
  ASSUME Bsize \in Nat \ {0}, NEW q \in Nat, NEW w \in Nat, NEW more,
         more = [n \in 1..w |-> [k \in 1..Bsize |-> H!Byte(((q + n - 1) * Bsize) + k)]]
  PROVE  FileBlocks(q) \o more = FileBlocks(q + w)
<1> DEFINE Block(m) == [k \in 1..Bsize |-> H!Byte(((m - 1) * Bsize) + k)]
           F == [m \in Nat |-> Block(m)]
<1>1. FileBlocks(q) = [m \in 1..q |-> Block(m)]
      /\ FileBlocks(q + w) = [m \in 1..(q + w) |-> Block(m)]
  BY Zenon DEF FileBlocks
<1>2. more = [n \in 1..w |-> Block(q + n)]
  OBVIOUS
<1> HIDE DEF Block
<1>3. (\A m \in 1..(q + w) : F[m] = Block(m)) /\ (\A m \in 1..q : F[m] = Block(m))
      /\ (\A n \in 1..w : F[q + n] = Block(q + n))
  OBVIOUS
<1> HIDE DEF F
<1>4. FileBlocks(q) = [m \in 1..q |-> F[m]]
  BY <1>1, <1>3, Zenon
<1>5. FileBlocks(q + w) = [m \in 1..(q + w) |-> F[m]]
  BY <1>1, <1>3, Zenon
<1>6. more = [n \in 1..w |-> F[q + n]]
  BY <1>2, <1>3, Zenon
<1>7. [m \in 1..q |-> F[m]] \o [n \in 1..w |-> F[q + n]] = [m \in 1..(q + w) |-> F[m]]
  BY JoinedSeq
<1> QED
  BY <1>4, <1>5, <1>6, <1>7, Zenon

LEMMA UpdateKeeps ==
  ASSUME H!ShaAssumption, ShaInv, H!sha_update
  PROVE  ShaInv'
<1> DEFINE count == IF fin - at < BLOCK_SIZE THEN fin - at ELSE BLOCK_SIZE
           q == at \div Bsize
           w == count \div Bsize
           r == count % Bsize
           chunk == H!Chunk(count)
           more == [n \in 1..w |-> H!BlockOf(chunk, (n - 1) * Bsize)]
           start == q * Bsize
           whole == w * Bsize
<1>1. /\ Bsize \in Nat \ {0} /\ BLOCK_SIZE \in Nat \ {0} /\ BLOCK_SIZE % Bsize = 0
      /\ LONG \in Nat \ {0}
  BY ShaSizes
<1>2. stage = "stream" /\ at < fin /\ fin \in Nat /\ at \in Nat
  BY DEF H!sha_update, ShaInv
<1>3. /\ at' = at + count /\ count_hi' = H!High(8 * count)
      /\ count_lo' = (count_lo + (8 * count)) % LONG
      /\ blocks' = blocks \o more
      /\ data' = H!Left(chunk, w)
      /\ fin' = fin /\ stage' = stage
  BY DEF H!sha_update, H!Whole, Bsize
<1>4. Streaming /\ at % Bsize = 0
  BY <1>2 DEF ShaInv, Streaming
<1>5. /\ count \in Nat /\ at + count <= fin
      /\ at + count = fin \/ count = BLOCK_SIZE
  BY <1>1, <1>2
<1> HIDE DEF count
<1>6. at = start /\ q \in Nat /\ start \in Nat
  BY <1>1, <1>2, <1>4, DivMod
<1>7. count = whole + r /\ w \in Nat /\ r \in 0..(Bsize - 1) /\ whole \in Nat
  BY <1>1, <1>5, DivMod, Zenon
<1>8. (q + w) * Bsize = start + whole /\ q + w \in Nat
  <2>1. \A x, y, b \in Nat : (x + y) * b = (x * b) + (y * b) /\ x + y \in Nat
    OBVIOUS
  <2> HIDE DEF q, w
  <2> QED
    BY <1>1, <1>6, <1>7, <2>1
<1>9. (at + count) \div Bsize = q + w /\ (at + count) % Bsize = r
  <2>1. at + count = ((q + w) * Bsize) + r
    BY <1>6, <1>7, <1>8
  <2>2. /\ (((q + w) * Bsize) + r) \div Bsize = q + w
        /\ (((q + w) * Bsize) + r) % Bsize = r
    <3> DEFINE qw == q + w
    <3>1. qw \in Nat /\ r \in 0..(Bsize - 1) /\ Bsize \in Nat \ {0}
      BY <1>1, <1>7, <1>8
    <3> HIDE DEF qw, r, Bsize
    <3>2. /\ ((qw * Bsize) + r) \div Bsize = qw
          /\ ((qw * Bsize) + r) % Bsize = r
      BY <3>1, DivIs
    <3> QED
      BY <3>2 DEF qw
  <2> HIDE DEF q, w, r, start, whole
  <2> QED
    BY <2>1, <2>2
<1>10. (8 * at) + (8 * count) = 8 * at'
  BY <1>2, <1>3, <1>5
<1>11. count_lo' = (8 * at') % LONG /\ count_hi' = (8 * at') \div LONG
  <2>1. 8 * at \in Nat /\ 8 * count \in Nat
    BY <1>2, <1>5
  <2>2. count_lo = (8 * at) % LONG /\ count_hi = (8 * at) \div LONG
    BY <1>4 DEF Streaming
  <2>3. (count_lo + (8 * count)) % LONG = ((8 * at) + (8 * count)) % LONG
        /\ H!High(8 * count) = ((8 * at) + (8 * count)) \div LONG
    BY <1>1, <2>1, <2>2, CountAdds
  <2> QED
    BY <1>3, <1>10, <2>3
<1>12. chunk = [k \in 1..count |-> H!Byte(at + k)] /\ Len(chunk) = count
  BY <1>5 DEF H!Chunk
<1> HIDE DEF chunk, q, w, r, start, whole
<1>13. data' = [k \in 1..Bsize |-> data'[k]]
       /\ \A k \in 1..r : data'[k] = H!Byte(((q + w) * Bsize) + k)
  <2>1. data' = [k \in 1..Bsize |->
                   IF k <= Len(chunk) - (w * Bsize) THEN chunk[(w * Bsize) + k]
                   ELSE IF w > 0 THEN chunk[((w - 1) * Bsize) + k] ELSE data[k]]
    BY <1>3 DEF H!Left, Bsize
  <2>2. data' = [k \in 1..Bsize |-> data'[k]]
    BY <2>1, Zenon
  <2>3. ASSUME NEW k \in 1..r
        PROVE  data'[k] = H!Byte(((q + w) * Bsize) + k)
    <3>1. k \in 1..Bsize /\ k <= Len(chunk) - (w * Bsize)
      BY <1>1, <1>7, <1>12 DEF whole
    <3>2. data'[k] = chunk[(w * Bsize) + k]
      BY <2>1, <3>1
    <3>3. whole + k \in 1..count /\ at + (whole + k) = ((q + w) * Bsize) + k
      BY <1>1, <1>6, <1>7, <1>8
    <3>4. chunk[whole + k] = H!Byte(at + (whole + k))
      BY <1>12, <3>3
    <3> QED
      BY <3>2, <3>3, <3>4 DEF whole
  <2> QED
    BY <2>2, <2>3
<1>14. more = [n \in 1..w |-> [k \in 1..Bsize |-> H!Byte(((q + n - 1) * Bsize) + k)]]
  <2>1. ASSUME NEW n \in 1..w, NEW k \in 1..Bsize
        PROVE  /\ ((n - 1) * Bsize) + k <= Len(chunk)
               /\ chunk[((n - 1) * Bsize) + k] = H!Byte(((q + n - 1) * Bsize) + k)
    <3> DEFINE before == (n - 1) * Bsize
    <3>1. n - 1 \in Nat /\ n - 1 < w
      BY <1>7
    <3>2. before \in Nat /\ before + Bsize <= whole
      BY <1>1, <1>7, <3>1, TimesOrdered DEF whole
    <3>3. (q + n - 1) * Bsize = start + before
      BY <1>1, <1>6, <3>1 DEF start
    <3> HIDE DEF before
    <3>4. before + k \in 1..count /\ at + (before + k) = (start + before) + k
      BY <1>1, <1>6, <1>7, <3>2
    <3>5. chunk[before + k] = H!Byte(at + (before + k))
      BY <1>12, <3>4
    <3>6. /\ before + k <= Len(chunk)
          /\ chunk[before + k] = H!Byte(((q + n - 1) * Bsize) + k)
      <4>1. at + (before + k) = ((q + n - 1) * Bsize) + k
        BY <3>3, <3>4
      <4> QED
        BY <1>5, <1>12, <3>4, <3>5, <4>1
    <3> QED
      BY <3>6 DEF before
  <2>2. \A n \in 1..w : H!BlockOf(chunk, (n - 1) * Bsize)
                          = [k \in 1..Bsize |-> H!Byte(((q + n - 1) * Bsize) + k)]
    <3> TAKE n \in 1..w
    <3>1. H!BlockOf(chunk, (n - 1) * Bsize) =
            [k \in 1..Bsize |-> IF ((n - 1) * Bsize) + k <= Len(chunk)
                                THEN chunk[((n - 1) * Bsize) + k] ELSE data[k]]
      BY DEF H!BlockOf, Bsize
    <3>2. \A k \in 1..Bsize : ((n - 1) * Bsize) + k <= Len(chunk)
                              /\ chunk[((n - 1) * Bsize) + k] = H!Byte(((q + n - 1) * Bsize) + k)
      BY <2>1
    <3> QED
      BY <3>1, <3>2, Zenon
  <2> QED
    BY <2>2, Zenon
<1> HIDE DEF more
<1>15. blocks' = FileBlocks(q + w)
  <2>1. blocks = FileBlocks(q)
    BY <1>4 DEF Streaming, q
  <2>2. FileBlocks(q) \o more = FileBlocks(q + w)
    BY <1>1, <1>6, <1>7, <1>14, BlocksJoin
  <2> QED
    BY <1>3, <2>1, <2>2
<1>16. at' = fin' \/ at' % Bsize = 0
  BY <1>1, <1>3, <1>5, <1>7, <1>9 DEF r
<1>17. at' \div Bsize = q + w /\ at' % Bsize = r
  BY <1>3, <1>9
<1>18. Streaming'
  BY <1>11, <1>13, <1>15, <1>16, <1>17 DEF Streaming, FileBlocks, Bsize, H!Byte
<1> QED
  BY <1>2, <1>3, <1>5, <1>18 DEF ShaInv, H!BlocksOfFile

\* What sha_final takes from count_lo is the place in the block, however often
\* count_lo has run over.
LEMMA PlaceInBlock ==
  ASSUME H!ShaAssumption, NEW n \in Nat
  PROVE  (((8 * n) % LONG) \div 8) % Bsize = n % Bsize
<1> DEFINE m == LONG \div (8 * Bsize)
           h == (8 * n) \div LONG
           lo == (8 * n) % LONG
           c == n - ((h * m) * Bsize)
           s == c \div Bsize
           r == c % Bsize
<1>1. Bsize \in Nat \ {0} /\ LONG \in Nat \ {0} /\ LONG % (8 * Bsize) = 0
      /\ 8 * Bsize \in Nat \ {0}
  BY ShaSizes
<1>2. LONG = m * (8 * Bsize) /\ m \in Nat
  <2>1. LONG = (m * (8 * Bsize)) + (LONG % (8 * Bsize)) /\ m \in Nat
        /\ m * (8 * Bsize) \in Nat
    BY <1>1, DivMod, Zenon
  <2> QED
    BY <1>1, <2>1
<1>3. 8 * n \in Nat
  OBVIOUS
<1>4. 8 * n = (h * LONG) + lo /\ lo \in 0..(LONG - 1) /\ h \in Nat /\ h * LONG \in Nat
  BY <1>1, <1>3, DivMod, Zenon
<1> HIDE DEF m, h, lo
<1>5. h * LONG = 8 * ((h * m) * Bsize) /\ h * m \in Nat /\ (h * m) * Bsize \in Nat
  BY <1>1, <1>2, <1>4
<1>6. lo = 8 * c /\ c \in Nat
  <2> DEFINE x == (h * m) * Bsize
             y == h * LONG
  <2>1. x \in Nat /\ y = 8 * x /\ 8 * n = y + lo
    BY <1>4, <1>5
  <2> HIDE DEF x, y
  <2>2. lo = 8 * (n - x) /\ n - x \in Nat
    BY <1>4, <2>1
  <2> QED
    BY <2>2 DEF x
<1>7. lo \div 8 = c
  BY <1>6
<1>8. n = ((h * m) * Bsize) + c
  BY <1>5
<1> HIDE DEF c
<1>9. c = (s * Bsize) + r /\ r \in 0..(Bsize - 1) /\ s \in Nat /\ s * Bsize \in Nat
  BY <1>1, <1>6, DivMod, Zenon
<1>10. n = (((h * m) + s) * Bsize) + r /\ (h * m) + s \in Nat
  <2>1. \A x, y \in Nat : (x + y) * Bsize = (x * Bsize) + (y * Bsize) /\ x + y \in Nat
    BY <1>1
  <2>2. ((h * m) + s) * Bsize = ((h * m) * Bsize) + (s * Bsize) /\ (h * m) + s \in Nat
    BY <1>5, <1>9, <2>1, Zenon
  <2> HIDE DEF s, r
  <2> QED
    BY <1>5, <1>8, <1>9, <2>2
<1>11. n % Bsize = r
  <2> HIDE DEF s, r
  <2>1. ((((h * m) + s) * Bsize) + r) % Bsize = r
    BY <1>1, <1>9, <1>10, DivIs, Zenon
  <2> QED
    BY <1>10, <2>1
<1> QED
  BY <1>7, <1>11 DEF lo

\* The padded file ends with the block the file ends in or with the next.
LEMMA TotalIs ==
  ASSUME H!ShaAssumption, fin \in Nat, NEW q, NEW r, NEW b,
         q = fin \div Bsize, r = fin % Bsize,
         b = q + (IF r + 3 <= Bsize THEN 1 ELSE 2)
  PROVE  /\ H!Total = b * Bsize /\ H!Total \div Bsize = b
         /\ b \in Nat /\ H!Total \in Nat
<1> DEFINE start == q * Bsize
<1>1. Bsize \in Nat \ {0} /\ Bsize > 2
  BY ShaSizes
<1>2. fin = start + r /\ r \in 0..(Bsize - 1) /\ q \in Nat /\ start \in Nat
  BY <1>1, DivMod, Zenon
<1>3. (q + 1) * Bsize = start + Bsize /\ (q + 2) * Bsize = start + Bsize + Bsize
  BY <1>1, <1>2
<1> HIDE DEF start
<1>4. (fin + 3 + Bsize - 1) \div Bsize = b
  <2>1. CASE r + 3 <= Bsize
    <3>1. fin + 3 + Bsize - 1 = ((q + 1) * Bsize) + (r + 2) /\ r + 2 \in 0..(Bsize - 1)
          /\ q + 1 \in Nat
      BY <1>1, <1>2, <1>3, <2>1
    <3>2. (((q + 1) * Bsize) + (r + 2)) \div Bsize = q + 1
      BY <1>1, <3>1, DivIs, Zenon
    <3> QED
      BY <2>1, <3>1, <3>2
  <2>2. CASE ~(r + 3 <= Bsize)
    <3>1. fin + 3 + Bsize - 1 = ((q + 2) * Bsize) + (r + 2 - Bsize)
          /\ r + 2 - Bsize \in 0..(Bsize - 1) /\ q + 2 \in Nat
      BY <1>1, <1>2, <1>3, <2>2
    <3>2. (((q + 2) * Bsize) + (r + 2 - Bsize)) \div Bsize = q + 2
      BY <1>1, <3>1, DivIs, Zenon
    <3> QED
      BY <2>2, <3>1, <3>2
  <2> QED
    BY <2>1, <2>2
<1>5. H!Total = b * Bsize
  BY <1>4 DEF H!Total, Bsize
<1>6. b \in Nat
  BY <1>2
<1>7. (b * Bsize) + 0 \in Nat /\ ((b * Bsize) + 0) \div Bsize = b
  <2>1. 0 \in 0..(Bsize - 1)
    BY <1>1
  <2> QED
    BY <1>1, <1>6, <2>1, DivIs, Zenon
<1>8. b * Bsize \in Nat /\ (b * Bsize) + 0 = b * Bsize
  BY <1>1, <1>6
<1> QED
  BY <1>5, <1>6, <1>7, <1>8

LEMMA PaddedIs ==
  ASSUME fin \in Nat, H!Total \in Nat, H!Total >= fin + 3, NEW k \in Nat
  PROVE  /\ k <= fin => H!Padded(k) = H!Byte(k)
         /\ k = fin + 1 => H!Padded(k) = H!Mark
         /\ k > fin + 1 /\ k < H!Total - 1 => H!Padded(k) = H!Zero
         /\ k = H!Total - 1 => H!Padded(k) = <<"length", (8 * fin) \div LONG>>
         /\ k = H!Total => H!Padded(k) = <<"length", (8 * fin) % LONG>>
  BY DEF H!Padded

\* The block that begins after n blocks of the padded file.
PaddedBlock(n) == [k \in 1..Bsize |-> H!Padded((n * Bsize) + k)]

\* The words of the length take the last two places of a block.
LEMMA EndedIs ==
  ASSUME Bsize \in Nat, Bsize > 2, NEW d, d = [k \in 1..Bsize |-> d[k]], NEW hi, NEW lo
  PROVE  [d EXCEPT ![Bsize - 2 + 1] = hi, ![Bsize - 2 + 2] = lo]
           = [k \in 1..Bsize |-> IF k = Bsize - 1 THEN hi ELSE IF k = Bsize THEN lo ELSE d[k]]
<1>1. Bsize - 2 + 1 = Bsize - 1 /\ Bsize - 2 + 2 = Bsize
      /\ Bsize - 1 \in 1..Bsize /\ Bsize \in 1..Bsize /\ Bsize # Bsize - 1
  OBVIOUS
<1>2. [d EXCEPT ![Bsize - 1] = hi, ![Bsize] = lo]
        = [k \in 1..Bsize |-> IF k = Bsize - 1 THEN hi ELSE IF k = Bsize THEN lo ELSE d[k]]
  BY <1>1
<1> QED
  BY <1>1, <1>2

LEMMA AppendJoins ==
  ASSUME NEW n \in Nat, NEW f, f = [k \in 1..n |-> f[k]], NEW e
  PROVE  Append(f, e) = f \o <<e>>
<1> DEFINE V == {f[k] : k \in 1..n} \cup {e}
<1>1. [k \in 1..n |-> f[k]] \in [1..n -> V] /\ e \in V
  OBVIOUS
<1> HIDE DEF V
<1>2. f \in Seq(V)
  BY <1>1
<1> QED
  BY <1>1, <1>2, AppendIsConcat

\* The whole blocks of the file and the one or two that end it.
LEMMA PaddedBlocks ==
  ASSUME Bsize \in Nat \ {0}, fin \in Nat, NEW q \in Nat, NEW w \in Nat,
         H!Total \in Nat, H!Total >= fin + 3, H!Total \div Bsize = q + w,
         q * Bsize <= fin, stage' = "done", fin' = fin, NEW tail,
         tail = [n \in 1..w |-> PaddedBlock(q + n - 1)],
         blocks' = FileBlocks(q) \o tail
  PROVE  H!BlocksOfFile'
<1> DEFINE F == [n \in Nat |-> [k \in 1..Bsize |-> H!Padded(((n - 1) * Bsize) + k)]]
<1>1. \A n \in 1..(q + w) : F[n] = [k \in 1..Bsize |-> H!Padded(((n - 1) * Bsize) + k)]
  OBVIOUS
<1>2. FileBlocks(q) = [n \in 1..q |-> F[n]]
  <2>1. ASSUME NEW n \in 1..q, NEW k \in 1..Bsize
        PROVE  H!Padded(((n - 1) * Bsize) + k) = H!Byte(((n - 1) * Bsize) + k)
    <3>1. n - 1 \in Nat /\ n - 1 < q
      OBVIOUS
    <3>2. (n - 1) * Bsize \in Nat /\ ((n - 1) * Bsize) + Bsize <= q * Bsize
      BY <3>1, TimesOrdered
    <3> DEFINE before == (n - 1) * Bsize
               start == q * Bsize
    <3>3. start \in Nat /\ start <= fin /\ before \in Nat /\ before + Bsize <= start
      BY <3>2
    <3> HIDE DEF before, start
    <3>4. before + k \in Nat /\ before + k <= fin
      BY <3>3
    <3>5. H!Padded(before + k) = H!Byte(before + k)
      BY <3>4, PaddedIs
    <3> QED
      BY <3>5 DEF before
  <2>2. \A n \in 1..q : F[n] = [k \in 1..Bsize |-> H!Byte(((n - 1) * Bsize) + k)]
    <3> TAKE n \in 1..q
    <3>1. F[n] = [k \in 1..Bsize |-> H!Padded(((n - 1) * Bsize) + k)]
      OBVIOUS
    <3> HIDE DEF F
    <3> QED
      BY <2>1, <3>1, Zenon
  <2> HIDE DEF F
  <2> QED
    BY <2>2, Zenon DEF FileBlocks
<1>3. tail = [n \in 1..w |-> F[q + n]]
  <2>1. \A n \in 1..w : q + n \in 1..(q + w)
    OBVIOUS
  <2> HIDE DEF F
  <2>2. \A n \in 1..w : F[q + n] = PaddedBlock(q + n - 1)
    <3> TAKE n \in 1..w
    <3>1. F[q + n] = [k \in 1..Bsize |-> H!Padded((((q + n) - 1) * Bsize) + k)]
      BY <1>1, <2>1, Zenon
    <3> QED
      BY <3>1 DEF PaddedBlock
  <2> QED
    BY <2>2, Zenon
<1> HIDE DEF F
<1>4. [n \in 1..q |-> F[n]] \o [n \in 1..w |-> F[q + n]] = [n \in 1..(q + w) |-> F[n]]
  BY JoinedSeq
<1>5. blocks' = [n \in 1..(q + w) |-> F[n]]
  BY <1>2, <1>3, <1>4, Zenon
<1>6. [n \in 1..(q + w) |-> F[n]]
        = [n \in 1..(q + w) |-> [k \in 1..Bsize |-> H!Padded(((n - 1) * Bsize) + k)]]
  BY <1>1, Zenon
<1>7. blocks' = [n \in 1..(H!Total \div Bsize) |->
                   [k \in 1..Bsize |-> H!Padded(((n - 1) * Bsize) + k)]]
  BY <1>5, <1>6, Zenon
<1>8. H!Total' = H!Total /\ \A n : H!Padded(n)' = H!Padded(n)
  BY DEF H!Total, H!Padded, H!Byte, H!Mark, H!Zero
<1> QED
  BY <1>7, <1>8, Zenon DEF H!BlocksOfFile, Bsize

LEMMA FinalKeeps ==
  ASSUME H!ShaAssumption, ShaInv, H!sha_final
  PROVE  ShaInv'
<1> DEFINE q == fin \div Bsize
           r == fin % Bsize
           start == q * Bsize
           marked == [data EXCEPT ![r + 1] = H!Mark]
           full == H!Filled(marked, r + 2, Bsize)
           words == <<"length", count_hi>>
           low == <<"length", count_lo>>
           Ended(d) == [d EXCEPT ![Bsize - 2 + 1] = words, ![Bsize - 2 + 2] = low]
<1>1. Bsize \in Nat \ {0} /\ Bsize > 2
  BY ShaSizes
<1>2. /\ stage = "stream" /\ at = fin /\ fin \in Nat
      /\ stage' = "done" /\ fin' = fin /\ at' = at
  BY DEF H!sha_final, ShaInv
<1>3. /\ count_lo = (8 * fin) % LONG /\ count_hi = (8 * fin) \div LONG
      /\ data = [k \in 1..Bsize |-> data[k]]
      /\ \A k \in 1..r : data[k] = H!Byte(start + k)
      /\ blocks = FileBlocks(q)
  BY <1>2 DEF ShaInv, Streaming
<1>4. fin = start + r /\ r \in 0..(Bsize - 1) /\ q \in Nat /\ start \in Nat
  BY <1>1, <1>2, DivMod, Zenon
<1>5. ((count_lo \div 8) % Bsize) + 1 = r + 1
  BY <1>2, <1>3, PlaceInBlock
<1>6. IF r + 1 <= Bsize - 2
      THEN /\ data' = Ended(H!Filled(marked, r + 1 + 1, Bsize - 2))
           /\ blocks' = Append(blocks, data')
      ELSE /\ data' = Ended(H!Filled(H!Filled(marked, r + 1 + 1, Bsize), 1, Bsize - 2))
           /\ blocks' = blocks \o <<H!Filled(marked, r + 1 + 1, Bsize), data'>>
  BY <1>5 DEF H!sha_final, H!Fits, H!Last, Bsize
<1>7. marked = [k \in 1..Bsize |-> IF k = r + 1 THEN H!Mark ELSE data[k]]
  <2> HIDE DEF r
  <2> QED
    BY <1>1, <1>3, <1>4
<1>8. \A d, from, to :
        H!Filled(d, from, to)
          = [k \in 1..Bsize |-> IF from <= k /\ k <= to THEN H!Zero ELSE d[k]]
  BY DEF H!Filled, Bsize
<1>9. (q + 1) * Bsize = start + Bsize /\ (q + 2) * Bsize = start + Bsize + Bsize
  <2>1. \A x, b \in Nat : (x + 1) * b = (x * b) + b /\ (x + 2) * b = (x * b) + b + b
    OBVIOUS
  <2> HIDE DEF q
  <2> QED
    BY <1>1, <1>4, <2>1
<1>10. ASSUME NEW d, d = [k \in 1..Bsize |-> d[k]]
       PROVE  Ended(d) = [k \in 1..Bsize |-> IF k = Bsize - 1 THEN words
                                             ELSE IF k = Bsize THEN low ELSE d[k]]
  <2> DEFINE Put(hi, lo) == [d EXCEPT ![Bsize - 2 + 1] = hi, ![Bsize - 2 + 2] = lo]
             Both(hi, lo) == [k \in 1..Bsize |-> IF k = Bsize - 1 THEN hi
                                                 ELSE IF k = Bsize THEN lo ELSE d[k]]
  <2> HIDE DEF words, low
  <2>1. \A hi, lo : Put(hi, lo) = Both(hi, lo)
    BY <1>1, <1>10, EndedIs
  <2>2. Put(words, low) = Both(words, low)
    <3> HIDE DEF Put, Both
    <3> QED
      BY <2>1
  <2> QED
    BY <2>2
<1>11. CASE r + 1 <= Bsize - 2
  <2> DEFINE d == H!Filled(marked, r + 1 + 1, Bsize - 2)
  <2>1. H!Total = (q + 1) * Bsize /\ H!Total \div Bsize = q + 1 /\ H!Total \in Nat
    <3>1. r + 3 <= Bsize
      BY <1>1, <1>4, <1>11
    <3>2. q + 1 = q + (IF r + 3 <= Bsize THEN 1 ELSE 2)
      BY <3>1
    <3> QED
      BY <1>2, <3>2, TotalIs
  <2> HIDE DEF q, r, start, marked, words, low
  <2>2. H!Total = start + Bsize /\ H!Total >= fin + 3
    BY <1>1, <1>4, <1>9, <1>11, <2>1
  <2>3. d = [k \in 1..Bsize |-> IF r + 1 + 1 <= k /\ k <= Bsize - 2 THEN H!Zero ELSE marked[k]]
    BY <1>8
  <2>4. d = [k \in 1..Bsize |-> d[k]]
    BY <2>3, Zenon
  <2>5. Ended(d) = [k \in 1..Bsize |-> IF k = Bsize - 1 THEN words
                                       ELSE IF k = Bsize THEN low ELSE d[k]]
    BY <1>10, <2>4
  <2>6. data' = Ended(d) /\ blocks' = Append(blocks, data')
    BY <1>6, <1>11
  <2> HIDE DEF d, Ended
  <2>7. ASSUME NEW k \in 1..Bsize
        PROVE  H!Padded(start + k) = IF k = Bsize - 1 THEN words
                                     ELSE IF k = Bsize THEN low ELSE d[k]
    <3>1. start + k \in Nat
      BY <1>4
    <3>2. CASE k <= r
      <4>1. d[k] = data[k]
        BY <1>1, <1>4, <1>7, <1>11, <2>3, <3>2
      <4>2. k # Bsize - 1 /\ k # Bsize /\ start + k <= fin
        BY <1>1, <1>4, <1>11, <3>2
      <4>3. H!Padded(start + k) = H!Byte(start + k)
        BY <1>2, <2>1, <2>2, <3>1, <4>2, PaddedIs
      <4>4. k \in 1..r
        BY <1>4, <3>2
      <4>5. data[k] = H!Byte(start + k)
        BY <1>3, <4>4, Zenon
      <4> QED
        BY <4>1, <4>2, <4>3, <4>5
    <3>3. CASE k = r + 1
      <4>1. d[k] = H!Mark
        BY <1>1, <1>4, <1>7, <1>11, <2>3, <3>3
      <4>2. k # Bsize - 1 /\ k # Bsize /\ start + k = fin + 1
        BY <1>1, <1>4, <1>11, <3>3
      <4>3. H!Padded(start + k) = H!Mark
        BY <1>2, <2>1, <2>2, <3>1, <4>2, PaddedIs
      <4> QED
        BY <4>1, <4>2, <4>3
    <3>4. CASE k > r + 1 /\ k <= Bsize - 2
      <4>1. d[k] = H!Zero
        BY <1>1, <1>4, <2>3, <3>4
      <4>2. k # Bsize - 1 /\ k # Bsize /\ start + k > fin + 1 /\ start + k < H!Total - 1
        BY <1>1, <1>4, <2>2, <3>4
      <4>3. H!Padded(start + k) = H!Zero
        BY <1>2, <2>1, <2>2, <3>1, <4>2, PaddedIs
      <4> QED
        BY <4>1, <4>2, <4>3
    <3>5. CASE k = Bsize - 1
      <4>1. start + k = H!Total - 1
        BY <1>1, <1>4, <2>2, <3>5
      <4>2. H!Padded(start + k) = words
        BY <1>2, <1>3, <2>1, <2>2, <3>1, <4>1, PaddedIs DEF words
      <4> QED
        BY <3>5, <4>2
    <3>6. CASE k = Bsize
      <4>1. start + k = H!Total /\ k # Bsize - 1
        BY <1>1, <1>4, <2>2, <3>6
      <4>2. H!Padded(start + k) = low
        BY <1>2, <1>3, <2>1, <2>2, <3>1, <4>1, PaddedIs DEF low
      <4> QED
        BY <3>6, <4>1, <4>2
    <3> QED
      BY <1>1, <1>4, <3>2, <3>3, <3>4, <3>5, <3>6
  <2>8. data' = PaddedBlock(q)
    BY <2>5, <2>6, <2>7, Zenon DEF PaddedBlock, start
  <2>9. blocks' = FileBlocks(q) \o <<data'>>
    <3>1. FileBlocks(q) = [m \in 1..q |-> FileBlocks(q)[m]]
      BY DEF FileBlocks
    <3>2. Append(FileBlocks(q), data') = FileBlocks(q) \o <<data'>>
      BY <1>4, <3>1, AppendJoins, Zenon
    <3> QED
      BY <1>3, <2>6, <3>2
  <2>10. <<data'>> = [n \in 1..1 |-> PaddedBlock(q + n - 1)]
    <3>1. q + 1 - 1 = q /\ \A n \in 1..1 : n = 1
      BY <1>4
    <3> QED
      BY <2>8, <3>1
  <2>11. H!BlocksOfFile'
    <3>1. q * Bsize <= fin
      BY <1>4 DEF start
    <3> QED
      BY <1>1, <1>2, <1>4, <2>1, <2>2, <2>9, <2>10, <3>1, PaddedBlocks
  <2> QED
    BY <1>2, <2>11 DEF ShaInv
<1>12. CASE ~(r + 1 <= Bsize - 2)
  <2> DEFINE f == H!Filled(marked, r + 1 + 1, Bsize)
             d == H!Filled(f, 1, Bsize - 2)
  <2>1. H!Total = (q + 2) * Bsize /\ H!Total \div Bsize = q + 2 /\ H!Total \in Nat
    <3>1. ~(r + 3 <= Bsize)
      BY <1>1, <1>4, <1>12
    <3>2. q + 2 = q + (IF r + 3 <= Bsize THEN 1 ELSE 2)
      BY <3>1
    <3> QED
      BY <1>2, <3>2, TotalIs
  <2>2. data' = Ended(d) /\ blocks' = blocks \o <<f, data'>>
    BY <1>6, <1>12
  <2>3. f = [k \in 1..Bsize |-> IF r + 1 + 1 <= k /\ k <= Bsize THEN H!Zero ELSE marked[k]]
    BY <1>8
  <2>4. d = [k \in 1..Bsize |-> IF 1 <= k /\ k <= Bsize - 2 THEN H!Zero ELSE f[k]]
    BY <1>8
  <2> HIDE DEF q, r, start, marked, words, low, f
  <2>5. H!Total = start + Bsize + Bsize /\ H!Total >= fin + 3
    BY <1>1, <1>4, <1>9, <2>1
  <2>6. d = [k \in 1..Bsize |-> d[k]]
    BY <2>4, Zenon
  <2>7. Ended(d) = [k \in 1..Bsize |-> IF k = Bsize - 1 THEN words
                                       ELSE IF k = Bsize THEN low ELSE d[k]]
    BY <1>10, <2>6
  <2> HIDE DEF d, Ended
  <2>8. ASSUME NEW k \in 1..Bsize
        PROVE  H!Padded(start + k) = f[k]
    <3>1. start + k \in Nat
      BY <1>4
    <3>2. CASE k <= r
      <4>1. f[k] = data[k]
        BY <1>1, <1>4, <1>7, <2>3, <3>2
      <4>2. start + k <= fin
        BY <1>1, <1>4, <3>2
      <4>3. H!Padded(start + k) = H!Byte(start + k)
        BY <1>2, <2>1, <2>5, <3>1, <4>2, PaddedIs
      <4>4. k \in 1..r
        BY <1>4, <3>2
      <4>5. data[k] = H!Byte(start + k)
        BY <1>3, <4>4, Zenon
      <4> QED
        BY <4>1, <4>3, <4>5
    <3>3. CASE k = r + 1
      <4>1. f[k] = H!Mark
        BY <1>1, <1>4, <1>7, <2>3, <3>3
      <4>2. start + k = fin + 1
        BY <1>1, <1>4, <3>3
      <4>3. H!Padded(start + k) = H!Mark
        BY <1>2, <2>1, <2>5, <3>1, <4>2, PaddedIs
      <4> QED
        BY <4>1, <4>3
    <3>4. CASE k > r + 1
      <4>1. f[k] = H!Zero
        BY <1>1, <1>4, <2>3, <3>4
      <4>2. start + k > fin + 1 /\ start + k < H!Total - 1
        BY <1>1, <1>4, <2>5, <3>4
      <4>3. H!Padded(start + k) = H!Zero
        BY <1>2, <2>1, <2>5, <3>1, <4>2, PaddedIs
      <4> QED
        BY <4>1, <4>3
    <3> QED
      BY <1>1, <1>4, <3>2, <3>3, <3>4
  <2>9. ASSUME NEW k \in 1..Bsize
        PROVE  H!Padded((start + Bsize) + k) = IF k = Bsize - 1 THEN words
                                               ELSE IF k = Bsize THEN low ELSE d[k]
    <3>1. (start + Bsize) + k \in Nat
      BY <1>1, <1>4
    <3>2. CASE k <= Bsize - 2
      <4>1. d[k] = H!Zero /\ k # Bsize - 1 /\ k # Bsize
        BY <1>1, <2>4, <3>2
      <4>2. (start + Bsize) + k > fin + 1 /\ (start + Bsize) + k < H!Total - 1
        BY <1>1, <1>4, <2>5, <3>2
      <4>3. H!Padded((start + Bsize) + k) = H!Zero
        BY <1>2, <2>1, <2>5, <3>1, <4>2, PaddedIs
      <4> QED
        BY <4>1, <4>3
    <3>3. CASE k = Bsize - 1
      <4>1. (start + Bsize) + k = H!Total - 1
        BY <1>1, <1>4, <2>5, <3>3
      <4>2. H!Padded((start + Bsize) + k) = words
        BY <1>2, <1>3, <2>1, <2>5, <3>1, <4>1, PaddedIs DEF words
      <4> QED
        BY <3>3, <4>2
    <3>4. CASE k = Bsize
      <4>1. (start + Bsize) + k = H!Total /\ k # Bsize - 1
        BY <1>1, <1>4, <2>5, <3>4
      <4>2. H!Padded((start + Bsize) + k) = low
        BY <1>2, <1>3, <2>1, <2>5, <3>1, <4>1, PaddedIs DEF low
      <4> QED
        BY <3>4, <4>1, <4>2
    <3> QED
      BY <1>1, <3>2, <3>3, <3>4
  <2>10. f = PaddedBlock(q)
    <3>1. f = [k \in 1..Bsize |-> f[k]]
      BY <2>3, Zenon
    <3> QED
      BY <2>8, <3>1, Zenon DEF PaddedBlock, start
  <2>11. data' = PaddedBlock(q + 1)
    <3>1. start + Bsize = (q + 1) * Bsize
      BY <1>9
    <3>2. data' = [k \in 1..Bsize |-> H!Padded((start + Bsize) + k)]
      BY <2>2, <2>7, <2>9, Zenon
    <3> QED
      BY <3>1, <3>2, Zenon DEF PaddedBlock
  <2>12. <<f, data'>> = [n \in 1..2 |-> PaddedBlock(q + n - 1)]
    <3>1. q + 1 - 1 = q /\ q + 2 - 1 = q + 1 /\ \A n \in 1..2 : n = 1 \/ n = 2
      BY <1>4
    <3> QED
      BY <2>10, <2>11, <3>1
  <2>13. blocks' = FileBlocks(q) \o <<f, data'>>
    BY <1>3, <2>2
  <2>14. H!BlocksOfFile'
    <3>1. q * Bsize <= fin
      BY <1>4 DEF start
    <3> QED
      BY <1>1, <1>2, <1>4, <2>1, <2>5, <2>12, <2>13, <3>1, PaddedBlocks
  <2> QED
    BY <1>2, <2>14 DEF ShaInv
<1> QED
  BY <1>11, <1>12

\* The blocks sha_stream gives sha_transform are those of the padded file, for
\* files of any length, chunks of any number of blocks and words of any width.
THEOREM HashesFile == Spec => []BlocksOfFile
<1> DEFINE Inv == program = "Sha" => ShaInv
<1>0. H!ShaAssumption
  BY AlgorithmsAssumption
<1>1. Init => Inv
  BY <1>0, ShaInit DEF Init
<1>2. ShaInv /\ [H!Next]_(H!vars) => ShaInv'
  <2> SUFFICES ASSUME ShaInv, [H!Next]_(H!vars)
               PROVE  ShaInv'
    OBVIOUS
  <2>1. CASE H!sha_update
    BY <2>1, UpdateKeeps, <1>0
  <2>2. CASE H!sha_final
    BY <2>2, FinalKeeps, <1>0
  <2>3. CASE UNCHANGED H!vars
    <3>1. UNCHANGED <<fin, at, data, count_lo, count_hi, blocks, stage>>
      BY <2>3 DEF H!vars
    <3>2. Streaming => Streaming'
      BY <3>1 DEF Streaming, FileBlocks, H!Byte
    <3>3. H!BlocksOfFile => H!BlocksOfFile'
      <4>1. H!Total' = H!Total /\ \A n : H!Padded(n)' = H!Padded(n)
        BY <3>1 DEF H!Total, H!Padded, H!Byte, H!Mark, H!Zero
      <4> QED
        BY <3>1, <4>1 DEF H!BlocksOfFile
    <3> QED
      BY <3>1, <3>2, <3>3 DEF ShaInv
  <2> QED
    BY <2>1, <2>2, <2>3 DEF H!Next
<1>3. Inv /\ [Next]_vars => Inv'
  <2> SUFFICES ASSUME Inv, [Next]_vars, program' = "Sha"
               PROVE  ShaInv'
    OBVIOUS
  <2>1. program = "Sha" /\ (H!Next \/ UNCHANGED sha)
    BY DEF Next, vars, sha
  <2>2. [H!Next]_(H!vars)
    BY <2>1 DEF H!vars, sha
  <2> QED
    BY <1>2, <2>1, <2>2
<1>4. Inv => BlocksOfFile
  BY DEF ShaInv, BlocksOfFile
<1> QED
  BY <1>1, <1>3, <1>4, PTL DEF Spec
-----------------------------------------------------------------------------
(* usqrt.                                                                  *)

\* Powers of two.
LEMMA PowerFacts ==
  /\ Q!Power2 \in [Nat -> Nat \ {0}]
  /\ Q!Power2[0] = 1
  /\ \A n \in Nat : Q!Power2[n + 1] = 2 * Q!Power2[n]
<1> DEFINE V == Nat \ {0}
           F == [s \in Nat \X (Nat \ {0}) |-> 2 * s[2]]
<1>1. F \in [Nat \X V -> V] /\ 1 \in V
  OBVIOUS
<1>2. PICK f \in [Nat -> V] : Iterates(f, 1, F)
  <2> HIDE DEF F, V
  <2> QED
    BY <1>1, Recursion
<1>3. \A n \in Nat : f[n + 1] = 2 * f[n]
  BY <1>2 DEF Iterates
<1>4. f = [n \in Nat |-> IF n = 0 THEN 1 ELSE 2 * f[n - 1]]
  <2>1. \A n \in Nat : n # 0 => n - 1 \in Nat /\ (n - 1) + 1 = n
    OBVIOUS
  <2>2. \A n \in Nat : f[n] = IF n = 0 THEN 1 ELSE 2 * f[n - 1]
    BY <1>2, <1>3, <2>1 DEF Iterates
  <2> QED
    BY <2>2
<1>5. Q!Power2 = [n \in Nat |-> IF n = 0 THEN 1 ELSE 2 * Q!Power2[n - 1]]
  BY <1>4 DEF Q!Power2
<1> DEFINE Ks == {n \in Nat : Q!Power2[n] = f[n]}
<1>6. 0 \in Ks
  BY <1>2, <1>5 DEF Iterates
<1>7. \A n \in Nat : n \in Ks => n + 1 \in Ks
  <2> SUFFICES ASSUME NEW n \in Nat, Q!Power2[n] = f[n]
               PROVE  Q!Power2[n + 1] = f[n + 1]
    OBVIOUS
  <2>1. n + 1 \in Nat /\ n + 1 # 0 /\ (n + 1) - 1 = n
    OBVIOUS
  <2> QED
    BY <1>3, <1>5, <2>1
<1>8. \A n \in Nat : Q!Power2[n] = f[n]
  <2> HIDE DEF Ks
  <2>1. Nat \subseteq Ks
    BY <1>6, <1>7, SetInduction
  <2> QED
    BY <2>1 DEF Ks
<1> QED
  BY <1>2, <1>3, <1>5, <1>8 DEF Iterates

\* The power of a sum, and that powers grow.
LEMMA PowerOfSum ==
  ASSUME NEW m \in Nat, NEW n \in Nat
  PROVE  Q!Power2[m + n] = Q!Power2[m] * Q!Power2[n]
<1> DEFINE Ks == {k \in Nat : Q!Power2[m + k] = Q!Power2[m] * Q!Power2[k]}
<1>1. 0 \in Ks
  BY PowerFacts
<1>2. \A k \in Nat : k \in Ks => k + 1 \in Ks
  <2> SUFFICES ASSUME NEW k \in Nat, Q!Power2[m + k] = Q!Power2[m] * Q!Power2[k]
               PROVE  Q!Power2[m + (k + 1)] = Q!Power2[m] * Q!Power2[k + 1]
    OBVIOUS
  <2>1. m + (k + 1) = (m + k) + 1 /\ m + k \in Nat
    OBVIOUS
  <2>2. Q!Power2[m + (k + 1)] = 2 * (Q!Power2[m] * Q!Power2[k])
    BY <2>1, PowerFacts
  <2>3. Q!Power2[k + 1] = 2 * Q!Power2[k]
    BY PowerFacts
  <2>4. Q!Power2[m] \in Nat /\ Q!Power2[k] \in Nat
    BY PowerFacts
  <2>5. \A a, b \in Nat : 2 * (a * b) = a * (2 * b)
    OBVIOUS
  <2> QED
    BY <2>2, <2>3, <2>4, <2>5
<1>3. Nat \subseteq Ks
  <2> HIDE DEF Ks
  <2> QED
    BY <1>1, <1>2, SetInduction
<1> QED
  BY <1>3

LEMMA PowerGrows ==
  ASSUME NEW m \in Nat, NEW n \in Nat, m <= n
  PROVE  Q!Power2[m] <= Q!Power2[n]
<1>1. n - m \in Nat /\ n = m + (n - m)
  OBVIOUS
<1>2. Q!Power2[n] = Q!Power2[m] * Q!Power2[n - m]
  BY <1>1, PowerOfSum
<1>3. Q!Power2[m] \in Nat /\ Q!Power2[n - m] \in Nat \ {0}
  BY <1>1, PowerFacts
<1>4. \A a \in Nat, b \in Nat \ {0} : a <= a * b
  <2> SUFFICES ASSUME NEW a \in Nat, NEW b \in Nat \ {0}
               PROVE  a <= a * b
    OBVIOUS
  <2>1. PICK d \in Nat : b = d + 1
    <3>1. b - 1 \in Nat /\ b = (b - 1) + 1
      OBVIOUS
    <3> QED
      BY <3>1
  <2>2. a * b = (a * d) + a /\ a * d \in Nat
    BY <2>1
  <2> QED
    BY <2>2
<1> QED
  BY <1>2, <1>3, <1>4

\* What the number of bits gives the powers in usqrt: with small for the
\* sixteenth of the range.
small == Q!Power2[BITSPERLONG - 4]

LEMMA RootSizes ==
  ASSUME Q!IsqrtAssumption
  PROVE  /\ BITSPERLONG \in Nat /\ BITSPERLONG >= 4
         /\ small \in Nat \ {0}
         /\ Q!Long = 16 * small
         /\ Q!Power2[BITSPERLONG - 2] = 4 * small
         /\ Q!Power2[2 * (BITSPERLONG - 1)] = 64 * (small * small)
<1> DEFINE k == BITSPERLONG - 4
<1>1. BITSPERLONG \in Nat /\ BITSPERLONG >= 4
  BY DEF Q!IsqrtAssumption
<1>2. /\ k \in Nat /\ k + 1 \in Nat /\ (k + 1) + 1 \in Nat /\ ((k + 1) + 1) + 1 \in Nat
      /\ (k + 1) + 1 = BITSPERLONG - 2 /\ ((k + 1) + 1) + 1 = BITSPERLONG - 1
      /\ (((k + 1) + 1) + 1) + 1 = BITSPERLONG
      /\ 2 * (BITSPERLONG - 1) = (BITSPERLONG - 1) + (BITSPERLONG - 1)
      /\ BITSPERLONG - 1 \in Nat
  BY <1>1
<1>3. small = Q!Power2[k] /\ small \in Nat \ {0}
  BY <1>2, PowerFacts DEF small
<1> HIDE DEF k
<1>4. /\ Q!Power2[k + 1] = 2 * small /\ Q!Power2[(k + 1) + 1] = 2 * Q!Power2[k + 1]
      /\ Q!Power2[((k + 1) + 1) + 1] = 2 * Q!Power2[(k + 1) + 1]
      /\ Q!Power2[(((k + 1) + 1) + 1) + 1] = 2 * Q!Power2[((k + 1) + 1) + 1]
  BY <1>2, <1>3, PowerFacts
<1>5. /\ Q!Power2[BITSPERLONG - 2] = 4 * small /\ Q!Power2[BITSPERLONG - 1] = 8 * small
      /\ Q!Long = 16 * small
  BY <1>2, <1>3, <1>4 DEF Q!Long
<1>6. Q!Power2[2 * (BITSPERLONG - 1)] = (8 * small) * (8 * small)
  BY <1>2, <1>5, PowerOfSum
<1>7. \A a \in Nat : (8 * a) * (8 * a) = 64 * (a * a)
  OBVIOUS
<1> QED
  BY <1>1, <1>3, <1>5, <1>6, <1>7

LEMMA TimesKeeps ==
  ASSUME NEW a \in Nat, NEW b \in Nat, NEW k \in Nat, a <= b
  PROVE  a * k \in Nat /\ b * k \in Nat /\ a * k <= b * k
<1>1. PICK d \in Nat : b = a + d
  <2>1. b - a \in Nat /\ b = a + (b - a)
    OBVIOUS
  <2> QED
    BY <2>1
<1>2. b * k = (a * k) + (d * k) /\ a * k \in Nat /\ d * k \in Nat
  BY <1>1
<1> QED
  BY <1>2

\* Before the last turn the root is at most an eighth of the range, and if it
\* is that, there is no remainder.
LEMMA RootBound ==
  ASSUME NEW c \in Nat \ {0}, NEW e \in 0..c, NEW w \in Nat, w <= 64 * (c * c),
         NEW a \in Nat, NEW r \in Nat, NEW x \in Nat,
         e * w = ((a * a) + r) * (16 * c) + x
  PROVE  a <= 2 * c /\ (a = 2 * c => r = 0)
<1> DEFINE p == (a * a) + r
           cc == c * c
<1>1. a * a \in Nat /\ p \in Nat /\ cc \in Nat /\ c * cc \in Nat /\ p >= a * a
  <2>1. \A i, j \in Nat : i * j \in Nat
    OBVIOUS
  <2> QED
    BY <2>1
<1>2. p * (16 * c) <= c * (64 * cc)
  <2>1. e * w <= c * w
    BY TimesKeeps
  <2>2. w * c <= (64 * cc) * c
    BY <1>1, TimesKeeps
  <2>3. c * w = w * c /\ (64 * cc) * c = c * (64 * cc)
    OBVIOUS
  <2>4. c * w \in Nat /\ e * w \in Nat /\ p * (16 * c) \in Nat /\ c * (64 * cc) \in Nat
    <3>1. \A i, j \in Nat : i * j \in Nat
      OBVIOUS
    <3> QED
      BY <1>1, <3>1
  <2>5. e * w = p * (16 * c) + x
    OBVIOUS
  <2> HIDE DEF p, cc
  <2> QED
    BY <2>1, <2>2, <2>3, <2>4, <2>5
<1>3. p <= 4 * cc
  <2> SUFFICES ASSUME (4 * cc) + 1 <= p
               PROVE  FALSE
    BY <1>1
  <2>1. ((4 * cc) + 1) * (16 * c) <= p * (16 * c)
    BY <1>1, TimesKeeps
  <2>2. ((4 * cc) + 1) * (16 * c) = c * (64 * cc) + 16 * c
    <3>1. \A i, j \in Nat : ((4 * j) + 1) * (16 * i) = i * (64 * j) + 16 * i
      OBVIOUS
    <3> HIDE DEF cc
    <3> QED
      BY <1>1, <3>1
  <2>3. p * (16 * c) \in Nat /\ c * (64 * cc) \in Nat
    <3>1. \A i, j \in Nat : i * j \in Nat
      OBVIOUS
    <3> QED
      BY <1>1, <3>1
  <2> HIDE DEF p, cc
  <2> QED
    BY <1>2, <2>1, <2>2, <2>3
<1>4. a <= 2 * c
  <2> SUFFICES ASSUME (2 * c) + 1 <= a
               PROVE  FALSE
    OBVIOUS
  <2>1. ((2 * c) + 1) * ((2 * c) + 1) <= a * ((2 * c) + 1)
    BY TimesKeeps
  <2>2. ((2 * c) + 1) * a <= a * a
    BY TimesKeeps
  <2>3. ((2 * c) + 1) * ((2 * c) + 1) = 4 * cc + 4 * c + 1
    <3>1. \A i \in Nat : ((2 * i) + 1) * ((2 * i) + 1) = 4 * (i * i) + 4 * i + 1
      OBVIOUS
    <3> QED
      BY <3>1
  <2>4. ((2 * c) + 1) * a = a * ((2 * c) + 1) /\ a * ((2 * c) + 1) \in Nat
    OBVIOUS
  <2> QED
    BY <1>1, <1>3, <2>1, <2>2, <2>3, <2>4
<1>5. a = 2 * c => r = 0
  <2>1. \A i \in Nat : (2 * i) * (2 * i) = 4 * (i * i)
    OBVIOUS
  <2>2. a = 2 * c => a * a = 4 * cc
    BY <2>1
  <2> HIDE DEF cc
  <2> QED
    BY <1>1, <1>3, <2>2
<1> QED
  BY <1>4, <1>5

\* As long as nothing overflows: root and remainder are those of the digits
\* gone through, and rest has the digits to come.
RootOfPrefix ==
  /\ root \in Nat /\ remainder \in Nat /\ rest \in 0..(Q!Long - 1)
  /\ remainder <= 2 * root
  /\ entry * Q!Power2[2 * turns] = ((root * root) + remainder) * Q!Long + rest

RootInv ==
  /\ entry \in Nat /\ turns \in 0..BITSPERLONG
  /\ entry <= small => RootOfPrefix

LEMMA RootInit ==
  ASSUME Q!IsqrtAssumption, Q!Init
  PROVE  RootInv
<1>1. /\ entry \in 0..(Q!Long - 1) /\ rest = entry /\ root = 0 /\ remainder = 0 /\ turns = 0
  BY DEF Q!Init
<1>2. Q!Long \in Nat /\ BITSPERLONG \in Nat
  BY RootSizes
<1>3. 2 * turns = 0 /\ Q!Power2[2 * turns] = 1 /\ entry * 1 = entry
  BY <1>1, PowerFacts
<1>4. ((root * root) + remainder) * Q!Long = 0
  BY <1>1, <1>2
<1> QED
  BY <1>1, <1>2, <1>3, <1>4 DEF RootInv, RootOfPrefix

\* The two bits a turn takes from rest, and what is left of it.
LEMMA TopBits ==
  ASSUME NEW c \in Nat \ {0}, NEW x \in 0..((16 * c) - 1)
  PROVE  /\ x \div (4 * c) \in 0..3
         /\ (4 * x) % (16 * c) \in 0..((16 * c) - 1)
         /\ 4 * x = (x \div (4 * c)) * (16 * c) + ((4 * x) % (16 * c))
<1> DEFINE q == x \div (4 * c)
           z == x % (4 * c)
           y == 4 * z
<1>1. 4 * c \in Nat \ {0} /\ 16 * c \in Nat \ {0} /\ x \in Nat
  OBVIOUS
<1>2. x = (q * (4 * c)) + z /\ z \in 0..((4 * c) - 1) /\ q \in Nat
  BY <1>1, DivMod
<1>3. q <= 3
  <2> SUFFICES ASSUME 4 <= q
               PROVE  FALSE
    BY <1>2
  <2>1. 4 * (4 * c) <= q * (4 * c)
    BY <1>1, <1>2, TimesKeeps
  <2> QED
    BY <1>2, <2>1
<1>4. 4 * x = (q * (16 * c)) + y /\ y \in 0..((16 * c) - 1)
  <2>1. \A i, j \in Nat : 4 * (i * (4 * j)) = i * (16 * j)
    OBVIOUS
  <2>2. 4 * (q * (4 * c)) = q * (16 * c)
    BY <1>2, <2>1
  <2>3. q * (4 * c) \in Nat
    <3>1. \A i, j \in Nat : i * j \in Nat
      OBVIOUS
    <3> QED
      BY <1>1, <1>2, <3>1
  <2> HIDE DEF q, z
  <2> QED
    BY <1>2, <2>2, <2>3
<1>5. (4 * x) % (16 * c) = y
  <2> HIDE DEF q, z, y
  <2> QED
    BY <1>1, <1>2, <1>4, DivIs
<1> QED
  BY <1>2, <1>3, <1>4, <1>5

\* A turn, as arithmetic: with the next digit d of the number, two bits wide,
\* the root gets one bit more and stays the root.
LEMMA NextRoot ==
  ASSUME NEW a \in Nat, NEW r \in Nat, r <= 2 * a, NEW d \in 0..3
  PROVE  /\ (4 * r) + d >= (4 * a) + 1 =>
              /\ ((4 * r) + d) - ((4 * a) + 1) \in Nat
              /\ ((4 * r) + d) - ((4 * a) + 1) <= 2 * ((2 * a) + 1)
              /\ (((2 * a) + 1) * ((2 * a) + 1)) + (((4 * r) + d) - ((4 * a) + 1))
                    = 4 * ((a * a) + r) + d
         /\ ~((4 * r) + d >= (4 * a) + 1) =>
              /\ (4 * r) + d <= 2 * (2 * a)
              /\ ((2 * a) * (2 * a)) + ((4 * r) + d) = 4 * ((a * a) + r) + d
<1>1. ((2 * a) + 1) * ((2 * a) + 1) = 4 * (a * a) + 4 * a + 1
  OBVIOUS
<1>2. (2 * a) * (2 * a) = 4 * (a * a) /\ a * a \in Nat
  OBVIOUS
<1> QED
  BY <1>1, <1>2

LEMMA SmallMod ==
  ASSUME NEW b \in Nat \ {0}, NEW x \in 0..(b - 1)
  PROVE  x % b = x
<1>1. (0 * b) + x = x
  OBVIOUS
<1> QED
  BY <1>1, DivIs

LEMMA RootTurn ==
  ASSUME Q!IsqrtAssumption, RootInv, Q!Turn
  PROVE  RootInv'
<1> DEFINE c == small
           bits == rest \div (4 * c)
           shifted == (4 * remainder) + bits
           e == (4 * root) + 1
<1>1. /\ turns < BITSPERLONG /\ turns' = turns + 1 /\ entry' = entry
      /\ entry \in Nat /\ turns \in 0..BITSPERLONG /\ BITSPERLONG \in Nat
  BY RootSizes DEF RootInv, Q!Turn
<1>2. SUFFICES ASSUME entry <= small
               PROVE  RootOfPrefix'
  BY <1>1 DEF RootInv, small, Q!Power2
<1>3. /\ root \in Nat /\ remainder \in Nat /\ remainder <= 2 * root
      /\ c \in Nat \ {0} /\ Q!Long = 16 * c /\ rest \in 0..((16 * c) - 1)
      /\ entry * Q!Power2[2 * turns] = ((root * root) + remainder) * (16 * c) + rest
  BY <1>2, RootSizes DEF RootInv, RootOfPrefix
<1>4. /\ 2 * turns \in Nat /\ 2 * (BITSPERLONG - 1) \in Nat
      /\ 2 * turns <= 2 * (BITSPERLONG - 1)
      /\ 2 * (turns + 1) = ((2 * turns) + 1) + 1
  BY <1>1, RootSizes
<1>5. Q!Power2[2 * turns] \in Nat /\ Q!Power2[2 * turns] <= 64 * (c * c)
  BY <1>4, PowerFacts, PowerGrows, RootSizes
<1>6. root <= 2 * c /\ (root = 2 * c => remainder = 0)
  <2> HIDE DEF c
  <2>1. entry \in 0..c
    BY <1>1, <1>2, <1>3 DEF c
  <2> QED
    BY <1>3, <1>5, <2>1, RootBound
<1>7. /\ bits \in 0..3 /\ (4 * rest) % (16 * c) \in 0..((16 * c) - 1)
      /\ 4 * rest = bits * (16 * c) + ((4 * rest) % (16 * c))
  <2> HIDE DEF c
  <2> QED
    BY <1>3, TopBits
<1>8. /\ shifted \in 0..((16 * c) - 1) /\ 2 * root \in 0..((16 * c) - 1)
      /\ e \in 0..((16 * c) - 1)
  <2> HIDE DEF c, bits
  <2> QED
    BY <1>3, <1>6, <1>7
<1>9. /\ shifted % Q!Long = shifted /\ (2 * root) % Q!Long = 2 * root
      /\ ((2 * (2 * root)) + 1) % Q!Long = e
  <2>1. 16 * c \in Nat \ {0} /\ (2 * (2 * root)) + 1 = e
    BY <1>3
  <2> HIDE DEF c, shifted, e
  <2> QED
    BY <1>3, <1>8, <2>1, SmallMod
<1>10. Q!TOP2BITS(rest) = bits
  BY RootSizes DEF Q!TOP2BITS
<1>11. /\ rest' = (4 * rest) % (16 * c)
       /\ shifted >= e => remainder' = (shifted - e) % Q!Long /\ root' = (2 * root) + 1
       /\ ~(shifted >= e) => remainder' = shifted /\ root' = (2 * root) + 0
  <2> HIDE DEF c, bits, e
  <2> QED
    BY <1>3, <1>9, <1>10 DEF Q!Turn, Q!Subtract
<1>12. shifted >= e => (shifted - e) % Q!Long = shifted - e
  <2>1. shifted >= e => shifted - e \in 0..((16 * c) - 1)
    <3> HIDE DEF c, shifted, e
    <3> QED
      BY <1>3, <1>8
  <2>2. 16 * c \in Nat \ {0}
    BY <1>3
  <2> HIDE DEF c, shifted, e
  <2> QED
    BY <1>3, <2>1, <2>2, SmallMod
<1>13. /\ root' \in Nat /\ remainder' \in Nat /\ remainder' <= 2 * root'
       /\ (root' * root') + remainder' = 4 * ((root * root) + remainder) + bits
  <2>1. CASE shifted >= e
    <3> HIDE DEF bits
    <3> QED
      BY <1>3, <1>7, <1>11, <1>12, <2>1, NextRoot
  <2>2. CASE ~(shifted >= e)
    <3>1. root' = 2 * root /\ remainder' = shifted
      BY <1>3, <1>11, <2>2
    <3> HIDE DEF bits
    <3> QED
      BY <1>3, <1>7, <2>2, <3>1, NextRoot
  <2> QED
    BY <2>1, <2>2
<1>14. entry * Q!Power2[2 * (turns + 1)] = 4 * (entry * Q!Power2[2 * turns])
  <2>1. Q!Power2[2 * (turns + 1)] = 4 * Q!Power2[2 * turns]
    <3>1. (2 * turns) + 1 \in Nat /\ Q!Power2[(2 * turns) + 1] = 2 * Q!Power2[2 * turns]
      BY <1>4, PowerFacts
    <3>2. Q!Power2[((2 * turns) + 1) + 1] = 2 * Q!Power2[(2 * turns) + 1]
      BY <3>1, PowerFacts
    <3> QED
      BY <1>4, <1>5, <3>1, <3>2
  <2>2. \A i, j \in Nat : i * (4 * j) = 4 * (i * j)
    OBVIOUS
  <2> QED
    BY <1>1, <1>5, <2>1, <2>2
<1>15. entry * Q!Power2[2 * (turns + 1)]
         = ((root' * root') + remainder') * (16 * c) + rest'
  <2> DEFINE p == (root * root) + remainder
             w == entry * Q!Power2[2 * turns]
             n == (root' * root') + remainder'
             w4 == entry * Q!Power2[2 * (turns + 1)]
  <2>1. p \in Nat
    BY <1>3
  <2>2. \A i, j, k \in Nat : ((4 * i) + k) * (16 * j) = 4 * (i * (16 * j)) + k * (16 * j)
    OBVIOUS
  <2>3. ((4 * p) + bits) * (16 * c) = 4 * (p * (16 * c)) + bits * (16 * c)
    <3> HIDE DEF p, bits, c
    <3> QED
      BY <1>3, <1>7, <2>1, <2>2
  <2>4. p * (16 * c) \in Nat /\ bits * (16 * c) \in Nat
    <3>1. \A i, j \in Nat : i * j \in Nat
      OBVIOUS
    <3> HIDE DEF p, bits, c
    <3> QED
      BY <1>3, <1>7, <2>1, <3>1
  <2>5. w = p * (16 * c) + rest
    BY <1>3
  <2>6. w4 = 4 * w /\ n = (4 * p) + bits
    BY <1>13, <1>14
  <2>7. 4 * rest = bits * (16 * c) + rest' /\ rest \in Nat /\ rest' \in Nat
    BY <1>3, <1>7, <1>11
  <2>8. n * (16 * c) = ((4 * p) + bits) * (16 * c)
    BY <2>6
  <2>9. w4 = n * (16 * c) + rest'
    <3> DEFINE pl == p * (16 * c)
               bl == bits * (16 * c)
               nl == n * (16 * c)
    <3>1. /\ nl = 4 * pl + bl /\ pl \in Nat /\ bl \in Nat
          /\ w = pl + rest /\ 4 * rest = bl + rest'
          /\ rest \in Nat /\ rest' \in Nat /\ w4 = 4 * w
      BY <2>3, <2>4, <2>5, <2>6, <2>7, <2>8
    <3>2. pl \in Nat /\ bl \in Nat /\ rest' \in Nat /\ 4 * rest = bl + rest'
      BY <3>1
    <3>3. 4 * (pl + rest) = (4 * pl + bl) + rest'
      <4> HIDE DEF p, w, n, w4, bits, c, pl, bl, nl
      <4>1. 4 * (pl + rest) = 4 * pl + 4 * rest
        BY <3>1
      <4> QED
        BY <3>2, <4>1, Z3
    <3>4. w4 = nl + rest'
      <4> HIDE DEF p, w, n, w4, bits, c, pl, bl, nl
      <4> QED
        BY <3>1, <3>3, Zenon
    <3> QED
      BY <3>4
  <2> QED
    BY <2>9
<1>16. Q!Long' = Q!Long /\ Q!Power2' = Q!Power2
  BY DEF Q!Long, Q!Power2
<1> QED
  BY <1>1, <1>3, <1>7, <1>11, <1>13, <1>15, <1>16 DEF RootOfPrefix

\* What has been gone through is the number shifted by two bits a turn.
LEMMA PrefixIs ==
  ASSUME Q!IsqrtAssumption, RootInv, RootOfPrefix
  PROVE  Q!Prefix = (root * root) + remainder
<1> DEFINE p == (root * root) + remainder
           L == Q!Long
           M == Q!Power2[2 * (BITSPERLONG - turns)]
           N == Q!Power2[2 * turns]
           y == (entry * L) - (p * M)
<1>1. /\ BITSPERLONG \in Nat /\ turns \in 0..BITSPERLONG /\ entry \in Nat
      /\ L \in Nat \ {0} /\ p \in Nat /\ rest \in 0..(L - 1)
      /\ entry * N = (p * L) + rest
  BY RootSizes DEF RootInv, RootOfPrefix
<1>2. /\ 2 * turns \in Nat /\ 2 * (BITSPERLONG - turns) \in Nat
      /\ 2 * (BITSPERLONG - turns) + 2 * turns = BITSPERLONG + BITSPERLONG
  BY <1>1
<1>3. M \in Nat \ {0} /\ N \in Nat \ {0}
  BY <1>2, PowerFacts
<1>4. M * N = L * L
  <2>1. Q!Power2[2 * (BITSPERLONG - turns) + 2 * turns] = M * N
    BY <1>2, PowerOfSum
  <2>2. Q!Power2[BITSPERLONG + BITSPERLONG] = L * L
    BY <1>1, PowerOfSum DEF Q!Long
  <2> QED
    BY <1>2, <2>1, <2>2, Zenon
<1> HIDE DEF p, L, M, N
<1>5. rest * M = L * y
  <2>1. (entry * N) * M = ((p * L) + rest) * M
    BY <1>1
  <2>2. \A i, j, k \in Nat : (i * j) * k = i * (k * j)
    OBVIOUS
  <2>3. (entry * N) * M = entry * (L * L)
    BY <1>1, <1>3, <1>4, <2>2
  <2>4. \A i, j, k, h \in Nat : ((i * j) + k) * h = (j * (i * h)) + (k * h)
    OBVIOUS
  <2>5. ((p * L) + rest) * M = (L * (p * M)) + (rest * M)
    BY <1>1, <1>3, <2>4
  <2>6. \A i, j \in Nat : i * (j * j) = j * (i * j)
    OBVIOUS
  <2>7. entry * (L * L) = L * (entry * L)
    BY <1>1, <2>6
  <2>8. p * M \in Nat /\ entry * L \in Nat /\ rest * M \in Nat
    <3>1. \A i, j \in Nat : i * j \in Nat
      OBVIOUS
    <3> QED
      BY <1>1, <1>3, <3>1
  <2>9. \A i, j, k \in Nat, h \in Nat : h * i = (h * j) + k => k = h * (i - j)
    OBVIOUS
  <2> QED
    BY <1>1, <2>1, <2>3, <2>5, <2>7, <2>8, <2>9
<1>6. y \in Int /\ entry * L = (p * M) + y
  <2>1. \A i, j \in Nat : i * j \in Nat
    OBVIOUS
  <2>2. entry * L \in Nat /\ p * M \in Nat
    BY <1>1, <1>3, <2>1
  <2> QED
    BY <2>2
<1> HIDE DEF y
<1>7. y \in 0..(M - 1)
  <2>1. rest * M \in Nat /\ rest * M < L * M
    <3>1. rest + 1 <= L
      BY <1>1
    <3>2. (rest + 1) * M <= L * M
      BY <1>1, <1>3, <3>1, TimesKeeps
    <3>3. \A i \in Nat, j \in Nat \ {0} : i * j \in Nat /\ i * j < (i + 1) * j
      OBVIOUS
    <3>4. rest * M \in Nat /\ rest * M < (rest + 1) * M
      BY <1>1, <1>3, <3>3
    <3>5. (rest + 1) * M \in Nat /\ L * M \in Nat
      BY <1>1, <1>3, <3>1, TimesKeeps
    <3> QED
      BY <3>2, <3>4, <3>5
  <2>2. \A h \in Nat \ {0}, i \in Int, m \in Nat \ {0} :
          h * i >= 0 /\ h * i < h * m => i >= 0 /\ i < m
    <3> SUFFICES ASSUME NEW h \in Nat \ {0}, NEW i \in Int, NEW m \in Nat \ {0},
                        h * i >= 0, h * i < h * m
                 PROVE  i >= 0 /\ i < m
      OBVIOUS
    <3>1. i >= 0
      <4> SUFFICES ASSUME -i \in Nat \ {0}
                   PROVE  FALSE
        OBVIOUS
      <4>1. 1 * h <= (-i) * h
        BY TimesKeeps
      <4>2. (-i) * h = -(h * i)
        OBVIOUS
      <4> QED
        BY <4>1, <4>2
    <3>2. i < m
      <4> SUFFICES ASSUME m <= i
                   PROVE  FALSE
        OBVIOUS
      <4>1. m * h <= i * h
        BY <3>1, TimesKeeps
      <4>2. m * h = h * m /\ i * h = h * i /\ h * m \in Nat /\ h * i \in Int
        OBVIOUS
      <4> QED
        BY <4>1, <4>2
    <3> QED
      BY <3>1, <3>2
  <2>3. L * M = M * L /\ L * y >= 0 /\ L * y < L * M
    BY <1>1, <1>3, <1>5, <2>1
  <2>4. y >= 0 /\ y < M
    BY <1>1, <1>3, <1>6, <2>2, <2>3
  <2> QED
    BY <1>3, <1>6, <2>4
<1>8. (entry * L) \div M = p
  BY <1>1, <1>3, <1>6, <1>7, DivIs
<1> QED
  BY <1>8 DEF Q!Prefix, p, L, M

\* usqrt of isqrt.c has, after each turn, the root of the digits gone through,
\* for words of any even width and numbers up to a sixteenth of their range.
THEOREM RootIsRight == Spec => []SmallRootRight
<1> DEFINE Inv == program = "Isqrt" => RootInv
<1>0. Q!IsqrtAssumption
  BY AlgorithmsAssumption
<1>1. Init => Inv
  BY <1>0, RootInit DEF Init
<1>2. Inv /\ [Next]_vars => Inv'
  <2> SUFFICES ASSUME Inv, [Next]_vars, program' = "Isqrt"
               PROVE  RootInv'
    OBVIOUS
  <2>1. program = "Isqrt" /\ RootInv /\ (Q!Next \/ UNCHANGED isqrt)
    BY DEF Next, vars, isqrt
  <2>2. CASE Q!Turn
    BY <1>0, <2>1, <2>2, RootTurn
  <2>3. CASE UNCHANGED isqrt
    BY <2>1, <2>3 DEF RootInv, RootOfPrefix, isqrt, small, Q!Long, Q!Power2
  <2> QED
    BY <2>1, <2>2, <2>3 DEF Q!Next
<1>3. Inv => SmallRootRight
  <2> SUFFICES ASSUME program = "Isqrt", RootInv, entry <= Q!Power2[BITSPERLONG - 4]
               PROVE  Q!IsRoot(root, Q!Prefix)
    BY DEF SmallRootRight, Q!SmallRootRight
  <2>1. RootOfPrefix
    BY DEF RootInv, small
  <2>2. root \in Nat /\ remainder \in Nat /\ remainder <= 2 * root
    BY <2>1 DEF RootOfPrefix
  <2>3. (root + 1) * (root + 1) = (root * root) + 2 * root + 1 /\ root * root \in Nat
    BY <2>2
  <2>4. Q!Prefix = (root * root) + remainder
    BY <1>0, <2>1, PrefixIs
  <2> QED
    BY <2>2, <2>3, <2>4 DEF Q!IsRoot
<1> QED
  BY <1>1, <1>2, <1>3, PTL DEF Spec
-----------------------------------------------------------------------------
(* rc4_init and rc4_crypt.                                                 *)

\* rc4_state, as far as it is needed here: that perm is a permutation is not.
CipherState == [perm : [R!Byte -> R!Byte], index1 : R!Byte, index2 : R!Byte]

\* All the states a key goes through.
Stream(f) == f \in [Nat -> CipherState] /\ \A n \in Nat : f[n + 1] = R!Turn(f[n])

LEMMA SwapTyped ==
  ASSUME NEW perm \in [R!Byte -> R!Byte], NEW i \in R!Byte, NEW j \in R!Byte
  PROVE  R!swap_bytes(perm, i, j) \in [R!Byte -> R!Byte]
  BY DEF R!swap_bytes

LEMMA ByteMod ==
  ASSUME R!Rc4Assumption
  PROVE  /\ ByteValues \in Nat \ {0} /\ 0 \in R!Byte /\ R!Byte \subseteq Nat
         /\ \A n \in Nat : n % ByteValues \in R!Byte
<1>1. ByteValues \in Nat \ {0}
  BY DEF R!Rc4Assumption
<1> QED
  BY <1>1 DEF R!Byte

\* rc4_init makes a state of a key.
LEMMA InitTyped ==
  ASSUME R!Rc4Assumption, NEW key \in Keys
  PROVE  R!rc4_init(key) \in CipherState
<1>1. key \in Seq(R!Byte) /\ Len(key) \in Nat \ {0}
  BY DEF R!Rc4Assumption
<1> DEFINE V == [perm : [R!Byte -> R!Byte], j : R!Byte]
           first == [perm |-> [b \in R!Byte |-> b], j |-> 0]
           NextJ(n, v) == (v.j + v.perm[n] + key[(n % Len(key)) + 1]) % ByteValues
           After(n, v) == [perm |-> R!swap_bytes(v.perm, n, NextJ(n, v)), j |-> NextJ(n, v)]
           F == [e \in Nat \X V |-> IF e[1] < ByteValues THEN After(e[1], e[2]) ELSE e[2]]
<1>2. first \in V
  BY ByteMod
<1>3. ASSUME NEW n \in Nat, n < ByteValues, NEW v \in V
      PROVE  After(n, v) \in V
  <2>1. n \in R!Byte
    BY <1>3, ByteMod DEF R!Byte
  <2>2. /\ v.perm \in [R!Byte -> R!Byte] /\ v.perm[n] \in Nat /\ v.j \in Nat
    BY <2>1, ByteMod
  <2>3. key[(n % Len(key)) + 1] \in Nat
    <3>1. n % Len(key) \in 0..(Len(key) - 1)
      BY <1>1
    <3>2. (n % Len(key)) + 1 \in 1..Len(key)
      BY <1>1, <3>1
    <3> QED
      BY <1>1, <3>2, ByteMod
  <2>4. NextJ(n, v) \in R!Byte
    <3> DEFINE sum == v.j + v.perm[n] + key[(n % Len(key)) + 1]
    <3>1. sum \in Nat
      BY <2>2, <2>3
    <3> HIDE DEF sum
    <3>2. sum % ByteValues \in R!Byte
      BY <3>1, ByteMod
    <3> QED
      BY <3>2 DEF sum
  <2> HIDE DEF NextJ
  <2>5. R!swap_bytes(v.perm, n, NextJ(n, v)) \in [R!Byte -> R!Byte]
    BY <2>1, <2>2, <2>4, SwapTyped
  <2> QED
    BY <2>4, <2>5
<1>4. F \in [Nat \X V -> V]
  <2> HIDE DEF After, V
  <2>1. \A e \in Nat \X V : (IF e[1] < ByteValues THEN After(e[1], e[2]) ELSE e[2]) \in V
    BY <1>3
  <2> QED
    BY <2>1
<1>5. PICK f \in [Nat -> V] : Iterates(f, first, F)
  <2> HIDE DEF F, V, first
  <2> QED
    BY <1>2, <1>4, Recursion
<1>6. \A n \in Nat : n < ByteValues => f[n + 1] = After(n, f[n])
  <2> HIDE DEF After, V
  <2>1. \A n \in Nat : f[n] \in V /\ <<n, f[n]>> \in Nat \X V
    OBVIOUS
  <2> QED
    BY <1>5, <2>1 DEF Iterates
<1> DEFINE Turned(g) == [i \in 0..ByteValues |-> IF i = 0 THEN first ELSE After(i - 1, g[i - 1])]
           loop == CHOOSE g : g = Turned(g)
<1>7. R!rc4_init(key) = [perm |-> loop[ByteValues].perm, index1 |-> 0, index2 |-> 0]
  BY DEF R!rc4_init
<1>8. loop = Turned(loop)
  <2> DEFINE g == [i \in 0..ByteValues |-> f[i]]
  <2>1. ASSUME NEW i \in 0..ByteValues
        PROVE  f[i] = IF i = 0 THEN first ELSE After(i - 1, g[i - 1])
    <3>1. i # 0 => /\ i - 1 \in Nat /\ i - 1 < ByteValues /\ (i - 1) + 1 = i
                   /\ i - 1 \in 0..ByteValues
      BY ByteMod
    <3>2. i # 0 => g[i - 1] = f[i - 1]
      BY <3>1
    <3> HIDE DEF After, first, g
    <3> QED
      BY <1>5, <1>6, <3>1, <3>2 DEF Iterates
  <2>2. g = Turned(g)
    <3> HIDE DEF After, first
    <3> QED
      BY <2>1
  <2> HIDE DEF Turned, g
  <2> QED
    BY <2>2
<1>9. loop[ByteValues] \in V
  <2> DEFINE Ks == {n \in Nat : n <= ByteValues => loop[n] \in V}
  <2>1. 0 \in Ks
    <3>1. loop[0] = first
      <4> HIDE DEF loop, After, first
      <4>1. 0 \in 0..ByteValues
        BY ByteMod
      <4> QED
        BY <1>8, <4>1
    <3> QED
      BY <3>1, <1>2
  <2>2. \A n \in Nat : n \in Ks => n + 1 \in Ks
    <3> HIDE DEF loop, After, V, first
    <3>1. SUFFICES ASSUME NEW n \in Nat, n \in Ks, n + 1 <= ByteValues
                   PROVE  loop[n + 1] \in V
      OBVIOUS
    <3>2. n + 1 \in 0..ByteValues /\ n + 1 # 0 /\ (n + 1) - 1 = n /\ n < ByteValues
      BY <3>1, ByteMod
    <3>3. loop[n + 1] = After(n, loop[n])
      BY <1>8, <3>2
    <3>4. loop[n] \in V
      BY <3>1, <3>2, ByteMod
    <3> QED
      BY <1>3, <3>2, <3>3, <3>4
  <2> HIDE DEF loop, V, first, After
  <2>3. \A n \in Nat : n <= ByteValues => loop[n] \in V
    <3>1. Nat \subseteq Ks
      <4> HIDE DEF Ks
      <4> QED
        BY <2>1, <2>2, SetInduction
    <3> QED
      BY <3>1, Zenon
  <2>4. ByteValues \in Nat /\ ByteValues <= ByteValues
    BY ByteMod
  <2> QED
    BY <2>3, <2>4, Zenon
<1> HIDE DEF loop
<1> QED
  BY <1>7, <1>9, ByteMod DEF CipherState

LEMMA TurnTyped ==
  ASSUME R!Rc4Assumption, NEW st \in CipherState
  PROVE  R!Turn(st) \in CipherState /\ R!KeyByte(st) \in R!Byte
<1>1. /\ st.perm \in [R!Byte -> R!Byte] /\ st.index1 \in R!Byte /\ st.index2 \in R!Byte
      /\ \A b \in R!Byte : st.perm[b] \in R!Byte
  BY DEF CipherState
<1> DEFINE one == (st.index1 + 1) % ByteValues
           two == (st.index2 + st.perm[one]) % ByteValues
           sum == st.perm[st.index1] + st.perm[st.index2]
<1>2. one \in R!Byte
  <2>1. st.index1 + 1 \in Nat
    BY <1>1, ByteMod
  <2> QED
    BY <2>1, ByteMod
<1>3. two \in R!Byte
  <2> HIDE DEF one
  <2>1. st.index2 + st.perm[one] \in Nat
    BY <1>1, <1>2, ByteMod
  <2> QED
    BY <2>1, ByteMod
<1>4. sum % ByteValues \in R!Byte
  <2>1. sum \in Nat
    BY <1>1, ByteMod
  <2> HIDE DEF sum
  <2> QED
    BY <2>1, ByteMod
<1>5. R!Turn(st) = [perm |-> R!swap_bytes(st.perm, one, two), index1 |-> one, index2 |-> two]
  BY DEF R!Turn
<1>6. R!KeyByte(st) = st.perm[sum % ByteValues]
  BY DEF R!KeyByte
<1> HIDE DEF one, two, sum
<1>7. R!swap_bytes(st.perm, one, two) \in [R!Byte -> R!Byte]
  BY <1>1, <1>2, <1>3, SwapTyped
<1> QED
  BY <1>1, <1>2, <1>3, <1>4, <1>5, <1>6, <1>7 DEF CipherState

\* The states a state leads to.
LEMMA StreamOf ==
  ASSUME R!Rc4Assumption, NEW st \in CipherState
  PROVE  \E f : Stream(f) /\ f[0] = st
<1> DEFINE F == [e \in Nat \X CipherState |-> R!Turn(e[2])]
<1>1. F \in [Nat \X CipherState -> CipherState]
  BY TurnTyped
<1>2. PICK f \in [Nat -> CipherState] : Iterates(f, st, F)
  <2> HIDE DEF F
  <2> QED
    BY <1>1, Recursion
<1>3. \A n \in Nat : f[n] \in CipherState /\ <<n, f[n]>> \in Nat \X CipherState
  OBVIOUS
<1>4. Stream(f) /\ f[0] = st
  BY <1>2, <1>3 DEF Iterates, Stream
<1> QED
  BY <1>4

\* A call of rc4_crypt goes on along the states and leaves the state it ends in.
Crypts(f, m, inbuf) ==
  /\ R!rc4_crypt(f[m], inbuf).state = f[m + Len(inbuf)]
  /\ R!rc4_crypt(f[m], inbuf).outbuf =
       [n \in 1..Len(inbuf) |-> BitXor(inbuf[n], R!KeyByte(f[m + n]))]

LEMMA CryptIs ==
  ASSUME NEW f, Stream(f), NEW m \in Nat, NEW V, NEW inbuf \in Seq(V)
  PROVE  Crypts(f, m, inbuf)
<1> DEFINE k == Len(inbuf)
           Turned(g) == [n \in 0..k |-> IF n = 0 THEN f[m] ELSE R!Turn(g[n - 1])]
           loop == CHOOSE g : g = Turned(g)
<1>1. R!rc4_crypt(f[m], inbuf) =
        [state |-> loop[k],
         outbuf |-> [n \in 1..k |-> BitXor(inbuf[n], R!KeyByte(loop[n]))]]
  BY DEF R!rc4_crypt
<1>2. k \in Nat
  OBVIOUS
<1> HIDE DEF k
<1>3. loop = Turned(loop)
  <2> DEFINE g == [i \in 0..k |-> f[m + i]]
  <2>1. ASSUME NEW i \in 0..k
        PROVE  f[m + i] = IF i = 0 THEN f[m] ELSE R!Turn(g[i - 1])
    <3>1. i # 0 => /\ i - 1 \in 0..k /\ m + (i - 1) \in Nat /\ (m + (i - 1)) + 1 = m + i
      BY <1>2
    <3>2. i # 0 => g[i - 1] = f[m + (i - 1)]
      BY <3>1
    <3>3. i = 0 => m + i = m
      OBVIOUS
    <3> HIDE DEF g
    <3> QED
      BY <3>1, <3>2, <3>3 DEF Stream
  <2>2. g = Turned(g)
    BY <2>1
  <2> HIDE DEF Turned, g
  <2> QED
    BY <2>2
<1> HIDE DEF loop
<1> DEFINE Ks == {n \in Nat : n <= k => loop[n] = f[m + n]}
<1>4. 0 \in Ks
  <2>1. loop[0] = f[m]
    BY <1>2, <1>3
  <2> QED
    BY <2>1
<1>5. \A n \in Nat : n \in Ks => n + 1 \in Ks
  <2>1. SUFFICES ASSUME NEW n \in Nat, n \in Ks, n + 1 <= k
                 PROVE  loop[n + 1] = f[m + (n + 1)]
    OBVIOUS
  <2>2. n + 1 \in 0..k /\ n + 1 # 0 /\ (n + 1) - 1 = n /\ m + (n + 1) = (m + n) + 1
        /\ m + n \in Nat /\ n <= k
    BY <1>2, <2>1
  <2>3. loop[n + 1] = R!Turn(loop[n])
    BY <1>3, <2>2
  <2>4. loop[n] = f[m + n]
    BY <2>1, <2>2
  <2> QED
    BY <2>2, <2>3, <2>4 DEF Stream
<1>6. Nat \subseteq Ks
  <2> HIDE DEF Ks
  <2> QED
    BY <1>4, <1>5, SetInduction
<1>7. loop[k] = f[m + k] /\ \A n \in 1..k : loop[n] = f[m + n]
  BY <1>2, <1>6
<1> QED
  BY <1>1, <1>7 DEF k, Crypts

\* The bytes as they are sent.
Crypted == {BitXor(v, b) : v \in R!Byte, b \in R!Byte}

\* Sender and receiver go through the states of the key, each as far as it has
\* worked off bytes, and each byte on the wire is made with the state of its
\* place.
AlongStream(f) ==
  /\ Stream(f)
  /\ sender = f[Len(plain)] /\ receiver = f[Len(got)]
  /\ \A n \in 1..Len(wire) :
       wire[n] = BitXor(plain[Len(got) + n], R!KeyByte(f[Len(got) + n]))

Rc4Types ==
  /\ plain \in Seq(R!Byte) /\ wire \in Seq(Crypted) /\ got \in Seq(R!Byte)
  /\ Len(got) + Len(wire) = Len(plain)

GotIs == \A n \in 1..Len(got) : got[n] = plain[n]

Rc4Inv == Rc4Types /\ GotIs /\ \E f : AlongStream(f)

\* What two texts one after the other have at each place.
LEMMA Chained ==
  ASSUME NEW V, NEW head \in Seq(V), NEW tail \in Seq(V), NEW whole, whole = head \o tail
  PROVE  /\ whole \in Seq(V) /\ Len(whole) = Len(head) + Len(tail)
         /\ \A n \in 1..Len(head) : whole[n] = head[n]
         /\ \A n \in 1..Len(tail) : whole[Len(head) + n] = tail[n]
<1>1. Len(head) \in Nat /\ Len(tail) \in Nat
  OBVIOUS
<1>2. /\ whole \in Seq(V) /\ Len(whole) = Len(head) + Len(tail)
      /\ \A i \in 1..Len(head) + Len(tail) :
           whole[i] = IF i <= Len(head) THEN head[i] ELSE tail[i - Len(head)]
  BY ConcatProperties
<1>3. ASSUME NEW n \in 1..Len(tail)
      PROVE  whole[Len(head) + n] = tail[n]
  <2>1. /\ Len(head) + n \in 1..Len(head) + Len(tail) /\ ~(Len(head) + n <= Len(head))
        /\ (Len(head) + n) - Len(head) = n
    BY <1>1
  <2> QED
    BY <1>2, <2>1
<1> QED
  BY <1>1, <1>2, <1>3

LEMMA Rc4Init == R!Rc4Assumption /\ R!Init => Rc4Inv
<1> SUFFICES ASSUME R!Rc4Assumption, R!Init
             PROVE  Rc4Inv
  OBVIOUS
<1>1. PICK key \in Keys : sender = R!rc4_init(key)
  BY DEF R!Init
<1>2. PICK f : Stream(f) /\ f[0] = sender
  BY <1>1, InitTyped, StreamOf
<1>3. receiver = sender /\ plain = <<>> /\ wire = <<>> /\ got = <<>>
  BY DEF R!Init
<1>4. AlongStream(f)
  BY <1>2, <1>3 DEF AlongStream
<1> QED
  BY <1>3, <1>4 DEF Rc4Inv, Rc4Types, GotIs

LEMMA CryptTyped ==
  ASSUME R!Rc4Assumption, NEW f, Stream(f), NEW v \in R!Byte, NEW n \in Nat
  PROVE  /\ BitXor(v, R!KeyByte(f[n])) \in Crypted
         /\ BitXor(BitXor(v, R!KeyByte(f[n])), R!KeyByte(f[n])) = v
<1>1. R!KeyByte(f[n]) \in R!Byte
  BY TurnTyped DEF Stream
<1> QED
  BY <1>1 DEF Crypted, R!Rc4Assumption

LEMMA EncryptKeeps ==
  ASSUME R!Rc4Assumption, Rc4Inv, R!Encrypt
  PROVE  Rc4Inv'
<1>1. PICK inbuf \in Seq(R!Byte) :
        /\ plain' = plain \o inbuf
        /\ wire' = wire \o R!rc4_crypt(sender, inbuf).outbuf
        /\ sender' = R!rc4_crypt(sender, inbuf).state
        /\ UNCHANGED <<receiver, got>>
  <2>1. ASSUME NEW k \in Nat, NEW inbuf \in [1..k -> R!Byte]
        PROVE  inbuf \in Seq(R!Byte)
    OBVIOUS
  <2>2. \A k \in 1..(MaxSent - Len(plain)) : k \in Nat
    OBVIOUS
  <2> QED
    BY <2>1, <2>2 DEF R!Encrypt
<1>2. PICK f : AlongStream(f)
  BY DEF Rc4Inv
<1>3. /\ plain \in Seq(R!Byte) /\ wire \in Seq(Crypted) /\ got \in Seq(R!Byte)
      /\ Len(plain) \in Nat /\ Len(wire) \in Nat /\ Len(got) \in Nat
      /\ Len(got) + Len(wire) = Len(plain)
  BY DEF Rc4Inv, Rc4Types
<1>4. inbuf \in Seq(R!Byte) /\ Len(inbuf) \in Nat
  OBVIOUS
<1> DEFINE m == Len(plain)
           k == Len(inbuf)
           out == [n \in 1..k |-> BitXor(inbuf[n], R!KeyByte(f[m + n]))]
<1>5. /\ R!rc4_crypt(f[m], inbuf).state = f[m + k]
      /\ R!rc4_crypt(f[m], inbuf).outbuf = out
  <2>1. Crypts(f, m, inbuf) /\ sender = f[m]
    BY <1>2, <1>3, <1>4, CryptIs DEF AlongStream
  <2> QED
    BY <2>1 DEF Crypts
<1>6. \A n \in 1..k : out[n] \in Crypted
  BY <1>2, <1>3, <1>4, CryptTyped DEF AlongStream
<1>7. out \in Seq(Crypted) /\ Len(out) = k
  BY <1>4, <1>6
<1>8. /\ plain' = plain \o inbuf /\ wire' = wire \o out /\ sender' = f[m + k]
      /\ receiver' = receiver /\ got' = got /\ sender = f[m] /\ receiver = f[Len(got)]
  BY <1>1, <1>2, <1>5 DEF AlongStream
<1>9. \A n \in 1..k : out[n] = BitXor(inbuf[n], R!KeyByte(f[m + n]))
  BY <1>4
<1> HIDE DEF out
<1>10. /\ plain' \in Seq(R!Byte) /\ Len(plain') = m + k
       /\ \A n \in 1..m : plain'[n] = plain[n]
       /\ \A n \in 1..k : plain'[m + n] = inbuf[n]
  BY <1>3, <1>4, <1>8, Chained
<1> HIDE DEF k, m
<1>11. /\ wire' \in Seq(Crypted) /\ Len(wire') = Len(wire) + k
       /\ \A n \in 1..Len(wire) : wire'[n] = wire[n]
       /\ \A n \in 1..k : wire'[Len(wire) + n] = out[n]
  <2>1. wire \in Seq(Crypted) /\ out \in Seq(Crypted) /\ wire' = wire \o out
    BY <1>3, <1>7, <1>8
  <2>2. /\ wire' \in Seq(Crypted) /\ Len(wire') = Len(wire) + Len(out)
        /\ \A n \in 1..Len(wire) : wire'[n] = wire[n]
        /\ \A n \in 1..Len(out) : wire'[Len(wire) + n] = out[n]
    BY <2>1, Chained
  <2> QED
    BY <1>7, <2>2
<1>12. m \in Nat /\ k \in Nat /\ m = Len(got) + Len(wire)
  BY <1>3, <1>4 DEF m, k
<1>13. Rc4Types' /\ GotIs'
  BY <1>3, <1>8, <1>10, <1>11, <1>12 DEF Rc4Types, GotIs, Rc4Inv
<1>14. ASSUME NEW n \in 1..Len(wire')
       PROVE  wire'[n] = BitXor(plain'[Len(got') + n], R!KeyByte(f[Len(got') + n]))
  <2>1. CASE n <= Len(wire)
    <3>1. n \in 1..Len(wire) /\ Len(got) + n \in 1..m
      BY <1>3, <1>12, <2>1
    <3>2. wire[n] = BitXor(plain[Len(got) + n], R!KeyByte(f[Len(got) + n]))
      BY <1>2, <3>1 DEF AlongStream
    <3> QED
      BY <1>8, <1>10, <1>11, <3>1, <3>2
  <2>2. CASE n > Len(wire)
    <3> DEFINE i == n - Len(wire)
    <3>1. i \in 1..k /\ n = Len(wire) + i /\ Len(got) + n = m + i
      BY <1>3, <1>11, <1>12, <2>2
    <3> HIDE DEF i
    <3>2. wire'[n] = out[i] /\ plain'[Len(got) + n] = inbuf[i]
      BY <1>10, <1>11, <3>1
    <3> QED
      BY <1>8, <1>9, <3>1, <3>2
  <2> QED
    BY <1>3, <1>11, <1>12, <2>1, <2>2
<1>15. AlongStream(f)'
  BY <1>2, <1>8, <1>10, <1>14 DEF AlongStream, Stream
<1> QED
  BY <1>13, <1>15 DEF Rc4Inv

LEMMA DecryptKeeps ==
  ASSUME R!Rc4Assumption, Rc4Inv, R!Decrypt
  PROVE  Rc4Inv'
<1>1. PICK k \in 1..Len(wire) :
        /\ got' = got \o R!rc4_crypt(receiver, SubSeq(wire, 1, k)).outbuf
        /\ receiver' = R!rc4_crypt(receiver, SubSeq(wire, 1, k)).state
        /\ wire' = SubSeq(wire, k + 1, Len(wire))
        /\ UNCHANGED <<sender, plain>>
  BY DEF R!Decrypt
<1>2. PICK f : AlongStream(f)
  BY DEF Rc4Inv
<1>3. /\ plain \in Seq(R!Byte) /\ wire \in Seq(Crypted) /\ got \in Seq(R!Byte)
      /\ Len(plain) \in Nat /\ Len(wire) \in Nat /\ Len(got) \in Nat
      /\ Len(got) + Len(wire) = Len(plain) /\ k \in Nat
  BY DEF Rc4Inv, Rc4Types
<1> DEFINE part == SubSeq(wire, 1, k)
           m == Len(got)
           out == [n \in 1..k |-> BitXor(part[n], R!KeyByte(f[m + n]))]
<1>4. part \in Seq(Crypted) /\ Len(part) = k /\ \A n \in 1..k : part[n] = wire[n]
  BY <1>3
<1>5. /\ R!rc4_crypt(f[m], part).state = f[m + k]
      /\ R!rc4_crypt(f[m], part).outbuf = out
  <2> HIDE DEF part
  <2> QED
    <3>1. receiver = f[m] /\ Stream(f) /\ m \in Nat
      BY <1>2, <1>3 DEF AlongStream
    <3>2. Crypts(f, m, part)
      <4>1. part \in Seq(Crypted)
        BY <1>4
      <4> HIDE DEF m
      <4> QED
        BY <3>1, <4>1, CryptIs
    <3> QED
      BY <1>4, <3>2 DEF Crypts
<1>6. \A n \in 1..k : out[n] = plain[m + n] /\ out[n] \in R!Byte
  <2> SUFFICES ASSUME NEW n \in 1..k
               PROVE  out[n] = plain[m + n] /\ out[n] \in R!Byte
    OBVIOUS
  <2>1. n \in 1..Len(wire) /\ m + n \in 1..Len(plain) /\ m + n \in Nat
    BY <1>3
  <2>2. plain[m + n] \in R!Byte
    BY <1>3, <2>1
  <2>3. wire[n] = BitXor(plain[m + n], R!KeyByte(f[m + n]))
    BY <1>2, <2>1 DEF AlongStream
  <2>4. out[n] = BitXor(wire[n], R!KeyByte(f[m + n]))
    <3> HIDE DEF part
    <3> QED
      BY <1>4
  <2>5. BitXor(BitXor(plain[m + n], R!KeyByte(f[m + n])), R!KeyByte(f[m + n])) = plain[m + n]
    BY <1>2, <2>1, <2>2, CryptTyped DEF AlongStream
  <2> HIDE DEF out
  <2> QED
    BY <2>2, <2>3, <2>4, <2>5
<1>7. out \in Seq(R!Byte) /\ Len(out) = k
  <2> HIDE DEF part
  <2> QED
    BY <1>3, <1>6
<1>8. /\ got' = got \o out /\ receiver' = f[m + k]
      /\ wire' = SubSeq(wire, k + 1, Len(wire)) /\ sender' = sender /\ plain' = plain
      /\ sender = f[Len(plain)]
  BY <1>1, <1>2, <1>5 DEF AlongStream
<1> HIDE DEF out, part
<1>9. /\ got' \in Seq(R!Byte) /\ Len(got') = m + k
      /\ \A n \in 1..m : got'[n] = got[n]
      /\ \A n \in 1..k : got'[m + n] = out[n]
  <2>1. got \in Seq(R!Byte) /\ out \in Seq(R!Byte) /\ got' = got \o out
    BY <1>3, <1>7, <1>8
  <2>2. /\ got' \in Seq(R!Byte) /\ Len(got') = Len(got) + Len(out)
        /\ \A n \in 1..Len(got) : got'[n] = got[n]
        /\ \A n \in 1..Len(out) : got'[Len(got) + n] = out[n]
    BY <2>1, Chained
  <2> QED
    BY <1>7, <2>2
<1> HIDE DEF m
<1>10. /\ wire' \in Seq(Crypted) /\ Len(wire') = Len(wire) - k
       /\ \A n \in 1..(Len(wire) - k) : wire'[n] = wire[k + n]
  BY <1>3, <1>8
<1>11. m \in Nat /\ m = Len(got)
  BY <1>3 DEF m
<1>12. GotIs'
  <2> SUFFICES ASSUME NEW n \in 1..Len(got')
               PROVE  got'[n] = plain'[n]
    BY DEF GotIs
  <2>1. CASE n <= m
    BY <1>8, <1>9, <1>11, <2>1 DEF Rc4Inv, GotIs
  <2>2. CASE n > m
    <3>1. n - m \in 1..k /\ n = m + (n - m)
      BY <1>3, <1>9, <1>11, <2>2
    <3> QED
      BY <1>6, <1>8, <1>9, <3>1
  <2> QED
    BY <1>3, <1>9, <1>11, <2>1, <2>2
<1>13. Rc4Types'
  <2>1. Len(got') + Len(wire') = Len(plain')
    <3>1. Len(got') = Len(got) + k /\ Len(wire') = Len(wire) - k /\ plain' = plain
      BY <1>8, <1>9, <1>10, <1>11, Zenon
    <3>2. /\ Len(got) \in Nat /\ Len(wire) \in Nat /\ k \in Nat
          /\ Len(got) + Len(wire) = Len(plain)
      BY <1>3, Zenon
    <3> QED
      BY <3>1, <3>2
  <2> QED
    BY <1>3, <1>8, <1>9, <1>10, <2>1, Zenon DEF Rc4Types
<1>14. ASSUME NEW n \in 1..Len(wire')
       PROVE  wire'[n] = BitXor(plain'[Len(got') + n], R!KeyByte(f[Len(got') + n]))
  <2>1. /\ n \in 1..(Len(wire) - k) /\ k + n \in 1..Len(wire)
        /\ Len(got) + (k + n) = Len(got') + n
    BY <1>3, <1>9, <1>10, <1>11
  <2>2. wire[k + n] = BitXor(plain[Len(got) + (k + n)], R!KeyByte(f[Len(got) + (k + n)]))
    BY <1>2, <2>1 DEF AlongStream
  <2> QED
    BY <1>8, <1>10, <2>1, <2>2
<1>15. AlongStream(f)'
  BY <1>2, <1>8, <1>9, <1>14 DEF AlongStream, Stream
<1> QED
  BY <1>12, <1>13, <1>15 DEF Rc4Inv

LEMMA GotIsPrefix == Rc4Types /\ GotIs => R!Recovered
<1> SUFFICES ASSUME Rc4Types, GotIs
             PROVE  got = SubSeq(plain, 1, Len(got))
  BY DEF R!Recovered
<1>1. /\ plain \in Seq(R!Byte) /\ got \in Seq(R!Byte) /\ wire \in Seq(Crypted)
      /\ Len(got) \in Nat /\ Len(got) <= Len(plain)
  BY DEF Rc4Types
<1> DEFINE part == SubSeq(plain, 1, Len(got))
<1>2. part \in Seq(R!Byte) /\ Len(part) = Len(got) /\ \A n \in 1..Len(got) : part[n] = plain[n]
  BY <1>1
<1> HIDE DEF part
<1>3. part = got
  BY <1>1, <1>2 DEF GotIs
<1> QED
  BY <1>3 DEF part

\* What is decrypted is what was sent, for keys and texts of any length and
\* however the two ends cut it into calls.
THEOREM TextRecovered == Spec => []Recovered
<1> DEFINE Inv == program = "Rc4" => Rc4Inv
<1>0. R!Rc4Assumption
  BY AlgorithmsAssumption
<1>1. Init => Inv
  BY <1>0, Rc4Init DEF Init
<1>2. Inv /\ [Next]_vars => Inv'
  <2> SUFFICES ASSUME Inv, [Next]_vars, program' = "Rc4"
               PROVE  Rc4Inv'
    OBVIOUS
  <2>1. program = "Rc4" /\ (R!Next \/ UNCHANGED rc4)
    BY DEF Next, vars, rc4
  <2>2. CASE R!Encrypt
    BY <1>0, <2>1, <2>2, EncryptKeeps
  <2>3. CASE R!Decrypt
    BY <1>0, <2>1, <2>3, DecryptKeeps
  <2>4. CASE UNCHANGED rc4
    <3>1. UNCHANGED <<sender, receiver, plain, wire, got>>
      BY <2>4 DEF rc4
    <3>2. Rc4Types' /\ GotIs'
      BY <2>1, <3>1 DEF Rc4Inv, Rc4Types, GotIs
    <3>3. \A f : AlongStream(f) => AlongStream(f)'
      BY <3>1 DEF AlongStream, Stream
    <3> QED
      BY <2>1, <3>2, <3>3 DEF Rc4Inv
  <2> QED
    BY <2>1, <2>2, <2>3, <2>4 DEF R!Next
<1>3. Inv => Recovered
  BY GotIsPrefix DEF Rc4Inv, Recovered
<1> QED
  BY <1>1, <1>2, <1>3, PTL DEF Spec
-----------------------------------------------------------------------------
(* dijkstra.                                                               *)

LEMMA EdgesTyped ==
  ASSUME D!DijkstraAssumption, AdjMatrix \in Matrices
  PROVE  /\ NUM_NODES \in Nat \ {0} /\ NONE \in Nat \ {0} /\ D!Node \subseteq Nat
         /\ \A i, j \in D!Node : AdjMatrix[i][j] \in Nat
  BY DEF D!DijkstraAssumption, D!Node

\* Ways of any kind, of which Costs makes sense.
Walk(w) == w \in Seq(D!Node) /\ Len(w) \in Nat \ {0}

\* The costs of a way, from node to node.
LEMMA CostsAre ==
  ASSUME D!DijkstraAssumption, AdjMatrix \in Matrices, NEW w, Walk(w)
  PROVE  /\ D!Costs(w) \in [1..Len(w) -> Nat]
         /\ D!Costs(w)[1] = 0
         /\ \A n \in 1..Len(w) :
              n > 1 => D!Costs(w)[n] = D!Costs(w)[n - 1] + D!Step(w, n - 1)
<1> DEFINE k == Len(w)
           St(n) == D!Step(w, n)
           Summed(g) == [n \in 1..k |-> IF n = 1 THEN 0 ELSE g[n - 1] + St(n - 1)]
           loop == CHOOSE g : g = Summed(g)
           F == [e \in Nat \X Nat |-> IF e[1] + 2 <= k THEN e[2] + St(e[1] + 1) ELSE 0]
<1>1. D!Costs(w) = loop
  BY DEF D!Costs
<1>2. /\ k \in Nat \ {0} /\ w \in Seq(D!Node)
      /\ \A n \in 1..k : w[n] \in D!Node
  BY DEF Walk
<1>3. \A n \in Nat \ {0} : n + 1 <= k => St(n) \in Nat
  <2> SUFFICES ASSUME NEW n \in Nat \ {0}, n + 1 <= k
               PROVE  St(n) \in Nat
    OBVIOUS
  <2>1. n \in 1..k /\ n + 1 \in 1..k
    BY <1>2
  <2>2. w[n] \in D!Node /\ w[n + 1] \in D!Node
    BY <1>2, <2>1
  <2> QED
    BY <2>2, EdgesTyped DEF D!Step
<1> HIDE DEF k, St
<1>4. F \in [Nat \X Nat -> Nat]
  <2>1. ASSUME NEW e \in Nat \X Nat
        PROVE  (IF e[1] + 2 <= k THEN e[2] + St(e[1] + 1) ELSE 0) \in Nat
    <3>1. e[1] \in Nat /\ e[2] \in Nat
      OBVIOUS
    <3>2. e[1] + 2 <= k => e[1] + 1 \in Nat \ {0} /\ (e[1] + 1) + 1 <= k
      BY <1>2, <3>1
    <3> QED
      BY <1>3, <3>1, <3>2
  <2> QED
    BY <2>1
<1>5. PICK f \in [Nat -> Nat] : Iterates(f, 0, F)
  <2> HIDE DEF F
  <2> QED
    BY <1>4, Recursion
<1>6. \A n \in Nat : n + 2 <= k => f[n + 1] = f[n] + St(n + 1)
  <2> SUFFICES ASSUME NEW n \in Nat, n + 2 <= k
               PROVE  f[n + 1] = f[n] + St(n + 1)
    OBVIOUS
  <2>1. <<n, f[n]>> \in Nat \X Nat /\ f[n + 1] = F[<<n, f[n]>>]
    BY <1>5 DEF Iterates
  <2> QED
    BY <2>1
<1>7. f[0] = 0
  BY <1>5 DEF Iterates
<1> HIDE DEF F
<1>8. loop = Summed(loop)
  <2> DEFINE g == [n \in 1..k |-> f[n - 1]]
  <2>1. ASSUME NEW n \in 1..k
        PROVE  f[n - 1] = IF n = 1 THEN 0 ELSE g[n - 1] + St(n - 1)
    <3>1. n # 1 => /\ n - 1 \in 1..k /\ n - 2 \in Nat /\ (n - 2) + 2 <= k
                   /\ (n - 2) + 1 = n - 1 /\ (n - 1) - 1 = n - 2
      BY <1>2
    <3>2. n # 1 => g[n - 1] = f[n - 2]
      BY <3>1
    <3>3. n = 1 => n - 1 = 0
      OBVIOUS
    <3> HIDE DEF g
    <3> QED
      BY <1>6, <1>7, <3>1, <3>2, <3>3
  <2>2. g = Summed(g)
    BY <2>1
  <2> HIDE DEF Summed, g
  <2> QED
    BY <2>2
<1> HIDE DEF loop
<1>9. \A n \in 1..k : loop[n] = IF n = 1 THEN 0 ELSE loop[n - 1] + St(n - 1)
  BY <1>8
<1>10. 1 \in 1..k
  BY <1>2
<1> DEFINE Ks == {n \in Nat : n + 1 <= k => loop[n + 1] \in Nat}
<1>11. 0 \in Ks
  BY <1>9, <1>10
<1>12. \A n \in Nat : n \in Ks => n + 1 \in Ks
  <2> SUFFICES ASSUME NEW n \in Nat, n \in Ks, (n + 1) + 1 <= k
               PROVE  loop[(n + 1) + 1] \in Nat
    OBVIOUS
  <2>1. /\ (n + 1) + 1 \in 1..k /\ (n + 1) + 1 # 1 /\ ((n + 1) + 1) - 1 = n + 1
        /\ n + 1 \in Nat \ {0} /\ n + 1 <= k
    BY <1>2
  <2>2. loop[n + 1] \in Nat /\ St(n + 1) \in Nat
    BY <1>3, <2>1
  <2> QED
    BY <1>9, <2>1, <2>2
<1>13. \A n \in 1..k : loop[n] \in Nat
  <2>1. Nat \subseteq Ks
    <3> HIDE DEF Ks
    <3> QED
      BY <1>11, <1>12, SetInduction
  <2>2. \A n \in 1..k : n - 1 \in Nat /\ (n - 1) + 1 <= k /\ (n - 1) + 1 = n
    BY <1>2
  <2> QED
    BY <2>1, <2>2
<1>14. loop \in [1..k -> Nat]
  <2>1. DOMAIN loop = 1..k /\ loop = [n \in 1..k |-> loop[n]]
    BY <1>8
  <2> QED
    BY <1>13, <2>1
<1> QED
  BY <1>1, <1>9, <1>10, <1>14 DEF k, St
\* What it is to be a way to i.
WayIs(w, i) ==
  /\ Walk(w) /\ Len(w) \in 1..NUM_NODES
  /\ \A n \in 1..Len(w) : w[n] \in D!Node
  /\ \A m, n \in 1..Len(w) : w[m] = w[n] => m = n
  /\ w[1] = chStart /\ w[Len(w)] = i
  /\ \A n \in 1..Len(w) : n < Len(w) => D!Step(w, n) # NONE

LEMMA WaysAre ==
  ASSUME D!DijkstraAssumption, NEW i, NEW w
  PROVE  w \in D!WaysTo(i) <=> WayIs(w, i)
<1>1. NUM_NODES \in Nat
  BY DEF D!DijkstraAssumption
<1>2. ASSUME w \in D!WaysTo(i)
      PROVE  WayIs(w, i)
  <2>1. PICK n \in 1..NUM_NODES : w \in [1..n -> D!Node]
    BY <1>2 DEF D!WaysTo, D!Ways
  <2>2. n \in Nat \ {0} /\ w \in Seq(D!Node) /\ Len(w) = n /\ DOMAIN w = 1..n
    BY <1>1, <2>1
  <2>3. \A a, b \in DOMAIN w : w[a] = w[b] => a = b
    BY <1>2 DEF D!WaysTo, D!Ways, D!IsInjective
  <2>4. /\ w[1] = chStart /\ w[Len(w)] = i
        /\ \A m \in 1..(Len(w) - 1) : D!Step(w, m) # NONE
    BY <1>2 DEF D!WaysTo
  <2>5. \A m \in 1..Len(w) : m < Len(w) => m \in 1..(Len(w) - 1)
    BY <2>2
  <2> QED
    BY <2>1, <2>2, <2>3, <2>4, <2>5 DEF WayIs, Walk
<1>3. ASSUME WayIs(w, i)
      PROVE  w \in D!WaysTo(i)
  <2>1. w \in Seq(D!Node) /\ Len(w) \in 1..NUM_NODES
    BY <1>3 DEF WayIs, Walk
  <2>2. w \in [1..Len(w) -> D!Node] /\ DOMAIN w = 1..Len(w)
    BY <2>1
  <2>3. D!IsInjective(w)
    BY <1>3, <2>2 DEF WayIs, D!IsInjective
  <2>4. \A m \in 1..(Len(w) - 1) : m \in 1..Len(w) /\ m < Len(w)
    BY <1>1, <2>1
  <2> QED
    BY <1>3, <2>1, <2>2, <2>3, <2>4 DEF WayIs, D!WaysTo, D!Ways
<1> QED
  BY <1>2, <1>3

\* A way costs less than NONE, for it has no node twice.
LEMMA WayCheap ==
  ASSUME D!DijkstraAssumption, AdjMatrix \in Matrices, NEW i, NEW w, WayIs(w, i),
         NEW n \in 1..Len(w)
  PROVE  D!Costs(w)[n] \in Nat /\ D!Costs(w)[n] < NONE
<1> DEFINE k == Len(w)
           c(m) == D!Costs(w)[m]
           E == NUM_NODES - 1
           Z == NONE - 1
<1>1. /\ k \in Nat \ {0} /\ k <= NUM_NODES /\ E \in Nat /\ Z \in Nat /\ NUM_NODES \in Nat
      /\ NONE = Z + 1
  BY EdgesTyped DEF WayIs
<1>2. \A m \in 1..k : c(m) \in Nat
  BY CostsAre DEF WayIs
<1>3. ASSUME NEW m \in Nat, m + 2 <= k
      PROVE  /\ D!Step(w, m + 1) \in Nat /\ E * D!Step(w, m + 1) <= Z
             /\ c(m + 2) = c(m + 1) + D!Step(w, m + 1)
  <2>1. m + 1 \in 1..k /\ m + 2 \in 1..k /\ m + 1 < k /\ (m + 1) + 1 = m + 2
        /\ (m + 2) - 1 = m + 1 /\ m + 2 > 1
    BY <1>1, <1>3
  <2>2. w[m + 1] \in D!Node /\ w[m + 2] \in D!Node /\ D!Step(w, m + 1) # NONE
    BY <2>1 DEF WayIs
  <2>3. D!Step(w, m + 1) = AdjMatrix[w[m + 1]][w[m + 2]]
    BY <2>1 DEF D!Step
  <2>4. D!Step(w, m + 1) \in Nat
    BY <2>2, <2>3, EdgesTyped
  <2>5. E * D!Step(w, m + 1) < NONE
    BY <2>2, <2>3 DEF D!DijkstraAssumption
  <2>6. \A v \in Nat : v < NONE => v <= Z
    BY <1>1
  <2>7. E * D!Step(w, m + 1) \in Nat
    BY <1>1, <2>4
  <2>8. c(m + 2) = c(m + 1) + D!Step(w, m + 1)
    BY <2>1, CostsAre DEF WayIs
  <2> QED
    BY <2>4, <2>5, <2>6, <2>7, <2>8
<1> HIDE DEF c, k, E, Z
<1> DEFINE Ks == {m \in Nat : m + 1 <= k => E * c(m + 1) <= m * Z}
<1>4. 0 \in Ks
  <2>1. 1 \in 1..k /\ c(1) = 0
    BY <1>1, CostsAre DEF WayIs, c, k
  <2> QED
    BY <1>1, <2>1
<1>5. \A m \in Nat : m \in Ks => m + 1 \in Ks
  <2>0. \A m \in Nat : m + 1 \in Nat
    OBVIOUS
  <2> SUFFICES ASSUME NEW m \in Nat, m \in Ks, (m + 1) + 1 <= k
               PROVE  E * c((m + 1) + 1) <= (m + 1) * Z
    BY <2>0, Zenon
  <2>1. (m + 1) + 1 = m + 2 /\ m + 2 <= k /\ m + 1 <= k /\ m + 1 \in 1..k
    BY <1>1
  <2>2. /\ D!Step(w, m + 1) \in Nat /\ E * D!Step(w, m + 1) <= Z
        /\ c(m + 2) = c(m + 1) + D!Step(w, m + 1)
    BY <1>3, <2>1
  <2>3. E * c(m + 1) <= m * Z /\ c(m + 1) \in Nat
    BY <1>2, <2>1
  <2>4. \A p, q \in Nat : E * (p + q) = E * p + E * q /\ E * p \in Nat /\ E * q \in Nat
    BY <1>1
  <2>5. (m + 1) * Z = m * Z + Z /\ m * Z \in Nat
    BY <1>1
  <2>6. E * c(m + 2) = E * c(m + 1) + E * D!Step(w, m + 1)
        /\ E * c(m + 1) \in Nat /\ E * D!Step(w, m + 1) \in Nat
    BY <2>2, <2>3, <2>4
  <2>7. \A a, b, d, e \in Nat : a <= d /\ b <= e => a + b <= d + e
    OBVIOUS
  <2>8. E * c(m + 2) <= (m + 1) * Z
    <3>1. E * c(m + 1) + E * D!Step(w, m + 1) <= m * Z + Z
      BY <1>1, <2>2, <2>3, <2>5, <2>6, <2>7, Zenon
    <3> QED
      BY <2>5, <2>6, <3>1, Zenon
  <2> QED
    BY <2>1, <2>8, Zenon
<1>6. \A m \in Nat : m + 1 <= k => E * c(m + 1) <= m * Z
  <2>1. Nat \subseteq Ks
    <3> HIDE DEF Ks
    <3> QED
      BY <1>4, <1>5, SetInduction
  <2> QED
    BY <2>1
<1>7. n - 1 \in Nat /\ (n - 1) + 1 = n /\ n <= k /\ n - 1 <= E /\ n \in 1..k
  BY <1>1 DEF k, E
<1>8. E * c(n) <= (n - 1) * Z /\ c(n) \in Nat
  BY <1>2, <1>6, <1>7
<1>9. CASE E = 0
  <2>1. n = 1
    BY <1>7, <1>9
  <2>2. c(n) = 0
    BY <2>1, CostsAre DEF WayIs, c
  <2> QED
    BY <1>1, <2>2 DEF c
<1>10. CASE E # 0
  <2>1. (n - 1) * Z <= E * Z /\ (n - 1) * Z \in Nat /\ E * Z \in Nat
    BY <1>1, <1>7, TimesKeeps
  <2>2. SUFFICES ASSUME Z + 1 <= c(n)
                 PROVE  FALSE
    BY <1>1, <1>8 DEF c
  <2>3. (Z + 1) * E <= c(n) * E /\ (Z + 1) * E \in Nat
    BY <1>1, <1>8, <2>2, TimesKeeps
  <2>4. \A p, q \in Nat : p * q = q * p /\ (p + 1) * q = p * q + q /\ p * q \in Nat
    OBVIOUS
  <2>5. (Z + 1) * E = E * Z + E /\ c(n) * E = E * c(n)
    BY <1>1, <1>8, <2>4
  <2> QED
    BY <1>1, <1>8, <1>10, <2>1, <2>3, <2>5
<1> QED
  BY <1>9, <1>10
\* Ways that begin alike cost alike.
LEMMA CostsSame ==
  ASSUME D!DijkstraAssumption, AdjMatrix \in Matrices, NEW w, Walk(w), NEW v, Walk(v),
         Len(w) <= Len(v), \A n \in 1..Len(w) : v[n] = w[n]
  PROVE  \A n \in 1..Len(w) : D!Costs(v)[n] = D!Costs(w)[n]
<1> DEFINE k == Len(w)
           Ks == {m \in Nat : m + 1 <= k => D!Costs(v)[m + 1] = D!Costs(w)[m + 1]}
<1>1. k \in Nat \ {0} /\ Len(v) \in Nat /\ 1 \in 1..k /\ \A n \in 1..k : n \in 1..Len(v)
  BY DEF Walk
<1>2. 0 \in Ks
  BY <1>1, CostsAre
<1>3. \A m \in Nat : m \in Ks => m + 1 \in Ks
  <2> SUFFICES ASSUME NEW m \in Nat, m \in Ks, (m + 1) + 1 <= k
               PROVE  D!Costs(v)[(m + 1) + 1] = D!Costs(w)[(m + 1) + 1]
    OBVIOUS
  <2>1. /\ (m + 1) + 1 \in 1..k /\ m + 1 \in 1..k /\ (m + 1) + 1 > 1
        /\ ((m + 1) + 1) - 1 = m + 1 /\ (m + 1) + 1 \in 1..Len(v)
    BY <1>1
  <2>2. D!Step(v, m + 1) = D!Step(w, m + 1)
    BY <2>1 DEF D!Step
  <2>3. /\ D!Costs(v)[(m + 1) + 1] = D!Costs(v)[m + 1] + D!Step(v, m + 1)
        /\ D!Costs(w)[(m + 1) + 1] = D!Costs(w)[m + 1] + D!Step(w, m + 1)
    BY <2>1, CostsAre
  <2> QED
    BY <2>1, <2>2, <2>3
<1>4. Nat \subseteq Ks
  <2> HIDE DEF Ks
  <2> QED
    BY <1>2, <1>3, SetInduction
<1>5. \A n \in 1..k : n - 1 \in Nat /\ (n - 1) + 1 = n /\ (n - 1) + 1 <= k
  BY <1>1
<1> QED
  BY <1>4, <1>5

\* A way costs no less than a part of it.
LEMMA CostsGrow ==
  ASSUME D!DijkstraAssumption, AdjMatrix \in Matrices, NEW w, Walk(w), NEW n \in 1..Len(w)
  PROVE  D!Costs(w)[n] <= D!Cost(w)
<1> DEFINE k == Len(w)
           c(m) == D!Costs(w)[m]
           Ks == {m \in Nat : n + m <= k => c(n) <= c(n + m)}
<1>1. k \in Nat \ {0} /\ n \in Nat \ {0} /\ n <= k
  BY DEF Walk
<1>2. /\ \A m \in 1..k : c(m) \in Nat
      /\ \A m \in 1..k : m > 1 => c(m) = c(m - 1) + D!Step(w, m - 1)
  BY CostsAre
<1>3. \A m \in 1..k : m > 1 => c(m - 1) <= c(m)
  <2> SUFFICES ASSUME NEW m \in 1..k, m > 1
               PROVE  c(m - 1) <= c(m)
    OBVIOUS
  <2>1. m - 1 \in 1..k /\ (m - 1) + 1 = m
    BY <1>1
  <2>2. w[m - 1] \in D!Node /\ w[m] \in D!Node
    BY <2>1 DEF Walk
  <2>3. D!Step(w, m - 1) \in Nat
    BY <2>1, <2>2, EdgesTyped DEF D!Step
  <2> HIDE DEF c
  <2> QED
    BY <1>2, <2>1, <2>3
<1> HIDE DEF c, k
<1>4. 0 \in Ks
  BY <1>1, <1>2
<1>5. \A m \in Nat : m \in Ks => m + 1 \in Ks
  <2> SUFFICES ASSUME NEW m \in Nat, m \in Ks, n + (m + 1) <= k
               PROVE  c(n) <= c(n + (m + 1))
    OBVIOUS
  <2>1. /\ n + (m + 1) \in 1..k /\ n + m \in 1..k /\ n \in 1..k /\ n + m <= k
        /\ n + (m + 1) > 1 /\ (n + (m + 1)) - 1 = n + m
    BY <1>1
  <2>2. c(n) <= c(n + m)
    BY <2>1
  <2>3. c(n + m) <= c(n + (m + 1))
    BY <1>3, <2>1
  <2>4. c(n) \in Nat /\ c(n + m) \in Nat /\ c(n + (m + 1)) \in Nat
    BY <1>2, <2>1
  <2> QED
    BY <2>2, <2>3, <2>4
<1>6. Nat \subseteq Ks
  <2> HIDE DEF Ks
  <2> QED
    BY <1>4, <1>5, SetInduction
<1>7. k - n \in Nat /\ n + (k - n) = k /\ n + (k - n) <= k
  BY <1>1
<1>8. c(n) <= c(k)
  <2>1. k - n \in Ks
    <3> HIDE DEF Ks
    <3> QED
      BY <1>6, <1>7
  <2> QED
    BY <1>7, <2>1
<1> QED
  BY <1>8 DEF c, k, D!Cost

Longer(v, w, i, j) ==
  /\ WayIs(v, j) /\ D!Cost(v) = D!Cost(w) + AdjMatrix[i][j]
  /\ Len(v) = Len(w) + 1 /\ v[Len(v)] = j
  /\ \A n \in 1..Len(w) : v[n] = w[n] /\ D!Costs(v)[n] = D!Costs(w)[n]

\* A way and an edge to a node that is not on it make a way.
LEMMA WayOn ==
  ASSUME D!DijkstraAssumption, AdjMatrix \in Matrices, NEW i \in D!Node, NEW w, WayIs(w, i),
         NEW j \in D!Node, \A n \in 1..Len(w) : w[n] # j, AdjMatrix[i][j] # NONE
  PROVE  \E v : Longer(v, w, i, j)
<1> DEFINE v == Append(w, j)
           k == Len(w)
<1>1. /\ w \in Seq(D!Node) /\ k \in Nat \ {0} /\ k <= NUM_NODES /\ NUM_NODES \in Nat
      /\ \A n \in 1..k : w[n] \in D!Node
      /\ w[1] = chStart /\ w[k] = i
  BY EdgesTyped DEF WayIs, Walk
<1>2. /\ v \in Seq(D!Node) /\ Len(v) = k + 1 /\ v[k + 1] = j
      /\ \A n \in 1..k : v[n] = w[n]
  BY <1>1
<1> HIDE DEF v, k
<1>3. Walk(v) /\ v[1] = chStart /\ v[Len(v)] = j
  BY <1>1, <1>2 DEF Walk
<1>4. \A m, n \in 1..Len(v) : v[m] = v[n] => m = n
  <2> SUFFICES ASSUME NEW m \in 1..Len(v), NEW n \in 1..Len(v), v[m] = v[n]
               PROVE  m = n
    OBVIOUS
  <2>1. (m \in 1..k \/ m = k + 1) /\ (n \in 1..k \/ n = k + 1)
    BY <1>1, <1>2
  <2>2. CASE m \in 1..k /\ n \in 1..k
    BY <1>2, <2>2 DEF WayIs, k
  <2>3. CASE m \in 1..k /\ n = k + 1
    BY <1>2, <2>3 DEF k
  <2>4. CASE m = k + 1 /\ n \in 1..k
    BY <1>2, <2>4 DEF k
  <2> QED
    BY <2>1, <2>2, <2>3, <2>4
<1>5. Len(v) \in 1..NUM_NODES
  <2>1. SUFFICES ASSUME ~(k + 1 <= NUM_NODES)
                 PROVE  FALSE
    BY <1>1, <1>2
  <2>2. IsFiniteSet(1..Len(v)) /\ Cardinality(1..Len(v)) = k + 1
    BY <1>1, <1>2, FS_Interval
  <2>3. IsFiniteSet(D!Node) /\ Cardinality(D!Node) = NUM_NODES
    <3>1. NUM_NODES - 1 \in Int /\ ~(0 > NUM_NODES - 1) /\ (NUM_NODES - 1) - 0 + 1 = NUM_NODES
      BY EdgesTyped
    <3>2. /\ IsFiniteSet(0..(NUM_NODES - 1))
          /\ Cardinality(0..(NUM_NODES - 1)) = (NUM_NODES - 1) - 0 + 1
      BY <3>1, FS_Interval
    <3> QED
      BY <3>1, <3>2 DEF D!Node
  <2>4. Cardinality(D!Node) < Cardinality(1..Len(v))
    BY <1>1, <2>1, <2>2, <2>3
  <2>5. v \in [1..Len(v) -> D!Node]
    BY <1>2
  <2>6. \E x, y \in 1..Len(v) : x # y /\ v[x] = v[y]
    BY <2>2, <2>3, <2>4, <2>5, FS_PigeonHole
  <2> QED
    BY <1>4, <2>6
<1>6. ASSUME NEW n \in 1..Len(v), n < Len(v)
      PROVE  D!Step(v, n) # NONE
  <2>1. n \in 1..k
    BY <1>1, <1>2, <1>6
  <2>2. CASE n = k
    BY <1>1, <1>2, <2>2 DEF D!Step
  <2>3. CASE n # k
    <3>1. n + 1 \in 1..k /\ n < k
      BY <1>1, <2>1, <2>3
    <3>2. D!Step(v, n) = D!Step(w, n)
      BY <1>2, <2>1, <3>1 DEF D!Step
    <3> QED
      BY <2>1, <3>1, <3>2 DEF WayIs, k
  <2> QED
    BY <2>2, <2>3
<1>7. WayIs(v, j)
  BY <1>2, <1>3, <1>4, <1>5, <1>6 DEF WayIs, Walk
<1>8. \A n \in 1..k : D!Costs(v)[n] = D!Costs(w)[n]
  <2>1. Walk(w) /\ k <= Len(v)
    BY <1>1, <1>2 DEF WayIs
  <2> QED
    BY <1>2, <1>3, <2>1, CostsSame DEF k
<1>9. D!Cost(v) = D!Cost(w) + AdjMatrix[i][j]
  <2>1. /\ k + 1 \in 1..Len(v) /\ k + 1 > 1 /\ (k + 1) - 1 = k /\ k \in 1..k
    BY <1>1, <1>2
  <2>2. D!Costs(v)[k + 1] = D!Costs(v)[(k + 1) - 1] + D!Step(v, (k + 1) - 1)
    BY <1>3, <2>1, CostsAre
  <2>3. D!Step(v, k) = AdjMatrix[i][j]
    BY <1>1, <1>2, <2>1 DEF D!Step
  <2>4. D!Costs(v)[k] = D!Costs(w)[k]
    BY <1>8, <2>1
  <2> QED
    BY <1>2, <2>1, <2>2, <2>3, <2>4 DEF D!Cost, k
<1> QED
  BY <1>2, <1>3, <1>7, <1>8, <1>9 DEF k, Longer
Nodes == [D!Node -> [iDist : Nat, iPrev : Nat]]
Item == [iNode : D!Node, iDist : Nat]

\* An entry of the queue is of a way, and no node of the way is dearer than on it:
\* the next node that gets cheaper is not on the way.
Held(nodes, item) ==
  \E w : /\ WayIs(w, item.iNode) /\ D!Cost(w) = item.iDist
         /\ \A n \in 1..Len(w) : nodes[w[n]].iDist <= D!Costs(w)[n]

\* Every cost is of a way.
Known(nodes) ==
  \A i \in D!Node :
    nodes[i].iDist = NONE \/ \E w : WayIs(w, i) /\ D!Cost(w) = nodes[i].iDist

Sound(nodes, entries) ==
  /\ nodes \in Nodes /\ entries \in Seq(Item)
  /\ nodes[chStart].iDist = 0
  /\ Known(nodes)
  /\ \A n \in 1..Len(entries) : Held(nodes, entries[n])

\* The edge from i to j makes j no cheaper.
Relaxed(nodes, i, j) ==
  AdjMatrix[i][j] # NONE =>
    /\ nodes[j].iDist # NONE
    /\ nodes[j].iDist <= nodes[i].iDist + AdjMatrix[i][j]

\* The queue has an entry for the cost of i.
Waiting(nodes, entries, i) ==
  \E n \in 1..Len(entries) : entries[n].iNode = i /\ entries[n].iDist = nodes[i].iDist

AllRelaxed(nodes, i) == \A j \in D!Node : Relaxed(nodes, i, j)

\* The loop over the edges of item has got to k.
PartlyRelaxed(nodes, item, k, i) ==
  /\ item.iNode = i /\ item.iDist = nodes[i].iDist
  /\ \A j \in D!Node : j < k => Relaxed(nodes, i, j)

Relaxing(so_far, item, k) ==
  /\ Sound(so_far.nodes, so_far.queue)
  /\ Held(so_far.nodes, item)
  /\ \A i \in D!Node :
       \/ so_far.nodes[i].iDist = NONE
       \/ Waiting(so_far.nodes, so_far.queue, i)
       \/ AllRelaxed(so_far.nodes, i)
       \/ PartlyRelaxed(so_far.nodes, item, k, i)

\* A node gets cheaper: what is said of the costs stays true of the lower ones.
LEMMA CheaperHeld ==
  ASSUME D!DijkstraAssumption, AdjMatrix \in Matrices, NEW nodes \in Nodes, NEW lower \in Nodes,
         \A i \in D!Node : lower[i].iDist <= nodes[i].iDist,
         NEW item, Held(nodes, item)
  PROVE  Held(lower, item)
<1>1. PICK w : /\ WayIs(w, item.iNode) /\ D!Cost(w) = item.iDist
               /\ \A n \in 1..Len(w) : nodes[w[n]].iDist <= D!Costs(w)[n]
  BY DEF Held
<1>2. ASSUME NEW n \in 1..Len(w)
      PROVE  lower[w[n]].iDist <= D!Costs(w)[n]
  <2>1. w[n] \in D!Node
    BY <1>1 DEF WayIs
  <2>2. nodes[w[n]].iDist \in Nat /\ lower[w[n]].iDist \in Nat
    BY <2>1 DEF Nodes
  <2>3. D!Costs(w)[n] \in Nat
    BY <1>1, WayCheap
  <2>4. nodes[w[n]].iDist <= D!Costs(w)[n] /\ lower[w[n]].iDist <= nodes[w[n]].iDist
    BY <1>1, <2>1
  <2> QED
    BY <2>2, <2>3, <2>4
<1> QED
  BY <1>1, <1>2 DEF Held

LEMMA RelaxKeeps ==
  ASSUME D!DijkstraAssumption, AdjMatrix \in Matrices, chStart \in D!Node,
         NEW item \in Item, NEW k \in D!Node, NEW so_far, Relaxing(so_far, item, k)
  PROVE  Relaxing(D!Relax(so_far, item, k), item, k + 1)
<1> DEFINE nodes == so_far.nodes
           entries == so_far.queue
           v == item.iNode
           cost == AdjMatrix[v][k]
           dist == item.iDist + cost
<1>1. /\ v \in D!Node /\ item.iDist \in Nat /\ cost \in Nat /\ dist \in Nat
      /\ k \in Nat /\ NONE \in Nat /\ D!Node \subseteq Nat
  BY EdgesTyped DEF Item
<1>2. /\ nodes \in Nodes /\ entries \in Seq(Item) /\ nodes[chStart].iDist = 0
      /\ Known(nodes) /\ \A n \in 1..Len(entries) : Held(nodes, entries[n])
      /\ Held(nodes, item)
  BY DEF Relaxing, Sound
<1>3. \A i \in D!Node : nodes[i].iDist \in Nat
  BY <1>2 DEF Nodes
<1>4. CASE ~(cost # NONE /\ D!Shorter(nodes, k, dist))
  <2>1. D!Relax(so_far, item, k) = so_far
    BY <1>4 DEF D!Relax
  <2>2. Relaxed(nodes, v, k) \/ item.iDist # nodes[v].iDist
    BY <1>1, <1>3, <1>4 DEF D!Shorter, Relaxed
  <2>3. ASSUME NEW i \in D!Node, PartlyRelaxed(nodes, item, k, i)
        PROVE  PartlyRelaxed(nodes, item, k + 1, i)
    <3>1. i = v /\ item.iDist = nodes[i].iDist /\ Relaxed(nodes, i, k)
          /\ \A j \in D!Node : j < k => Relaxed(nodes, i, j)
      BY <2>2, <2>3 DEF PartlyRelaxed
    <3>2. \A j \in D!Node : j < k + 1 => j < k \/ j = k
      BY <1>1
    <3> QED
      BY <3>1, <3>2, Zenon DEF PartlyRelaxed
  <2> QED
    BY <2>1, <2>3 DEF Relaxing
<1>5. CASE cost # NONE /\ D!Shorter(nodes, k, dist)
  <2> DEFINE cell == [iDist |-> dist, iPrev |-> v]
             entry0 == [iNode |-> k, iDist |-> dist]
             after == [nodes EXCEPT ![k] = cell]
             longer == Append(entries, entry0)
  <2>1. /\ D!Relax(so_far, item, k).nodes = after
        /\ D!Relax(so_far, item, k).queue = longer
    BY <1>5 DEF D!Relax
  <2>2. /\ after \in Nodes /\ after[k].iDist = dist
        /\ \A j \in D!Node : j # k => after[j] = nodes[j]
    BY <1>1, <1>2 DEF Nodes
  <2>3. /\ longer \in Seq(Item) /\ Len(longer) = Len(entries) + 1 /\ Len(entries) \in Nat
        /\ longer[Len(longer)] = entry0
        /\ \A n \in 1..Len(entries) : longer[n] = entries[n]
    BY <1>1, <1>2 DEF Item
  <2>4. entry0.iNode = k /\ entry0.iDist = dist
    OBVIOUS
  <2> HIDE DEF after, longer, entry0, cell
  <2>5. PICK w : /\ WayIs(w, v) /\ D!Cost(w) = item.iDist
                 /\ \A n \in 1..Len(w) : nodes[w[n]].iDist <= D!Costs(w)[n]
    BY <1>2 DEF Held
  <2>6. ASSUME NEW n \in 1..Len(w), w[n] = k
        PROVE  FALSE
    <3>1. D!Costs(w)[n] \in Nat /\ D!Costs(w)[n] < NONE
      BY <2>5, WayCheap
    <3>2. D!Costs(w)[n] <= item.iDist
      BY <2>5, CostsGrow DEF WayIs
    <3>3. nodes[k].iDist <= D!Costs(w)[n]
      BY <2>5, <2>6
    <3>4. nodes[k].iDist = NONE \/ nodes[k].iDist > dist
      BY <1>5 DEF D!Shorter
    <3>5. nodes[k].iDist \in Nat
      BY <1>3
    <3>6. \A a, b, c, d, z \in Nat :
            ~(a < z /\ a <= b /\ d <= a /\ (d = z \/ d > b + c))
      OBVIOUS
    <3> HIDE DEF nodes, v, cost
    <3> QED
      BY <1>1, <3>1, <3>2, <3>3, <3>4, <3>5, <3>6
  <2>7. PICK u : /\ WayIs(u, k) /\ D!Cost(u) = D!Cost(w) + cost
                 /\ Len(u) = Len(w) + 1 /\ u[Len(u)] = k
                 /\ \A n \in 1..Len(w) : u[n] = w[n] /\ D!Costs(u)[n] = D!Costs(w)[n]
    <3>1. v \in D!Node /\ WayIs(w, v) /\ AdjMatrix[v][k] # NONE
          /\ \A n \in 1..Len(w) : w[n] # k
      BY <1>1, <1>5, <2>5, <2>6
    <3> HIDE DEF v
    <3>2. \E u : Longer(u, w, v, k)
      BY <3>1, WayOn
    <3> QED
      BY <3>2 DEF Longer
  <2>8. D!Cost(u) = dist /\ dist < NONE /\ D!Costs(u)[Len(u)] = dist
    <3>1. Len(u) \in 1..Len(u)
      BY <2>7 DEF WayIs, Walk
    <3>2. D!Costs(u)[Len(u)] < NONE
      BY <2>7, <3>1, WayCheap
    <3> QED
      BY <2>5, <2>7, <3>2 DEF D!Cost
  <2>9. \A i \in D!Node : after[i].iDist <= nodes[i].iDist
    <3>1. nodes[k].iDist = NONE \/ nodes[k].iDist > dist
      BY <1>5 DEF D!Shorter
    <3>2. after[k].iDist <= nodes[k].iDist
      BY <1>1, <1>3, <2>2, <2>8, <3>1
    <3> QED
      BY <1>3, <2>2, <3>2
  <2>10. Held(after, item) /\ \A n \in 1..Len(entries) : Held(after, longer[n])
    BY <1>2, <2>2, <2>3, <2>9, CheaperHeld
  <2>11. Held(after, entry0)
    <3>1. ASSUME NEW n \in 1..Len(u)
          PROVE  after[u[n]].iDist <= D!Costs(u)[n]
      <4>1. CASE n = Len(u)
        BY <1>1, <2>2, <2>7, <2>8, <4>1
      <4>2. CASE n # Len(u)
        <5>1. n \in 1..Len(w)
          BY <2>5, <2>7, <4>2 DEF WayIs, Walk
        <5>2. /\ u[n] = w[n] /\ D!Costs(u)[n] = D!Costs(w)[n] /\ w[n] # k
              /\ nodes[w[n]].iDist <= D!Costs(w)[n] /\ w[n] \in D!Node
          BY <2>5, <2>6, <2>7, <5>1 DEF WayIs
        <5> QED
          BY <2>2, <5>2
      <4> QED
        BY <4>1, <4>2
    <3> QED
      BY <2>4, <2>7, <2>8, <3>1 DEF Held
  <2>12. Known(after)
    <3> SUFFICES ASSUME NEW i \in D!Node
                 PROVE  after[i].iDist = NONE
                        \/ \E x : WayIs(x, i) /\ D!Cost(x) = after[i].iDist
      BY DEF Known
    <3>1. CASE i = k
      BY <2>2, <2>7, <2>8, <3>1
    <3>2. CASE i # k
      BY <1>2, <2>2, <3>2 DEF Known
    <3> QED
      BY <3>1, <3>2
  <2>13. after[chStart].iDist = 0
    BY <1>2, <2>2, <2>9 DEF Nodes
  <2>14. Sound(after, longer)
    <3>1. \A n \in 1..Len(longer) : n \in 1..Len(entries) \/ n = Len(longer)
      BY <2>3
    <3> QED
      BY <2>2, <2>3, <2>10, <2>11, <2>12, <2>13, <3>1, Zenon DEF Sound
  <2>15. ASSUME NEW i \in D!Node, i # k, NEW j \in D!Node, Relaxed(nodes, i, j)
         PROVE  Relaxed(after, i, j)
    <3>1. after[i].iDist = nodes[i].iDist
      BY <2>2, <2>15
    <3>2. after[j].iDist \in Nat /\ nodes[j].iDist \in Nat /\ nodes[i].iDist \in Nat
          /\ AdjMatrix[i][j] \in Nat /\ after[j].iDist <= nodes[j].iDist
      BY <1>3, <2>2, <2>9, EdgesTyped DEF Nodes
    <3>3. nodes[j].iDist # NONE => after[j].iDist # NONE
      BY <1>1, <2>2, <2>8
    <3> QED
      BY <2>15, <3>1, <3>2, <3>3 DEF Relaxed
  <2>16. ASSUME NEW i \in D!Node
         PROVE  \/ after[i].iDist = NONE \/ Waiting(after, longer, i)
                \/ AllRelaxed(after, i) \/ PartlyRelaxed(after, item, k + 1, i)
    <3>1. CASE i = k
      <4>1. Len(longer) \in 1..Len(longer)
        BY <2>3
      <4>2. Waiting(after, longer, i)
        BY <2>2, <2>3, <2>4, <3>1, <4>1 DEF Waiting
      <4> QED
        BY <4>2
    <3>2. CASE i # k /\ nodes[i].iDist = NONE
      BY <2>2, <3>2
    <3>3. CASE i # k /\ Waiting(nodes, entries, i)
      <4>1. PICK n \in 1..Len(entries) :
              entries[n].iNode = i /\ entries[n].iDist = nodes[i].iDist
        BY <3>3 DEF Waiting
      <4>2. n \in 1..Len(longer) /\ longer[n] = entries[n] /\ after[i] = nodes[i]
        BY <2>2, <2>3, <3>3
      <4>3. Waiting(after, longer, i)
        BY <4>1, <4>2 DEF Waiting
      <4> QED
        BY <4>3
    <3>4. CASE i # k /\ AllRelaxed(nodes, i)
      BY <2>15, <3>4 DEF AllRelaxed
    <3>5. CASE i # k /\ PartlyRelaxed(nodes, item, k, i)
      <4>1. item.iNode = i /\ item.iDist = after[i].iDist
        BY <2>2, <3>5 DEF PartlyRelaxed
      <4>2. Relaxed(after, i, k)
        BY <1>1, <2>2, <2>8, <4>1 DEF Relaxed
      <4>3. \A j \in D!Node : j < k => Relaxed(after, i, j)
        BY <2>15, <3>5 DEF PartlyRelaxed
      <4>4. \A j \in D!Node : j < k + 1 => j < k \/ j = k
        BY <1>1
      <4> QED
        BY <4>1, <4>2, <4>3, <4>4, Zenon DEF PartlyRelaxed
    <3>6. \/ nodes[i].iDist = NONE \/ Waiting(nodes, entries, i)
          \/ AllRelaxed(nodes, i) \/ PartlyRelaxed(nodes, item, k, i)
      BY DEF Relaxing
    <3> QED
      BY <3>1, <3>2, <3>3, <3>4, <3>5, <3>6
  <2> QED
    BY <2>1, <2>10, <2>14, <2>16 DEF Relaxing
<1> QED
  BY <1>4, <1>5
DijkstraInv ==
  /\ AdjMatrix \in Matrices /\ chStart \in D!Node
  /\ Sound(rgnNodes, queue)
  /\ \A i \in D!Node :
       \/ rgnNodes[i].iDist = NONE
       \/ Waiting(rgnNodes, queue, i)
       \/ AllRelaxed(rgnNodes, i)

\* The way that is the start alone.
LEMMA StartWay ==
  ASSUME D!DijkstraAssumption, AdjMatrix \in Matrices, chStart \in D!Node
  PROVE  \E w : /\ WayIs(w, chStart) /\ D!Cost(w) = 0 /\ Len(w) = 1
                /\ w[1] = chStart /\ D!Costs(w)[1] = 0
<1> DEFINE w == <<chStart>>
<1>1. /\ w \in Seq(D!Node) /\ Len(w) = 1 /\ w[1] = chStart
      /\ \A n \in 1..Len(w) : n = 1
  OBVIOUS
<1> HIDE DEF w
<1>2. Walk(w) /\ 1 \in 1..NUM_NODES
  BY <1>1, EdgesTyped DEF Walk
<1>3. WayIs(w, chStart)
  BY <1>1, <1>2 DEF WayIs
<1>4. D!Costs(w)[1] = 0
  BY <1>2, CostsAre
<1> QED
  BY <1>1, <1>3, <1>4 DEF D!Cost

LEMMA DijkstraInit == D!DijkstraAssumption /\ D!Init => DijkstraInv
<1> SUFFICES ASSUME D!DijkstraAssumption, D!Init
             PROVE  DijkstraInv
  OBVIOUS
<1>1. /\ AdjMatrix \in Matrices /\ chStart \in D!Node /\ 0 \in Nat /\ NONE \in Nat \ {0}
      /\ rgnNodes = [i \in D!Node |-> IF i = chStart THEN [D!Unreached EXCEPT !.iDist = 0]
                                                     ELSE D!Unreached]
      /\ queue = <<[iNode |-> chStart, iDist |-> 0]>>
  BY EdgesTyped DEF D!Init
<1>2. /\ rgnNodes \in Nodes /\ rgnNodes[chStart].iDist = 0
      /\ \A i \in D!Node : i # chStart => rgnNodes[i].iDist = NONE
  BY <1>1 DEF D!Unreached, Nodes
<1>3. /\ queue \in Seq(Item) /\ Len(queue) = 1
      /\ queue[1].iNode = chStart /\ queue[1].iDist = 0
      /\ \A n \in 1..Len(queue) : n = 1
  BY <1>1 DEF Item
<1>4. PICK w : /\ WayIs(w, chStart) /\ D!Cost(w) = 0 /\ Len(w) = 1
               /\ w[1] = chStart /\ D!Costs(w)[1] = 0
  BY <1>1, StartWay
<1>5. Held(rgnNodes, queue[1])
  <2>1. \A n \in 1..Len(w) : n = 1
    BY <1>4
  <2> QED
    BY <1>2, <1>3, <1>4, <2>1 DEF Held
<1>6. Known(rgnNodes)
  BY <1>2, <1>4 DEF Known
<1>7. Waiting(rgnNodes, queue, chStart)
  BY <1>2, <1>3 DEF Waiting
<1> QED
  BY <1>1, <1>2, <1>3, <1>5, <1>6, <1>7 DEF DijkstraInv, Sound

LEMMA RelaxTyped ==
  ASSUME D!DijkstraAssumption, AdjMatrix \in Matrices, NEW item \in Item, NEW k \in D!Node,
         NEW so_far \in [nodes : Nodes, queue : Seq(Item)]
  PROVE  D!Relax(so_far, item, k) \in [nodes : Nodes, queue : Seq(Item)]
<1> DEFINE dist == item.iDist + AdjMatrix[item.iNode][k]
<1>1. dist \in Nat /\ item.iNode \in D!Node /\ item.iNode \in Nat
  BY EdgesTyped DEF Item
<1>2. so_far.nodes \in Nodes /\ so_far.queue \in Seq(Item)
  OBVIOUS
<1>3. \/ D!Relax(so_far, item, k) = so_far
      \/ D!Relax(so_far, item, k) =
           [nodes |-> [so_far.nodes EXCEPT ![k] = [iDist |-> dist, iPrev |-> item.iNode]],
            queue |-> Append(so_far.queue, [iNode |-> k, iDist |-> dist])]
  BY DEF D!Relax
<1> HIDE DEF dist
<1>4. [so_far.nodes EXCEPT ![k] = [iDist |-> dist, iPrev |-> item.iNode]] \in Nodes
  BY <1>1, <1>2 DEF Nodes
<1>5. Append(so_far.queue, [iNode |-> k, iDist |-> dist]) \in Seq(Item)
  <2>1. [iNode |-> k, iDist |-> dist] \in Item
    BY <1>1 DEF Item
  <2> QED
    BY <1>2, <2>1
<1>6. \A a \in Nodes, b \in Seq(Item) : [nodes |-> a, queue |-> b] \in [nodes : Nodes, queue : Seq(Item)]
  OBVIOUS
<1> QED
  BY <1>3, <1>4, <1>5, <1>6, Zenon

\* The for loop works off the head of the queue.
LEMMA LoopRelaxes ==
  ASSUME D!DijkstraAssumption, DijkstraInv, D!Turn
  PROVE  \E so_far : /\ Relaxing(so_far, Head(queue), NUM_NODES)
                     /\ rgnNodes' = so_far.nodes /\ queue' = so_far.queue
<1> DEFINE item == Head(queue)
           first == [nodes |-> rgnNodes, queue |-> Tail(queue)]
           V == [nodes : Nodes, queue : Seq(Item)]
           Worked(g) == [i \in 0..NUM_NODES |->
                           IF i = 0 THEN first ELSE D!Relax(g[i - 1], item, i - 1)]
           loop == CHOOSE g : g = Worked(g)
           F == [e \in Nat \X V |-> IF e[1] < NUM_NODES THEN D!Relax(e[2], item, e[1]) ELSE e[2]]
<1>1. /\ AdjMatrix \in Matrices /\ chStart \in D!Node /\ NUM_NODES \in Nat \ {0}
      /\ \A n \in Nat : n < NUM_NODES <=> n \in D!Node
  BY EdgesTyped DEF DijkstraInv, D!Node
<1>2. /\ rgnNodes \in Nodes /\ queue \in Seq(Item) /\ queue # <<>>
      /\ Known(rgnNodes) /\ rgnNodes[chStart].iDist = 0
      /\ \A n \in 1..Len(queue) : Held(rgnNodes, queue[n])
  BY DEF DijkstraInv, Sound, D!Turn
<1>3. /\ item \in Item /\ item = queue[1] /\ Tail(queue) \in Seq(Item)
      /\ Len(queue) \in Nat \ {0} /\ Len(Tail(queue)) = Len(queue) - 1
      /\ \A n \in 1..Len(Tail(queue)) : Tail(queue)[n] = queue[n + 1]
  BY <1>2
<1>4. rgnNodes' = loop[NUM_NODES].nodes /\ queue' = loop[NUM_NODES].queue
  BY DEF D!Turn
<1>5. first \in V /\ first.nodes = rgnNodes /\ first.queue = Tail(queue)
  BY <1>2, <1>3
<1> HIDE DEF item, first
<1>6. F \in [Nat \X V -> V]
  <2>1. ASSUME NEW e \in Nat \X V
        PROVE  (IF e[1] < NUM_NODES THEN D!Relax(e[2], item, e[1]) ELSE e[2]) \in V
    <3>1. e[1] \in Nat /\ e[2] \in V
      OBVIOUS
    <3>2. e[1] < NUM_NODES => D!Relax(e[2], item, e[1]) \in V
      BY <1>1, <1>3, <3>1, RelaxTyped
    <3> HIDE DEF V
    <3> QED
      BY <3>1, <3>2
  <2> HIDE DEF V
  <2> QED
    BY <2>1
<1>7. PICK f \in [Nat -> V] : Iterates(f, first, F)
  <2> HIDE DEF F, V
  <2> QED
    BY <1>5, <1>6, Recursion
<1>8. f[0] = first
      /\ \A n \in Nat : n < NUM_NODES => f[n + 1] = D!Relax(f[n], item, n)
  <2> HIDE DEF V
  <2>1. \A n \in Nat : <<n, f[n]>> \in Nat \X V
    OBVIOUS
  <2> QED
    BY <1>7, <2>1 DEF Iterates
<1> HIDE DEF F, V
<1>9. loop = Worked(loop)
  <2> DEFINE g == [i \in 0..NUM_NODES |-> f[i]]
  <2>1. ASSUME NEW i \in 0..NUM_NODES
        PROVE  f[i] = IF i = 0 THEN first ELSE D!Relax(g[i - 1], item, i - 1)
    <3>1. i # 0 => /\ i - 1 \in Nat /\ i - 1 < NUM_NODES /\ (i - 1) + 1 = i
                   /\ i - 1 \in 0..NUM_NODES
      BY <1>1
    <3>2. i # 0 => g[i - 1] = f[i - 1]
      BY <3>1
    <3> HIDE DEF g
    <3> QED
      BY <1>8, <3>1, <3>2
  <2>2. g = Worked(g)
    BY <2>1
  <2> HIDE DEF Worked, g
  <2> QED
    BY <2>2
<1> HIDE DEF loop
<1>10. /\ loop[0] = first
       /\ \A n \in Nat : n < NUM_NODES => loop[n + 1] = D!Relax(loop[n], item, n)
  <2>1. 0 \in 0..NUM_NODES
    BY <1>1
  <2>2. ASSUME NEW n \in Nat, n < NUM_NODES
        PROVE  loop[n + 1] = D!Relax(loop[n], item, n)
    <3>1. n + 1 \in 0..NUM_NODES /\ n + 1 # 0 /\ (n + 1) - 1 = n
      BY <1>1, <2>2
    <3> QED
      BY <1>9, <3>1
  <2> QED
    BY <1>9, <2>1, <2>2
<1>11. Relaxing(first, item, 0)
  <2>1. \A n \in 1..Len(Tail(queue)) : n + 1 \in 1..Len(queue)
    BY <1>3
  <2>2. Sound(rgnNodes, Tail(queue))
    BY <1>2, <1>3, <2>1 DEF Sound
  <2>3. Held(rgnNodes, item)
    <3>1. 1 \in 1..Len(queue)
      BY <1>3
    <3> QED
      BY <1>2, <1>3, <3>1
  <2>4. ASSUME NEW i \in D!Node, Waiting(rgnNodes, queue, i)
        PROVE  \/ Waiting(rgnNodes, Tail(queue), i)
               \/ PartlyRelaxed(rgnNodes, item, 0, i)
    <3>1. PICK n \in 1..Len(queue) : queue[n].iNode = i /\ queue[n].iDist = rgnNodes[i].iDist
      BY <2>4 DEF Waiting
    <3>2. CASE n = 1
      <4>1. \A j \in D!Node : ~(j < 0)
        BY EdgesTyped, <1>1 DEF D!Node
      <4> QED
        BY <1>3, <3>1, <3>2, <4>1 DEF PartlyRelaxed
    <3>3. CASE n # 1
      <4>1. n - 1 \in 1..Len(Tail(queue)) /\ (n - 1) + 1 = n
        BY <1>3, <3>3
      <4>2. Tail(queue)[n - 1] = queue[n]
        BY <1>3, <4>1
      <4> QED
        BY <3>1, <4>1, <4>2 DEF Waiting
    <3> QED
      BY <3>2, <3>3
  <2>5. ASSUME NEW i \in D!Node
        PROVE  \/ rgnNodes[i].iDist = NONE \/ Waiting(rgnNodes, Tail(queue), i)
               \/ AllRelaxed(rgnNodes, i) \/ PartlyRelaxed(rgnNodes, item, 0, i)
    BY <2>4 DEF DijkstraInv
  <2> QED
    BY <1>5, <2>2, <2>3, <2>5, Zenon DEF Relaxing
<1> DEFINE Ks == {n \in Nat : n <= NUM_NODES => Relaxing(loop[n], item, n)}
<1>12. 0 \in Ks
  BY <1>10, <1>11
<1>13. \A n \in Nat : n \in Ks => n + 1 \in Ks
  <2> SUFFICES ASSUME NEW n \in Nat, n \in Ks, n + 1 <= NUM_NODES
               PROVE  Relaxing(loop[n + 1], item, n + 1)
    OBVIOUS
  <2>1. n < NUM_NODES /\ n <= NUM_NODES /\ n \in D!Node
    BY <1>1
  <2>2. Relaxing(loop[n], item, n)
    BY <2>1
  <2>3. loop[n + 1] = D!Relax(loop[n], item, n)
    BY <1>10, <2>1
  <2> QED
    BY <1>1, <1>3, <2>1, <2>2, <2>3, RelaxKeeps
<1>14. Relaxing(loop[NUM_NODES], item, NUM_NODES)
  <2>1. Nat \subseteq Ks
    <3> HIDE DEF Ks
    <3> QED
      BY <1>12, <1>13, SetInduction
  <2>2. NUM_NODES \in Nat /\ NUM_NODES <= NUM_NODES
    BY <1>1
  <2> QED
    BY <2>1, <2>2
<1> QED
  BY <1>4, <1>14 DEF item
\* Matrix and start stay: what is a way, what it costs and what is relaxed.
LEMMA SameWays ==
  ASSUME AdjMatrix' = AdjMatrix, chStart' = chStart
  PROVE  /\ \A w, i : WayIs(w, i)' <=> WayIs(w, i)
         /\ \A w : D!Costs(w)' = D!Costs(w)
         /\ \A w : D!Cost(w)' = D!Cost(w)
         /\ \A nodes, i, j : Relaxed(nodes, i, j)' <=> Relaxed(nodes, i, j)
<1>1. \A w, n : D!Step(w, n)' = D!Step(w, n)
  BY Zenon DEF D!Step
<1>2. \A w : D!Costs(w)' = D!Costs(w)
  BY <1>1 DEF D!Costs
<1>3. \A w : D!Cost(w)' = D!Cost(w)
  BY <1>2, Zenon DEF D!Cost
<1>4. \A w, i : WayIs(w, i)' <=> WayIs(w, i)
  BY <1>1 DEF WayIs, Walk, D!Node
<1> QED
  BY <1>2, <1>3, <1>4, Zenon DEF Relaxed

LEMMA TurnKeeps ==
  ASSUME D!DijkstraAssumption, DijkstraInv, D!Turn
  PROVE  DijkstraInv'
<1>1. PICK so_far : /\ Relaxing(so_far, Head(queue), NUM_NODES)
                    /\ rgnNodes' = so_far.nodes /\ queue' = so_far.queue
  BY LoopRelaxes
<1>2. AdjMatrix' = AdjMatrix /\ chStart' = chStart
  BY DEF D!Turn
<1>3. AdjMatrix \in Matrices /\ chStart \in D!Node
  BY DEF DijkstraInv
<1> DEFINE nodes == so_far.nodes
           entries == so_far.queue
<1>4. /\ Sound(nodes, entries)
      /\ \A i \in D!Node : \/ nodes[i].iDist = NONE \/ Waiting(nodes, entries, i)
                           \/ AllRelaxed(nodes, i)
                           \/ PartlyRelaxed(nodes, Head(queue), NUM_NODES, i)
  BY <1>1 DEF Relaxing
<1>5. ASSUME NEW i, PartlyRelaxed(nodes, Head(queue), NUM_NODES, i)
      PROVE  AllRelaxed(nodes, i)
  <2>1. \A j \in D!Node : j < NUM_NODES
    BY EdgesTyped, <1>3 DEF D!Node
  <2> QED
    BY <1>5, <2>1 DEF PartlyRelaxed, AllRelaxed
<1> HIDE DEF nodes, entries
<1>6. rgnNodes' = nodes /\ queue' = entries
  BY <1>1 DEF nodes, entries
<1>7. Sound(rgnNodes, queue)'
  <2>1. /\ nodes \in Nodes /\ entries \in Seq(Item) /\ nodes[chStart].iDist = 0
        /\ Known(nodes) /\ \A n \in 1..Len(entries) : Held(nodes, entries[n])
    BY <1>4 DEF Sound
  <2>2. Known(rgnNodes)'
    BY <1>2, <1>6, <2>1, SameWays DEF Known
  <2>3. \A n \in 1..Len(queue') : Held(rgnNodes, queue[n])'
    BY <1>2, <1>6, <2>1, SameWays DEF Held
  <2> QED
    BY <1>2, <1>6, <2>1, <2>2, <2>3 DEF Sound
<1>8. \A i \in D!Node : \/ rgnNodes'[i].iDist = NONE
                        \/ Waiting(rgnNodes, queue, i)'
                        \/ AllRelaxed(rgnNodes, i)'
  <2>1. \A i : Waiting(nodes, entries, i) => Waiting(rgnNodes, queue, i)'
    BY <1>6 DEF Waiting
  <2>2. \A i : AllRelaxed(nodes, i) => AllRelaxed(rgnNodes, i)'
    BY <1>2, <1>6, SameWays DEF AllRelaxed, Relaxed
  <2> QED
    BY <1>4, <1>5, <1>6, <2>1, <2>2
<1> QED
  BY <1>2, <1>3, <1>7, <1>8 DEF DijkstraInv

\* When the queue is empty every edge is relaxed, so no way is cheaper than the
\* cost its node has.
LEMMA EmptyShortest ==
  ASSUME D!DijkstraAssumption, DijkstraInv, queue = <<>>, NEW i \in D!Node, NEW w, WayIs(w, i)
  PROVE  rgnNodes[i].iDist # NONE /\ rgnNodes[i].iDist <= D!Cost(w)
<1> DEFINE k == Len(w)
           c(n) == D!Costs(w)[n]
           Ks == {n \in Nat : n + 1 <= k => /\ rgnNodes[w[n + 1]].iDist # NONE
                                            /\ rgnNodes[w[n + 1]].iDist <= c(n + 1)}
<1>1. /\ AdjMatrix \in Matrices /\ chStart \in D!Node /\ rgnNodes \in Nodes
      /\ rgnNodes[chStart].iDist = 0 /\ NONE \in Nat \ {0}
      /\ \A j \in D!Node : rgnNodes[j].iDist = NONE \/ AllRelaxed(rgnNodes, j)
  BY EdgesTyped DEF DijkstraInv, Sound, Waiting
<1>2. /\ k \in Nat \ {0} /\ w[1] = chStart /\ w[k] = i
      /\ \A n \in 1..k : w[n] \in D!Node
      /\ \A n \in 1..k : n < k => D!Step(w, n) # NONE
  BY DEF WayIs, Walk
<1>3. /\ \A n \in 1..k : c(n) \in Nat
      /\ \A n \in 1..k : n > 1 => c(n) = c(n - 1) + D!Step(w, n - 1)
      /\ c(1) = 0
  BY <1>1, CostsAre DEF WayIs
<1>4. \A j \in D!Node : rgnNodes[j].iDist \in Nat
  BY <1>1 DEF Nodes
<1> HIDE DEF c, k
<1>5. 0 \in Ks
  BY <1>1, <1>2, <1>3
<1>6. \A n \in Nat : n \in Ks => n + 1 \in Ks
  <2> SUFFICES ASSUME NEW n \in Nat, n \in Ks, (n + 1) + 1 <= k
               PROVE  /\ rgnNodes[w[(n + 1) + 1]].iDist # NONE
                      /\ rgnNodes[w[(n + 1) + 1]].iDist <= c((n + 1) + 1)
    OBVIOUS
  <2>1. /\ (n + 1) + 1 \in 1..k /\ n + 1 \in 1..k /\ n + 1 < k /\ (n + 1) + 1 > 1
        /\ ((n + 1) + 1) - 1 = n + 1 /\ n + 1 <= k
    BY <1>2
  <2> DEFINE p == w[n + 1]
             q == w[(n + 1) + 1]
  <2>2. /\ p \in D!Node /\ q \in D!Node /\ D!Step(w, n + 1) # NONE
        /\ D!Step(w, n + 1) = AdjMatrix[p][q]
    BY <1>2, <2>1 DEF D!Step
  <2>3. rgnNodes[p].iDist # NONE /\ rgnNodes[p].iDist <= c(n + 1)
    BY <2>1
  <2>4. c((n + 1) + 1) = c(n + 1) + AdjMatrix[p][q] /\ c(n + 1) \in Nat
    BY <1>3, <2>1, <2>2
  <2>5. AdjMatrix[p][q] \in Nat
    BY <1>1, <2>2, EdgesTyped
  <2> HIDE DEF p, q
  <2>6. /\ rgnNodes[q].iDist # NONE
        /\ rgnNodes[q].iDist <= rgnNodes[p].iDist + AdjMatrix[p][q]
    BY <1>1, <2>2, <2>3 DEF AllRelaxed, Relaxed
  <2>7. rgnNodes[q].iDist <= c((n + 1) + 1)
    BY <1>4, <2>2, <2>3, <2>4, <2>5, <2>6
  <2> QED
    BY <2>6, <2>7 DEF q
<1>7. Nat \subseteq Ks
  <2> HIDE DEF Ks
  <2> QED
    BY <1>5, <1>6, SetInduction
<1>8. k - 1 \in Nat /\ (k - 1) + 1 = k /\ (k - 1) + 1 <= k
  BY <1>2
<1>9. rgnNodes[w[k]].iDist # NONE /\ rgnNodes[w[k]].iDist <= c(k)
  <2>1. k - 1 \in Ks
    <3> HIDE DEF Ks
    <3> QED
      BY <1>7, <1>8
  <2> QED
    BY <1>8, <2>1
<1> QED
  BY <1>2, <1>9 DEF c, k, D!Cost

LEMMA ShortestAtEnd == D!DijkstraAssumption /\ DijkstraInv => D!EndsShortest
<1>1. SUFFICES ASSUME D!DijkstraAssumption, DijkstraInv, queue = <<>>, NEW i \in D!Node
               PROVE  IF D!WaysTo(i) = {} THEN rgnNodes[i].iDist = NONE
                      ELSE /\ \E w \in D!WaysTo(i) : D!Cost(w) = rgnNodes[i].iDist
                           /\ \A w \in D!WaysTo(i) : D!Cost(w) >= rgnNodes[i].iDist
  BY Zenon DEF D!EndsShortest
<1>2. \A w : w \in D!WaysTo(i) => rgnNodes[i].iDist # NONE /\ rgnNodes[i].iDist <= D!Cost(w)
  BY <1>1, EmptyShortest, WaysAre
<1>3. rgnNodes[i].iDist = NONE \/ \E w \in D!WaysTo(i) : D!Cost(w) = rgnNodes[i].iDist
  BY <1>1, WaysAre DEF DijkstraInv, Sound, Known
<1> QED
  BY <1>2, <1>3

\* When the queue is empty each node has the cost of the cheapest way, for
\* matrices of any size.
THEOREM ShortestWays == Spec => []EndsShortest
<1> DEFINE Inv == program = "Dijkstra" => DijkstraInv
<1>0. D!DijkstraAssumption
  BY AlgorithmsAssumption
<1>1. Init => Inv
  BY <1>0, DijkstraInit DEF Init
<1>2. Inv /\ [Next]_vars => Inv'
  <2> SUFFICES ASSUME Inv, [Next]_vars, program' = "Dijkstra"
               PROVE  DijkstraInv'
    OBVIOUS
  <2>1. program = "Dijkstra" /\ (D!Turn \/ UNCHANGED dijkstra)
    BY DEF Next, vars, dijkstra, D!Next
  <2>2. CASE D!Turn
    BY <1>0, <2>1, <2>2, TurnKeeps
  <2>3. CASE UNCHANGED dijkstra
    <3>1. UNCHANGED <<AdjMatrix, chStart, rgnNodes, queue>>
      BY <2>3 DEF dijkstra
    <3>2. DijkstraInv
      BY <2>1
    <3>3. Sound(rgnNodes, queue)'
      <4>1. Known(rgnNodes)'
        BY <3>1, <3>2, SameWays DEF DijkstraInv, Sound, Known
      <4>2. \A n \in 1..Len(queue') : Held(rgnNodes, queue[n])'
        BY <3>1, <3>2, SameWays DEF DijkstraInv, Sound, Held
      <4> QED
        BY <3>1, <3>2, <4>1, <4>2 DEF DijkstraInv, Sound
    <3>4. \A i : Waiting(rgnNodes, queue, i)' <=> Waiting(rgnNodes, queue, i)
      BY <3>1 DEF Waiting
    <3>5. \A i : AllRelaxed(rgnNodes, i)' <=> AllRelaxed(rgnNodes, i)
      BY <3>1, SameWays DEF AllRelaxed, Relaxed
    <3> QED
      BY <3>1, <3>2, <3>3, <3>4, <3>5 DEF DijkstraInv
  <2> QED
    BY <2>1, <2>2, <2>3
<1>3. Inv => EndsShortest
  BY <1>0, ShortestAtEnd DEF EndsShortest
<1> QED
  BY <1>1, <1>2, <1>3, PTL DEF Spec
-----------------------------------------------------------------------------
(* The way of a token.                                                     *)

\* Places of a hash, and of its last digits.
Spots == 0..(Length - 1)

LEMMA TokenSizes ==
  ASSUME T!TokenAssumption
  PROVE  /\ Length \in Nat \ {0} /\ TokenLength \in Nat \ {0} /\ WordLength \in Nat
         /\ TokenLength < Length /\ WordLength <= Length /\ TokenLength < WordLength
         /\ Base \in Nat \ {0} /\ Length % 2 = 0 /\ WordLength % 2 = 0
         /\ NULL \notin T!Digit /\ 0 \in T!Digit /\ T!Digit \subseteq Nat
         /\ T!Hash = [Spots -> T!Digit]
  BY DEF T!TokenAssumption, T!Digit, T!Hash, Spots

LEMMA XorLaws ==
  ASSUME T!TokenAssumption
  PROVE  \A a, b \in T!Digit :
           BitXor(a, b) \in T!Digit /\ BitXor(a, b) = BitXor(b, a) /\ BitXor(BitXor(a, b), b) = a
  BY DEF T!TokenAssumption

\* One number is taken out of the exclusive or by itself only.
LEMMA XorCancels ==
  ASSUME T!TokenAssumption, NEW a \in T!Digit, NEW b \in T!Digit, NEW c \in T!Digit
  PROVE  /\ BitXor(a, c) = BitXor(b, c) => a = b
         /\ BitXor(c, a) = BitXor(c, b) => a = b
         /\ BitXor(BitXor(a, b), c) = b <=> a = c
<1>1. BitXor(a, c) = BitXor(b, c) => a = b
  BY XorLaws
<1>2. BitXor(c, a) = BitXor(c, b) => a = b
  BY <1>1, XorLaws
<1>3. ASSUME a = c
      PROVE  BitXor(BitXor(a, b), c) = b
  BY <1>3, XorLaws
<1>4. ASSUME BitXor(BitXor(a, b), c) = b
      PROVE  a = c
  <2>1. BitXor(a, b) \in T!Digit
    BY XorLaws
  <2>2. BitXor(BitXor(BitXor(a, b), c), c) = BitXor(a, b)
    BY <2>1, XorLaws
  <2>3. BitXor(b, c) = BitXor(a, b)
    BY <1>4, <2>2
  <2>4. BitXor(c, b) = BitXor(a, b)
    BY <2>3, XorLaws
  <2> QED
    BY <2>4, XorLaws
<1> QED
  BY <1>1, <1>2, <1>3, <1>4

\* A number has its leading zeros.
LEMMA MissingIs ==
  ASSUME T!TokenAssumption, NEW h \in T!Hash
  PROVE  T!Missing(h) \in Spots
<1> DEFINE Set == {j \in Nat : j \in Spots /\ (h[j] # 0 \/ j = Length - 1)}
<1>1. Length - 1 \in Set
  BY TokenSizes DEF Spots
<1>2. PICK z \in Set : \A j \in Set : z <= j
  <2>1. Set \in SUBSET Nat /\ Set # {}
    BY <1>1
  <2> HIDE DEF Set
  <2> QED
    BY <2>1, LeastElement
<1>3. z \in Spots /\ (z = Length - 1 \/ h[z] # 0)
  OBVIOUS
<1>4. \A j \in 0..(z - 1) : h[j] = 0
  <2> SUFFICES ASSUME NEW j \in 0..(z - 1), h[j] # 0
               PROVE  FALSE
    OBVIOUS
  <2>1. j \in Nat /\ j \in Spots /\ j < z /\ z \in Nat
    BY <1>3, TokenSizes DEF Spots
  <2>2. j \in Set
    BY <2>1
  <2>3. z <= j
    BY <1>2, <2>2
  <2> QED
    BY <2>1, <2>3
<1>5. \E x \in 0..(Length - 1) :
        (\A j \in 0..(x - 1) : h[j] = 0) /\ (x = Length - 1 \/ h[x] # 0)
  BY <1>3, <1>4 DEF Spots
<1> QED
  BY <1>5 DEF T!Missing, Spots

\* The digits of a row after the leading zeros are dropped.
LEMMA RowIs ==
  ASSUME T!TokenAssumption, NEW h \in T!Hash
  PROVE  /\ T!RowOf(h) \in [Spots -> T!Digit \union {NULL}]
         /\ \A j \in Spots :
              T!RowOf(h)[j] = IF j + T!Missing(h) < Length THEN h[j + T!Missing(h)] ELSE NULL
<1> DEFINE z == T!Missing(h)
<1>1. z \in Nat
  BY MissingIs, TokenSizes DEF Spots
<1>2. T!RowOf(h) = [j \in Spots |-> IF j + z < Length THEN h[j + z] ELSE NULL]
  BY Zenon DEF T!RowOf, Spots
<1> HIDE DEF z
<1>3. \A j \in Spots : j + z < Length => j + z \in Spots
  BY <1>1, TokenSizes DEF Spots
<1>4. \A j \in Spots : (IF j + z < Length THEN h[j + z] ELSE NULL) \in T!Digit \union {NULL}
  BY <1>3, TokenSizes
<1> QED
  BY <1>2, <1>4 DEF z

\* Two rows have the same last bytes.
LEMMA SameTokens ==
  ASSUME T!TokenAssumption, NEW a \in T!Hash, NEW b \in T!Hash
  PROVE  T!Token(T!RowOf(a)) = T!Token(T!RowOf(b)) <=>
           \/ T!Missing(a) >= TokenLength /\ T!Missing(b) >= TokenLength
           \/ /\ T!Missing(a) = T!Missing(b) /\ T!Missing(a) < TokenLength
              /\ \A j \in (Length - (TokenLength - T!Missing(a)))..(Length - 1) : a[j] = b[j]
<1> DEFINE y == T!Missing(a)
           z == T!Missing(b)
           P == (Length - TokenLength)..(Length - 1)
           Ra(j) == IF j + y < Length THEN a[j + y] ELSE NULL
           Rb(j) == IF j + z < Length THEN b[j + z] ELSE NULL
<1>1. /\ Length \in Nat \ {0} /\ TokenLength \in Nat \ {0} /\ TokenLength < Length
      /\ y \in Spots /\ z \in Spots /\ y \in Nat /\ z \in Nat
      /\ \A j \in P : j \in Spots
  BY TokenSizes, MissingIs DEF Spots
<1>2. \A j \in P : T!RowOf(a)[j] = Ra(j) /\ T!RowOf(b)[j] = Rb(j)
  BY <1>1, RowIs
<1>3. T!Token(T!RowOf(a)) = T!Token(T!RowOf(b)) <=> \A j \in P : Ra(j) = Rb(j)
  <2>1. /\ T!Token(T!RowOf(a)) = [j \in P |-> T!RowOf(a)[j]]
        /\ T!Token(T!RowOf(b)) = [j \in P |-> T!RowOf(b)[j]]
    BY Zenon DEF T!Token
  <2> HIDE DEF P, Ra, Rb
  <2>2. T!Token(T!RowOf(a)) = [j \in P |-> Ra(j)] /\ T!Token(T!RowOf(b)) = [j \in P |-> Rb(j)]
    BY <1>2, <2>1
  <2> QED
    BY <2>2
<1>4. \A j \in Spots : a[j] # NULL /\ b[j] # NULL
  BY TokenSizes
<1> HIDE DEF y, z
<1>5. CASE y >= TokenLength /\ z >= TokenLength
  <2>1. \A j \in P : Ra(j) = NULL /\ Rb(j) = NULL
    BY <1>1, <1>5
  <2> QED
    BY <1>3, <1>5, <2>1 DEF y, z
<1>6. CASE y # z /\ (y < TokenLength \/ z < TokenLength)
  <2> DEFINE j == IF y < z THEN Length - 1 - y ELSE Length - 1 - z
  <2>1. /\ j \in P
        /\ y < z => j + y < Length /\ j + y \in Spots /\ ~(j + z < Length)
        /\ ~(y < z) => j + z < Length /\ j + z \in Spots /\ ~(j + y < Length)
    BY <1>1, <1>6 DEF Spots
  <2>2. Ra(j) # Rb(j)
    <3> HIDE DEF j
    <3> QED
      BY <1>4, <2>1
  <2>3. ~(\A n \in P : Ra(n) = Rb(n))
    <3> HIDE DEF j, Ra, Rb, P
    <3> QED
      BY <2>1, <2>2
  <2>4. ~(y >= TokenLength /\ z >= TokenLength) /\ y # z
    BY <1>1, <1>6
  <2> QED
    BY <1>3, <2>3, <2>4 DEF y, z
<1>7. CASE y = z /\ y < TokenLength
  <2> DEFINE K == (Length - (TokenLength - y))..(Length - 1)
  <2>1. ASSUME \A j \in P : Ra(j) = Rb(j), NEW n \in K
        PROVE  a[n] = b[n]
    <3>1. n - y \in P /\ (n - y) + y = n /\ n < Length
      BY <1>1, <1>7
    <3>2. Ra(n - y) = a[n] /\ Rb(n - y) = b[n]
      BY <1>7, <3>1
    <3> HIDE DEF Ra, Rb
    <3> QED
      BY <2>1, <3>1, <3>2
  <2>2. ASSUME \A n \in K : a[n] = b[n], NEW j \in P
        PROVE  Ra(j) = Rb(j)
    <3>1. j + y < Length => j + y \in K
      BY <1>1
    <3> QED
      BY <1>7, <2>2, <3>1
  <2>3. (\A j \in P : Ra(j) = Rb(j)) <=> \A n \in K : a[n] = b[n]
    <3> HIDE DEF Ra, Rb, P, K
    <3> QED
      BY <2>1, <2>2
  <2>4. ~(y >= TokenLength)
    BY <1>1, <1>7
  <2> HIDE DEF Ra, Rb, P
  <2> QED
    BY <1>3, <1>7, <2>3, <2>4 DEF y, z
<1> QED
  BY <1>1, <1>5, <1>6, <1>7
\* A number with no more digits than an address has.
ShortNumber(h) == \A j \in 0..(Length - WordLength - 1) : h[j] = 0

TokenTypes ==
  /\ station \in {"table", "decode", "answered"}
  /\ measurement \in T!Hash
  /\ \A c \in 1..2 : returns[c] \in T!Hash /\ ShortNumber(returns[c])
  /\ lr \in Seq([Spots -> T!Digit \union {NULL}]) /\ Len(lr) \in 0..2
  /\ \A c \in 1..Len(lr) : lr[c] = T!RowOf(T!Cipher(c))
  /\ station = "table" =>
       /\ place = Length - 1 /\ shift_num = 0
       /\ tmp_xor_result = [j \in 0..(Length \div 2 - 1) |-> 0]
  /\ station # "table" => Len(lr) = 2 /\ asked \in 1..2 /\ digest \in T!Hash

\* The row of the call has all its digits and is the one that is found.
FullRow == T!Short(asked) = 0 /\ T!Found(T!Token(lr[asked])) = asked

\* The bytes put together so far.
Byte2(h, b) == (h[2 * b] * Base) + h[(2 * b) + 1]

Decoding ==
  station = "decode" =>
    /\ place \in Int /\ place >= -1 /\ place < Length
    /\ FullRow =>
         /\ place >= 0 => shift_num = IF place % 2 = 0 THEN 1 ELSE 0
         /\ tmp_xor_result \in [0..(Length \div 2 - 1) -> Nat]
         /\ \A b \in 0..(Length \div 2 - 1) :
              tmp_xor_result[b] =
                IF place < 2 * b THEN Byte2(T!Cipher(asked), b)
                ELSE IF place = 2 * b THEN T!Cipher(asked)[(2 * b) + 1]
                ELSE 0

TokenInv == TokenTypes /\ Decoding /\ T!DecodesFullText

\* The ciphers are numbers of as many digits.
LEMMA XorIs ==
  ASSUME T!TokenAssumption, NEW a \in T!Hash, NEW b \in T!Hash
  PROVE  /\ T!XorOf(a, b) \in T!Hash
         /\ \A j \in Spots : T!XorOf(a, b)[j] = BitXor(a[j], b[j])
<1>1. T!XorOf(a, b) = [j \in Spots |-> BitXor(a[j], b[j])]
  BY Zenon DEF T!XorOf, Spots
<1>2. \A j \in Spots : BitXor(a[j], b[j]) \in T!Digit
  BY XorLaws, TokenSizes
<1> QED
  BY <1>1, <1>2, TokenSizes

LEMMA CipherIs ==
  ASSUME T!TokenAssumption, measurement \in T!Hash, NEW c, returns[c] \in T!Hash
  PROVE  /\ T!Cipher(c) \in T!Hash
         /\ Key \in T!Hash
         /\ \A j \in Spots :
              T!Cipher(c)[j] = BitXor(BitXor(measurement[j], returns[c][j]), Key[j])
<1>1. Key \in T!Hash
  BY DEF T!TokenAssumption
<1>2. T!XorOf(measurement, returns[c]) \in T!Hash
  BY XorIs
<1> QED
  BY <1>1, <1>2, XorIs DEF T!Cipher

LEMMA CiphersApart ==
  ASSUME T!TokenAssumption, measurement \in T!Hash,
         NEW c, returns[c] \in T!Hash, NEW d, returns[d] \in T!Hash, NEW j \in Spots
  PROVE  T!Cipher(c)[j] = T!Cipher(d)[j] <=> returns[c][j] = returns[d][j]
<1>1. /\ measurement[j] \in T!Digit /\ returns[c][j] \in T!Digit /\ returns[d][j] \in T!Digit
      /\ Key[j] \in T!Digit
  BY CipherIs, TokenSizes
<1> DEFINE x == BitXor(measurement[j], returns[c][j])
           y == BitXor(measurement[j], returns[d][j])
<1>2. x \in T!Digit /\ y \in T!Digit
  BY <1>1, XorLaws
<1>3. x = y <=> returns[c][j] = returns[d][j]
  BY <1>1, XorCancels
<1>4. T!Cipher(c)[j] = BitXor(x, Key[j]) /\ T!Cipher(d)[j] = BitXor(y, Key[j])
  BY CipherIs
<1> HIDE DEF x, y
<1>5. BitXor(x, Key[j]) = BitXor(y, Key[j]) <=> x = y
  BY <1>1, <1>2, XorCancels
<1> QED
  BY <1>3, <1>4, <1>5

LEMMA ApartByReturns == T!TokenAssumption /\ TokenTypes => T!TokensTellCallsApart
<1> SUFFICES ASSUME T!TokenAssumption, TokenTypes, station = "decode"
             PROVE  T!Token(lr[1]) = T!Token(lr[2]) <=>
                      \/ T!Short(1) >= TokenLength /\ T!Short(2) >= TokenLength
                      \/ /\ T!Short(1) = T!Short(2) /\ T!Short(1) < TokenLength
                         /\ T!KeptDigits(returns[1], T!Short(1))
                              = T!KeptDigits(returns[2], T!Short(2))
  BY DEF T!TokensTellCallsApart
<1> DEFINE a == T!Cipher(1)
           b == T!Cipher(2)
           z == T!Missing(a)
           K == (Length - (TokenLength - z))..(Length - 1)
<1>1. 1 \in 1..2 /\ 2 \in 1..2 /\ measurement \in T!Hash
      /\ returns[1] \in T!Hash /\ returns[2] \in T!Hash
      /\ lr[1] = T!RowOf(a) /\ lr[2] = T!RowOf(b)
  <2>1. 1 \in 1..2 /\ 2 \in 1..2 /\ Len(lr) = 2
    BY DEF TokenTypes
  <2> HIDE DEF a, b
  <2>2. \A c \in 1..2 : lr[c] = T!RowOf(T!Cipher(c))
    BY <2>1 DEF TokenTypes
  <2> QED
    BY <2>1, <2>2, Zenon DEF TokenTypes, a, b
<1>2. a \in T!Hash /\ b \in T!Hash
  BY <1>1, CipherIs
<1>3. T!Short(1) = z /\ T!Short(2) = T!Missing(b)
  BY DEF T!Short
<1>4. z < TokenLength => \A j \in K : j \in Spots
  BY <1>2, MissingIs, TokenSizes DEF Spots
<1>5. z < TokenLength => \A j \in K : a[j] = b[j] <=> returns[1][j] = returns[2][j]
  BY <1>1, <1>4, CiphersApart
<1> HIDE DEF a, b
<1>6. T!Token(lr[1]) = T!Token(lr[2]) <=>
           \/ z >= TokenLength /\ T!Missing(b) >= TokenLength
           \/ /\ z = T!Missing(b) /\ z < TokenLength
              /\ \A j \in K : a[j] = b[j]
  BY <1>1, <1>2, SameTokens
<1>7. /\ T!KeptDigits(returns[1], z) = [j \in K |-> returns[1][j]]
      /\ T!KeptDigits(returns[2], z) = [j \in K |-> returns[2][j]]
  BY Zenon DEF T!KeptDigits
<1> HIDE DEF z, K
<1>8. T!KeptDigits(returns[1], z) = T!KeptDigits(returns[2], z)
        <=> \A j \in K : returns[1][j] = returns[2][j]
  BY <1>7
<1> QED
  BY <1>3, <1>5, <1>6, <1>8

LEMMA TokenInit == T!TokenAssumption /\ T!Init => TokenInv
<1> SUFFICES ASSUME T!TokenAssumption, T!Init
             PROVE  TokenInv
  OBVIOUS
<1>1. /\ station = "table" /\ measurement \in Measurements
      /\ returns \in Returns \X Returns /\ lr = <<>>
      /\ place = Length - 1 /\ shift_num = 0
      /\ tmp_xor_result = [j \in 0..(Length \div 2 - 1) |-> 0]
  BY DEF T!Init
<1>2. returns[1] \in Returns /\ returns[2] \in Returns
  BY <1>1
<1>3. measurement \in T!Hash
      /\ \A r \in Returns : r \in T!Hash /\ ShortNumber(r)
  BY <1>1 DEF T!TokenAssumption, ShortNumber
<1>4. \A c \in 1..2 : c = 1 \/ c = 2
  OBVIOUS
<1>5. \A c \in 1..2 : returns[c] \in T!Hash /\ ShortNumber(returns[c])
  BY <1>2, <1>3, <1>4
<1>6. TokenTypes
  BY <1>1, <1>3, <1>5 DEF TokenTypes
<1> QED
  BY <1>1, <1>6 DEF TokenInv, Decoding, T!DecodesFullText

LEMMA SameCipher ==
  ASSUME measurement' = measurement, returns' = returns
  PROVE  \A c : /\ T!Cipher(c)' = T!Cipher(c)
                /\ T!RowOf(T!Cipher(c))' = T!RowOf(T!Cipher(c))
                /\ T!Short(c)' = T!Short(c)
<1>1. \A c : T!Cipher(c)' = T!Cipher(c)
  BY Zenon DEF T!Cipher, T!XorOf
<1> QED
  BY <1>1, Zenon DEF T!Short

LEMMA WriteRowKeeps ==
  ASSUME T!TokenAssumption, TokenInv, T!WriteRow
  PROVE  TokenInv'
<1>1. /\ station = "table" /\ Len(lr) < 2
      /\ lr' = Append(lr, T!RowOf(T!Cipher(Len(lr) + 1)))
      /\ UNCHANGED <<station, measurement, returns, asked, digest, place, shift_num,
                     tmp_xor_result, answer>>
  BY DEF T!WriteRow
<1>2. TokenTypes
  BY DEF TokenInv
<1>3. /\ lr \in Seq([Spots -> T!Digit \union {NULL}]) /\ Len(lr) \in Nat
      /\ Len(lr) + 1 \in 1..2 /\ measurement \in T!Hash
  BY <1>1, <1>2 DEF TokenTypes
<1>4. T!RowOf(T!Cipher(Len(lr) + 1)) \in [Spots -> T!Digit \union {NULL}]
  <2>1. T!Cipher(Len(lr) + 1) \in T!Hash
    BY <1>2, <1>3, CipherIs DEF TokenTypes
  <2> QED
    BY <2>1, RowIs
<1>5. /\ lr' \in Seq([Spots -> T!Digit \union {NULL}]) /\ Len(lr') = Len(lr) + 1
      /\ lr'[Len(lr) + 1] = T!RowOf(T!Cipher(Len(lr) + 1))
      /\ \A c \in 1..Len(lr) : lr'[c] = lr[c]
  BY <1>1, <1>3, <1>4
<1>6. \A c : T!RowOf(T!Cipher(c))' = T!RowOf(T!Cipher(c))
  BY <1>1, SameCipher
<1>7. \A c \in 1..Len(lr') : lr'[c] = T!RowOf(T!Cipher(c))'
  <2>1. \A c \in 1..Len(lr') : c \in 1..Len(lr) \/ c = Len(lr) + 1
    BY <1>3, <1>5
  <2> QED
    BY <1>2, <1>5, <1>6, <2>1 DEF TokenTypes
<1>8. TokenTypes'
  BY <1>1, <1>2, <1>3, <1>5, <1>7 DEF TokenTypes, ShortNumber, T!Hash, T!Digit, Spots
<1> QED
  BY <1>1, <1>8 DEF TokenInv, Decoding, T!DecodesFullText

LEMMA RequestKeeps ==
  ASSUME T!TokenAssumption, TokenInv, T!Request
  PROVE  TokenInv'
<1>1. /\ station = "table" /\ Len(lr) = 2 /\ station' = "decode"
      /\ UNCHANGED <<measurement, returns, lr, place, shift_num, tmp_xor_result, answer>>
  BY DEF T!Request
<1>2. TokenTypes
  BY DEF TokenInv
<1>3. asked' \in 1..2 /\ digest' \in T!Hash
  BY <1>2 DEF T!Request, T!TokenAssumption, TokenTypes
<1>4. /\ place = Length - 1 /\ shift_num = 0
      /\ tmp_xor_result = [j \in 0..(Length \div 2 - 1) |-> 0]
  BY <1>1, <1>2 DEF TokenTypes
<1>5. \A c : T!RowOf(T!Cipher(c))' = T!RowOf(T!Cipher(c))
  BY <1>1, SameCipher
<1>6. TokenTypes'
  BY <1>1, <1>2, <1>3, <1>5 DEF TokenTypes, ShortNumber, T!Hash, T!Digit, Spots
<1>7. /\ Length \in Nat \ {0} /\ Length % 2 = 0
      /\ \A b \in 0..(Length \div 2 - 1) : ~(Length - 1 < 2 * b) /\ Length - 1 # 2 * b
      /\ (Length - 1) % 2 = 1
  BY TokenSizes
<1>8. Decoding'
  BY <1>1, <1>4, <1>7 DEF Decoding
<1> QED
  BY <1>1, <1>6, <1>8 DEF TokenInv, T!DecodesFullText
\* Places and the bytes they are in.
LEMMA SpotIs ==
  ASSUME T!TokenAssumption, NEW i \in Spots
  PROVE  /\ i \div 2 \in 0..(Length \div 2 - 1) /\ i \div 2 \in Nat
         /\ i = (2 * (i \div 2)) + (i % 2) /\ i % 2 \in {0, 1}
         /\ (2 * (i \div 2)) + 1 \in Spots /\ 2 * (i \div 2) \in Spots
  BY TokenSizes DEF Spots

LEMMA ByteFits ==
  ASSUME T!TokenAssumption, NEW u \in T!Digit, NEW v \in T!Digit
  PROVE  /\ (u * Base) + v \in Nat
         /\ ((u * Base) + v) % (Base * Base) = (u * Base) + v
         /\ v % (Base * Base) = v
         /\ ((u * Base) + v) \div Base = u /\ ((u * Base) + v) % Base = v
<1>1. Base \in Nat \ {0} /\ u \in Nat /\ v \in Nat /\ u < Base /\ v < Base
      /\ v \in 0..(Base - 1)
  BY TokenSizes DEF T!Digit
<1>2. u * Base \in Nat /\ Base * Base \in Nat /\ (u * Base) + Base <= Base * Base
  BY <1>1, TimesOrdered
<1>3. ((u * Base) + v) \div Base = u /\ ((u * Base) + v) % Base = v
  BY <1>1, DivIs
<1>4. \A a, m \in Nat : a < m => a % m = a
  OBVIOUS
<1>5. (u * Base) + v \in Nat /\ (u * Base) + v < Base * Base /\ v < Base * Base
  BY <1>1, <1>2
<1> QED
  BY <1>1, <1>2, <1>3, <1>4, <1>5

\* A full row has the digits of its number.
LEMMA FullRowIs ==
  ASSUME T!TokenAssumption, TokenTypes, station = "decode", FullRow
  PROVE  /\ T!Cipher(asked) \in T!Hash
         /\ \A j \in Spots : /\ lr[T!Found(T!Token(lr[asked]))][j] = T!Cipher(asked)[j]
                             /\ T!Cipher(asked)[j] \in T!Digit
<1>1. /\ asked \in 1..2 /\ Len(lr) = 2 /\ measurement \in T!Hash /\ returns[asked] \in T!Hash
      /\ T!Missing(T!Cipher(asked)) = 0 /\ T!Found(T!Token(lr[asked])) = asked
  BY DEF TokenTypes, FullRow, T!Short
<1>2. lr[asked] = T!RowOf(T!Cipher(asked))
  BY <1>1 DEF TokenTypes
<1>3. T!Cipher(asked) \in T!Hash
  BY <1>1, CipherIs
<1>4. \A j \in Spots : j + 0 = j /\ j < Length
  BY TokenSizes DEF Spots
<1>5. \A j \in Spots : T!RowOf(T!Cipher(asked))[j] = T!Cipher(asked)[j]
  BY <1>1, <1>3, <1>4, RowIs
<1> QED
  BY <1>1, <1>2, <1>3, <1>5, TokenSizes

LEMMA DecodeKeeps ==
  ASSUME T!TokenAssumption, TokenInv, T!DecodeCharacter
  PROVE  TokenInv'
<1> DEFINE row == lr[T!Found(T!Token(lr[asked]))]
           h == T!Cipher(asked)
           d == place \div 2
<1>1. /\ station = "decode" /\ place >= 0 /\ place' = place - 1
      /\ UNCHANGED <<station, measurement, returns, lr, asked, digest, answer>>
      /\ TokenTypes /\ Decoding
  BY DEF T!DecodeCharacter, TokenInv
<1>2. place \in Spots
  BY <1>1, TokenSizes DEF Decoding, Spots
<1>3. TokenTypes'
  BY <1>1, SameCipher DEF TokenTypes, ShortNumber, T!Hash, T!Digit, Spots
<1>4. FullRow' <=> FullRow
  <2>1. \A e : T!Found(e)' = T!Found(e)
    BY <1>1, Zenon DEF T!Found, T!Token
  <2>2. T!Short(asked)' = T!Short(asked)
    BY <1>1, Zenon DEF T!Short, T!Cipher, T!XorOf
  <2>3. T!Token(lr[asked])' = T!Token(lr[asked])
    BY <1>1, Zenon DEF T!Token
  <2> QED
    BY <1>1, <2>1, <2>2, <2>3, Zenon DEF FullRow, T!Found, T!Token
<1>5. ASSUME FullRow
      PROVE  /\ place' >= 0 => shift_num' = IF place' % 2 = 0 THEN 1 ELSE 0
             /\ tmp_xor_result' \in [0..(Length \div 2 - 1) -> Nat]
             /\ \A b \in 0..(Length \div 2 - 1) :
                  tmp_xor_result'[b] =
                    IF place' < 2 * b THEN Byte2(h, b)
                    ELSE IF place' = 2 * b THEN h[(2 * b) + 1]
                    ELSE 0
  <2>1. /\ shift_num = IF place % 2 = 0 THEN 1 ELSE 0
        /\ tmp_xor_result \in [0..(Length \div 2 - 1) -> Nat]
        /\ \A b \in 0..(Length \div 2 - 1) :
             tmp_xor_result[b] =
               IF place < 2 * b THEN Byte2(h, b)
               ELSE IF place = 2 * b THEN h[(2 * b) + 1]
               ELSE 0
    BY <1>1, <1>5 DEF Decoding
  <2>2. \A j \in Spots : row[j] = h[j] /\ h[j] \in T!Digit
    BY <1>1, <1>5, FullRowIs
  <2>3. row[place] # NULL
    BY <1>2, <2>2, TokenSizes
  <2>4. /\ tmp_xor_result' =
             [tmp_xor_result EXCEPT ![d] =
                (tmp_xor_result[d] + T!Shifted(h[place])) % (Base * Base)]
        /\ shift_num' = T!ShiftAfter(place)
    BY <1>2, <2>2, <2>3 DEF T!DecodeCharacter
  <2>5. /\ d \in 0..(Length \div 2 - 1) /\ d \in Nat
        /\ place = (2 * d) + (place % 2) /\ place % 2 \in {0, 1}
        /\ (2 * d) + 1 \in Spots /\ 2 * d \in Spots /\ place \in Nat
    BY <1>2, SpotIs, TokenSizes DEF Spots
  <2> HIDE DEF d, h, row
  <2>6. tmp_xor_result'[d] = IF place % 2 = 0 THEN Byte2(h, d) ELSE h[(2 * d) + 1]
    <3> DEFINE u == h[2 * d]
               v == h[(2 * d) + 1]
    <3>1. u \in T!Digit /\ v \in T!Digit /\ u \in Nat /\ v \in Nat
      BY <2>2, <2>5, TokenSizes
    <3>2. tmp_xor_result'[d] = (tmp_xor_result[d] + T!Shifted(h[place])) % (Base * Base)
      BY <2>1, <2>4, <2>5
    <3>3. CASE place % 2 = 0
      <4>1. place = 2 * d /\ shift_num = 1
        BY <2>1, <2>5, <3>3
      <4>2. tmp_xor_result[d] = v /\ T!Shifted(h[place]) = u * Base
        BY <2>1, <2>5, <4>1 DEF T!Shifted
      <4>3. u * Base \in Nat
        BY <3>1, TokenSizes
      <4> HIDE DEF u, v
      <4>4. tmp_xor_result'[d] = ((u * Base) + v) % (Base * Base)
        <5>1. v + (u * Base) = (u * Base) + v
          BY <3>1, <4>3
        <5> QED
          BY <3>2, <4>2, <5>1, Zenon
      <4>5. tmp_xor_result'[d] = (u * Base) + v
        BY <3>1, <4>4, ByteFits
      <4> QED
        BY <3>3, <4>5 DEF Byte2, u, v
    <3>4. CASE place % 2 = 1
      <4>1. place = (2 * d) + 1 /\ shift_num = 0
        BY <2>1, <2>5, <3>4
      <4>2. tmp_xor_result[d] = 0 /\ T!Shifted(h[place]) = v
        BY <2>1, <2>5, <4>1 DEF T!Shifted
      <4> HIDE DEF u, v
      <4>3. tmp_xor_result'[d] = v % (Base * Base)
        <5>1. 0 + v = v
          BY <3>1
        <5> QED
          BY <3>2, <4>2, <5>1, Zenon
      <4>4. tmp_xor_result'[d] = v
        BY <3>1, <4>3, ByteFits
      <4> QED
        BY <3>4, <4>4 DEF v
    <3> QED
      BY <2>5, <3>3, <3>4
  <2>7. \A b \in 0..(Length \div 2 - 1) : b # d => tmp_xor_result'[b] = tmp_xor_result[b]
    BY <2>1, <2>4
  <2>8. ASSUME NEW b \in 0..(Length \div 2 - 1)
        PROVE  tmp_xor_result'[b] =
                 IF place' < 2 * b THEN Byte2(h, b)
                 ELSE IF place' = 2 * b THEN h[(2 * b) + 1]
                 ELSE 0
    <3>0. b \in Nat
      BY TokenSizes
    <3>1. CASE b = d
      <4>1. /\ place % 2 = 0 => place' < 2 * b
            /\ place % 2 = 1 => ~(place' < 2 * b) /\ place' = 2 * b
        BY <1>1, <2>5, <3>1
      <4> QED
        BY <2>5, <2>6, <3>1, <4>1
    <3>2. CASE b # d
      <4>1. /\ place < 2 * b <=> place' < 2 * b
            /\ place # 2 * b /\ place' # 2 * b
        BY <1>1, <2>5, <3>0, <3>2
      <4> QED
        BY <2>1, <2>7, <3>2, <4>1
    <3> QED
      BY <3>1, <3>2
  <2>9. tmp_xor_result' \in [0..(Length \div 2 - 1) -> Nat]
    <3>1. tmp_xor_result'[d] \in Nat
      <4>1. h[2 * d] \in T!Digit /\ h[(2 * d) + 1] \in T!Digit /\ h[(2 * d) + 1] \in Nat
        BY <2>2, <2>5, TokenSizes
      <4>2. Byte2(h, d) \in Nat
        BY <4>1, ByteFits DEF Byte2
      <4> QED
        BY <2>6, <4>1, <4>2
    <3>2. DOMAIN tmp_xor_result' = 0..(Length \div 2 - 1)
          /\ tmp_xor_result' = [b \in 0..(Length \div 2 - 1) |-> tmp_xor_result'[b]]
      BY <2>1, <2>4
    <3>3. \A b \in 0..(Length \div 2 - 1) : tmp_xor_result'[b] \in Nat
      BY <2>1, <2>7, <3>1
    <3> QED
      BY <3>2, <3>3
  <2>10. place' >= 0 => shift_num' = IF place' % 2 = 0 THEN 1 ELSE 0
    <3>1. place' >= 0 => (place' % 2 = 0 <=> place % 2 # 0)
      BY <1>1, <2>5
    <3> QED
      BY <2>4, <3>1 DEF T!ShiftAfter
  <2> QED
    BY <2>8, <2>9, <2>10
<1>6. h' = h
  BY <1>1, Zenon DEF T!Cipher, T!XorOf
<1>7. Decoding'
  <2>1. place' \in Int /\ place' >= -1 /\ place' < Length
    BY <1>1, <1>2, TokenSizes DEF Spots
  <2> HIDE DEF h
  <2>2. \A b : Byte2(h, b)' = Byte2(h, b)
    BY <1>6 DEF Byte2
  <2> QED
    BY <1>4, <1>5, <1>6, <2>1, <2>2 DEF Decoding, h
<1> QED
  BY <1>1, <1>3, <1>7 DEF TokenInv, T!DecodesFullText
\* The digits of an address in its number.
LEMMA LowWordIs ==
  ASSUME T!TokenAssumption, NEW h \in T!Hash
  PROVE  /\ T!LowWord(h) \in T!Hash
         /\ \A j \in Spots : T!LowWord(h)[j] = IF j < Length - WordLength THEN 0 ELSE h[j]
<1>1. T!LowWord(h) = [j \in Spots |-> IF j < Length - WordLength THEN 0 ELSE h[j]]
  BY Zenon DEF T!LowWord, Spots
<1> QED
  BY <1>1, TokenSizes

\* All characters put together are the digits of the cipher.
LEMMA PutTogether ==
  ASSUME T!TokenAssumption, TokenTypes, Decoding, station = "decode", place < 0, FullRow
  PROVE  \A j \in Spots :
           T!DstAddr[j] = IF j < Length - WordLength THEN 0 ELSE T!Cipher(asked)[j]
<1> DEFINE h == T!Cipher(asked)
<1>1. T!DstAddr = [j \in Spots |->
        IF j < Length - WordLength THEN 0
        ELSE IF j % 2 = 0 THEN tmp_xor_result[j \div 2] \div Base
        ELSE tmp_xor_result[j \div 2] % Base]
  BY Zenon DEF T!DstAddr, Spots
<1>2. \A b \in 0..(Length \div 2 - 1) :
        tmp_xor_result[b] = IF place < 2 * b THEN Byte2(h, b)
                            ELSE IF place = 2 * b THEN h[(2 * b) + 1]
                            ELSE 0
  BY DEF Decoding
<1>3. \A j \in Spots : h[j] \in T!Digit
  BY FullRowIs
<1>4. place \in Int
  BY DEF Decoding
<1> HIDE DEF h
<1>5. ASSUME NEW j \in Spots
      PROVE  h[j] = IF j % 2 = 0 THEN tmp_xor_result[j \div 2] \div Base
                    ELSE tmp_xor_result[j \div 2] % Base
  <2> DEFINE d == j \div 2
             u == h[2 * d]
             v == h[(2 * d) + 1]
  <2>1. /\ d \in 0..(Length \div 2 - 1) /\ d \in Nat /\ j = (2 * d) + (j % 2)
        /\ j % 2 \in {0, 1} /\ (2 * d) + 1 \in Spots /\ 2 * d \in Spots
    BY SpotIs
  <2> HIDE DEF d
  <2>2. tmp_xor_result[d] = Byte2(h, d)
    <3>1. place < 2 * d
      BY <1>4, <2>1
    <3> QED
      BY <1>2, <2>1, <3>1
  <2>3. u \in T!Digit /\ v \in T!Digit
    BY <1>3, <2>1
  <2>4. ((u * Base) + v) \div Base = u /\ ((u * Base) + v) % Base = v
    <3> HIDE DEF u, v
    <3> QED
      BY <2>3, ByteFits
  <2>5. tmp_xor_result[d] \div Base = u /\ tmp_xor_result[d] % Base = v
    BY <2>2, <2>4, Zenon DEF Byte2
  <2>6. /\ j % 2 = 0 => h[j] = u
        /\ j % 2 = 1 => h[j] = v
    <3>1. (j % 2 = 0 => j = 2 * d) /\ (j % 2 = 1 => j = (2 * d) + 1)
      BY <2>1
    <3> QED
      BY <3>1
  <2> HIDE DEF u, v
  <2> QED
    BY <2>1, <2>5, <2>6 DEF d
<1> QED
  BY <1>1, <1>5, Zenon DEF h

LEMMA AnswerKeeps ==
  ASSUME T!TokenAssumption, TokenInv, T!Answer
  PROVE  TokenInv'
<1>1. /\ station = "decode" /\ place < 0 /\ station' = "answered"
      /\ answer' = T!XorOf(T!XorOf(T!DstAddr, T!LowWord(Key)), T!LowWord(digest))
      /\ UNCHANGED <<measurement, returns, lr, asked, digest, place, shift_num, tmp_xor_result>>
      /\ TokenTypes /\ Decoding
  BY DEF T!Answer, TokenInv
<1>2. TokenTypes'
  BY <1>1, SameCipher DEF TokenTypes, ShortNumber, T!Hash, T!Digit, Spots
<1>3. asked \in 1..2 /\ digest \in T!Hash /\ measurement \in T!Hash /\ Key \in T!Hash
      /\ returns[asked] \in T!Hash /\ ShortNumber(returns[asked])
  BY <1>1 DEF TokenTypes, T!TokenAssumption
<1>4. ASSUME FullRow
      PROVE  answer' = returns[asked] <=> T!LowWord(digest) = T!LowWord(measurement)
  <2> DEFINE r == returns[asked]
             m == measurement
             Low(j) == ~(j < Length - WordLength)
             e == T!LowWord(Key)
             g == T!LowWord(digest)
  <2>1. r \in T!Hash /\ m \in T!Hash /\ e \in T!Hash /\ g \in T!Hash /\ digest \in T!Hash
    BY <1>3, LowWordIs
  <2>2. \A j \in Spots : Low(j) => T!DstAddr[j] = T!Cipher(asked)[j]
                                   /\ e[j] = Key[j] /\ g[j] = digest[j]
    BY <1>1, <1>3, <1>4, PutTogether, LowWordIs
  <2>3. \A j \in Spots : ~Low(j) => T!DstAddr[j] = 0 /\ e[j] = 0 /\ g[j] = 0
    BY <1>1, <1>3, <1>4, PutTogether, LowWordIs
  <2>4. answer' = [j \in Spots |-> BitXor(BitXor(T!DstAddr[j], e[j]), g[j])]
    <3>1. \A a, b : T!XorOf(a, b) = [j \in Spots |-> BitXor(a[j], b[j])]
      BY Zenon DEF T!XorOf, Spots
    <3> HIDE DEF e, g
    <3>2. answer' = T!XorOf(T!XorOf(T!DstAddr, e), g)
      BY <1>1 DEF e, g
    <3> QED
      BY <3>1, <3>2
  <2>5. \A j \in Spots : T!Cipher(asked)[j] = BitXor(BitXor(m[j], r[j]), Key[j])
    BY <1>3, CipherIs
  <2>6. \A j \in Spots : /\ m[j] \in T!Digit /\ r[j] \in T!Digit /\ Key[j] \in T!Digit
                         /\ digest[j] \in T!Digit
    BY <1>3, <2>1, TokenSizes
  <2> HIDE DEF r, m, e, g
  <2>7. ASSUME NEW j \in Spots
        PROVE  IF Low(j) THEN answer'[j] = r[j] <=> m[j] = digest[j]
               ELSE answer'[j] = r[j]
    <3>1. answer'[j] = BitXor(BitXor(T!DstAddr[j], e[j]), g[j])
      BY <2>4
    <3>2. CASE Low(j)
      <4>1. answer'[j] = BitXor(BitXor(BitXor(BitXor(m[j], r[j]), Key[j]), Key[j]), digest[j])
        BY <2>2, <2>5, <3>1, <3>2, Zenon
      <4>2. BitXor(m[j], r[j]) \in T!Digit
        BY <2>6, XorLaws
      <4>3. BitXor(BitXor(BitXor(m[j], r[j]), Key[j]), Key[j]) = BitXor(m[j], r[j])
        BY <2>6, <4>2, XorLaws
      <4>4. answer'[j] = BitXor(BitXor(m[j], r[j]), digest[j])
        BY <4>1, <4>3, Zenon
      <4>5. answer'[j] = r[j] <=> m[j] = digest[j]
        BY <2>6, <4>4, XorCancels
      <4> QED
        BY <3>2, <4>5
    <3>3. CASE ~Low(j)
      <4>1. r[j] = 0
        <5>1. j \in 0..(Length - WordLength - 1)
          BY <3>3, TokenSizes DEF Spots
        <5> QED
          BY <1>3, <5>1 DEF ShortNumber, r
      <4>2. BitXor(BitXor(0, 0), 0) = 0
        BY TokenSizes, XorLaws
      <4>3. answer'[j] = 0
        BY <2>3, <3>1, <3>3, <4>2, Zenon
      <4> QED
        BY <3>3, <4>1, <4>3
    <3> QED
      BY <3>2, <3>3
  <2>8. answer' = r <=> \A j \in Spots : answer'[j] = r[j]
    <3>1. r = [j \in Spots |-> r[j]] /\ answer' = [j \in Spots |-> answer'[j]]
      BY <2>1, <2>4, TokenSizes
    <3> QED
      BY <3>1
  <2>9. g = T!LowWord(m) <=> \A j \in Spots : Low(j) => m[j] = digest[j]
    <3>1. /\ g \in [Spots -> T!Digit] /\ T!LowWord(m) \in [Spots -> T!Digit]
          /\ \A j \in Spots : T!LowWord(m)[j] = IF j < Length - WordLength THEN 0 ELSE m[j]
      BY <2>1, LowWordIs, TokenSizes
    <3>2. g = T!LowWord(m) <=> \A j \in Spots : g[j] = T!LowWord(m)[j]
      BY <3>1
    <3> QED
      BY <2>2, <2>3, <3>1, <3>2
  <2>10. answer' = r <=> g = T!LowWord(m)
    <3> HIDE DEF Low
    <3> QED
      BY <2>7, <2>8, <2>9
  <2> QED
    BY <2>10 DEF r, g, m
<1>5. T!DecodesFullText'
  <2>1. FullRow' <=> FullRow
    <3>1. T!Short(asked)' = T!Short(asked)
      BY <1>1, Zenon DEF T!Short, T!Cipher, T!XorOf
    <3> QED
      BY <1>1, <3>1, Zenon DEF FullRow, T!Found, T!Token
  <2>2. T!LowWord(digest)' = T!LowWord(digest) /\ T!LowWord(measurement)' = T!LowWord(measurement)
    BY <1>1, Zenon DEF T!LowWord
  <2>3. returns[asked]' = returns[asked]
    BY <1>1
  <2> QED
    BY <1>4, <2>1, <2>2, <2>3 DEF T!DecodesFullText, FullRow
<1> QED
  BY <1>1, <1>2, <1>5 DEF TokenInv, Decoding

LEMMA TokenStutters ==
  ASSUME TokenInv, UNCHANGED token
  PROVE  TokenInv'
<1>1. UNCHANGED <<station, measurement, returns, lr, asked, digest, place, shift_num,
                  tmp_xor_result, answer>>
  BY DEF token
<1>2. TokenTypes'
  BY <1>1, SameCipher DEF TokenInv, TokenTypes, ShortNumber, T!Hash, T!Digit, Spots
<1>3. FullRow' <=> FullRow
  <2>1. T!Short(asked)' = T!Short(asked)
    BY <1>1, Zenon DEF T!Short, T!Cipher, T!XorOf
  <2> QED
    BY <1>1, <2>1, Zenon DEF FullRow, T!Found, T!Token
<1>4. T!Cipher(asked)' = T!Cipher(asked)
  BY <1>1, Zenon DEF T!Cipher, T!XorOf
<1>5. Decoding'
  BY <1>1, <1>3, <1>4 DEF TokenInv, Decoding, Byte2
<1>6. T!DecodesFullText'
  <2>1. T!LowWord(digest)' = T!LowWord(digest) /\ T!LowWord(measurement)' = T!LowWord(measurement)
    BY <1>1, Zenon DEF T!LowWord
  <2> QED
    BY <1>1, <1>3, <2>1, Zenon DEF TokenInv, T!DecodesFullText, FullRow
<1> QED
  BY <1>2, <1>5, <1>6 DEF TokenInv

LEMMA TokenInvariant ==
  Spec => [](program = "TokenText" => TokenInv)
<1> DEFINE Inv == program = "TokenText" => TokenInv
<1>0. T!TokenAssumption
  BY AlgorithmsAssumption
<1>1. Init => Inv
  BY <1>0, TokenInit DEF Init
<1>2. Inv /\ [Next]_vars => Inv'
  <2> SUFFICES ASSUME Inv, [Next]_vars, program' = "TokenText"
               PROVE  TokenInv'
    OBVIOUS
  <2>1. program = "TokenText" /\ (T!Next \/ UNCHANGED token)
    BY DEF Next, vars, token
  <2>2. TokenInv
    BY <2>1
  <2>3. CASE T!WriteRow
    BY <1>0, <2>2, <2>3, WriteRowKeeps
  <2>4. CASE T!Request
    BY <1>0, <2>2, <2>4, RequestKeeps
  <2>5. CASE T!DecodeCharacter
    BY <1>0, <2>2, <2>5, DecodeKeeps
  <2>6. CASE T!Answer
    BY <1>0, <2>2, <2>6, AnswerKeeps
  <2>7. CASE UNCHANGED token
    BY <2>2, <2>7, TokenStutters
  <2> QED
    BY <2>1, <2>3, <2>4, <2>5, <2>6, <2>7 DEF T!Next
<1> QED
  BY <1>1, <1>2, PTL DEF Spec

\* Two calls to one function have the same token exactly if their return
\* addresses agree in the digits that leading zeros leave, for hashes, tokens
\* and addresses of any length.
THEOREM TokensApart == Spec => []TokensTellCallsApart
<1>1. T!TokenAssumption
  BY AlgorithmsAssumption
<1>2. (program = "TokenText" => TokenInv) => TokensTellCallsApart
  BY <1>1, ApartByReturns DEF TokenInv, TokensTellCallsApart
<1> QED
  BY <1>2, TokenInvariant, PTL

\* A token with all its digits decodes to the return address of its call if the
\* exit measured is that of the table, and to another if it is not.
THEOREM FullTextDecodes == Spec => []DecodesFullText
<1>1. (program = "TokenText" => TokenInv) => DecodesFullText
  BY DEF TokenInv, DecodesFullText
<1> QED
  BY <1>1, TokenInvariant, PTL

-----------------------------------------------------------------------------
(* The assembly of the hooks.                                              *)

\* The members of a list below a register: its place is their number.
Under(L, x) == {q \in L : q < x}

\* HookRegisters counts with a Cardinality of its own, which is that of FiniteSets.
LEMMA SameCardinality ==
  ASSUME NEW X
  PROVE  A!Cardinality(X) = Cardinality(X)
  BY Zenon DEF A!Cardinality, Cardinality, A!IsFiniteSet, IsFiniteSet

\* The member at a place, by the number of members below it.
LEMMA OperandIs ==
  ASSUME NEW L, NEW j, j # Cardinality(L)
  PROVE  A!Operand(L, j) = CHOOSE x \in L : Cardinality(Under(L, x)) = j
<1>1. \A x \in L : (Cardinality(Under(L, x)) = j) <=> (A!Cardinality({q \in L : q < x}) = j)
  BY SameCardinality, Zenon DEF Under
<1> QED
  BY <1>1, SameCardinality, Zenon DEF A!Operand

\* The members of a list have different places, and there is one at each.
LEMMA Places ==
  ASSUME NEW L \in SUBSET Nat, IsFiniteSet(L), NEW j \in 0..(Cardinality(L) - 1)
  PROVE  /\ A!Operand(L, j) \in L
         /\ Cardinality(Under(L, A!Operand(L, j))) = j
<1> DEFINE n == Cardinality(L)
           place_ == [x \in L |-> Cardinality(Under(L, x))]
<1>1. n \in Nat
  BY FS_CardinalityType
<1>2. \A x \in L : IsFiniteSet(Under(L, x)) /\ Cardinality(Under(L, x)) \in 0..(n - 1)
  <2> TAKE x \in L
  <2>1. Under(L, x) \in SUBSET L /\ x \notin Under(L, x)
    BY DEF Under
  <2>2. /\ IsFiniteSet(Under(L, x))
        /\ Cardinality(Under(L, x)) <= n
        /\ n = Cardinality(Under(L, x)) => L = Under(L, x)
    BY <2>1, FS_Subset
  <2>3. Cardinality(Under(L, x)) \in Nat
    BY <2>2, FS_CardinalityType
  <2> QED
    BY <1>1, <2>1, <2>2, <2>3
<1>3. \A x, y \in L : x < y => Cardinality(Under(L, x)) # Cardinality(Under(L, y))
  <2> TAKE x, y \in L
  <2> HAVE x < y
  <2>0. x \in Nat /\ y \in Nat /\ \A q \in L : q \in Nat
    OBVIOUS
  <2>1. Under(L, x) \in SUBSET Under(L, y) /\ x \in Under(L, y) /\ x \notin Under(L, x)
    <3>1. \A q \in L : q < x => q < y
      BY <2>0
    <3>2. ~(x < x)
      BY <2>0
    <3> QED
      BY <3>1, <3>2, Zenon DEF Under
  <2> QED
    BY <1>2, <2>1, FS_Subset
<1>4. place_ \in Injection(L, 0..(n - 1))
  <2>1. place_ \in [L -> 0..(n - 1)]
    BY <1>2
  <2>2. \A x, y \in L : place_[x] = place_[y] => x = y
    <3> TAKE x, y \in L
    <3>1. x \in Nat /\ y \in Nat
      OBVIOUS
    <3>2. x < y \/ y < x \/ x = y
      BY <3>1
    <3> QED
      BY <1>3, <3>2
  <2> QED
    BY <2>1, <2>2 DEF Injection, IsInjective
<1>5. IsFiniteSet(0..(n - 1)) /\ Cardinality(0..(n - 1)) = n
  BY <1>1, FS_Interval
<1>6. place_ \in Surjection(L, 0..(n - 1))
  BY <1>4, <1>5, FS_Injection
<1>7. \E x \in L : Cardinality(Under(L, x)) = j
  BY <1>6 DEF Surjection
<1>8. A!Operand(L, j) = CHOOSE x \in L : Cardinality(Under(L, x)) = j
  BY <1>1, OperandIs
<1> QED
  BY <1>7, <1>8, Zenon

\* Between two members as far apart as their places everything is a member.
LEMMA Stretch ==
  ASSUME NEW L \in SUBSET Nat, IsFiniteSet(L), NEW k \in 0..(Cardinality(L) - 1),
         NEW a \in Nat, A!Operand(L, 0) = a, A!Operand(L, k) = a + k
  PROVE  a..(a + k) \subseteq L /\ \A q \in L : q >= a
<1>0. \A q \in L : q \in Nat
  OBVIOUS
<1>1. Cardinality(L) \in Nat
  BY FS_CardinalityType
<1>2. /\ a \in L /\ Cardinality(Under(L, a)) = 0
      /\ a + k \in L /\ Cardinality(Under(L, a + k)) = k
  BY <1>1, Places
<1>3. /\ Under(L, a) \in SUBSET L /\ Under(L, a + k) \in SUBSET L
  BY DEF Under
<1>4. Under(L, a) = {}
  BY <1>2, <1>3, FS_Subset, FS_EmptySet
<1>5. \A q \in L : q >= a
  BY <1>0, <1>4 DEF Under
<1>6. Under(L, a + k) \in SUBSET (a..(a + k - 1))
  <2>1. \A q \in Under(L, a + k) : q \in Nat /\ q >= a /\ q < a + k
    BY <1>0, <1>5 DEF Under
  <2>2. a \in Nat /\ k \in Nat
    BY <1>1
  <2> QED
    BY <2>1, <2>2
<1>7. IsFiniteSet(a..(a + k - 1)) /\ Cardinality(a..(a + k - 1)) = k
  <2>1. a \in Int /\ a + k - 1 \in Int /\ k \in Nat
    BY <1>1
  <2>2. (a + k - 1) - a + 1 = k /\ (a > a + k - 1 <=> k = 0)
    BY <2>1
  <2> QED
    BY <2>1, <2>2, FS_Interval
<1>8. Under(L, a + k) = a..(a + k - 1)
  BY <1>2, <1>6, <1>7, FS_Subset
<1>9. a..(a + k) = Under(L, a + k) \union {a + k}
  BY <1>8
<1> QED
  BY <1>2, <1>3, <1>5, <1>9

\* The member at the last place is the greatest.
LEMMA LastPlace ==
  ASSUME NEW L \in SUBSET Nat, IsFiniteSet(L), NEW k \in Nat, Cardinality(L) = k + 1
  PROVE  L = Under(L, A!Operand(L, k)) \union {A!Operand(L, k)}
<1> DEFINE z == A!Operand(L, k)
           U == Under(L, z)
<1>1. z \in L /\ Cardinality(U) = k
  BY Places
<1> HIDE DEF z
<1>2. U \in SUBSET L /\ z \notin U
  <2>1. z \in Nat
    BY <1>1
  <2> QED
    BY <2>1 DEF Under
<1>3. IsFiniteSet(U)
  BY <1>2, FS_Subset
<1> HIDE DEF U
<1>4. Cardinality(U \union {z}) = k + 1
  BY <1>1, <1>2, <1>3, FS_AddElement
<1>5. U \union {z} \in SUBSET L
  BY <1>1, <1>2
<1>6. L = U \union {z}
  BY <1>4, <1>5, FS_Subset
<1> QED
  BY <1>6 DEF U, z

\* A list from a to its last member, by the first and the last of them.
LEMMA AllInOrder ==
  ASSUME NEW L \in SUBSET Nat, IsFiniteSet(L), NEW k \in Nat, Cardinality(L) = k + 1,
         NEW a \in Nat, A!Operand(L, 0) = a, A!Operand(L, k) = a + k
  PROVE  L = a..(a + k)
<1>1. a..(a + k) \subseteq L /\ \A q \in L : q >= a
  BY Stretch
<1>0. \A q \in L : q \in Nat
  OBVIOUS
<1>2. \A q \in L : q <= a + k
  <2>1. \A q \in L : q \in Nat
    OBVIOUS
  <2>2. L = Under(L, a + k) \union {a + k}
    BY LastPlace
  <2> QED
    BY <2>1, <2>2 DEF Under
<1>3. \A q \in L : q \in a..(a + k)
  BY <1>0, <1>1, <1>2
<1> QED
  BY <1>1, <1>3, Zenon

\* The same with one more member behind them.
LEMMA AllButLast ==
  ASSUME NEW L \in SUBSET Nat, IsFiniteSet(L), NEW k \in Nat, Cardinality(L) = k + 2,
         NEW a \in Nat, A!Operand(L, 0) = a, A!Operand(L, k) = a + k
  PROVE  L = a..(a + k) \union {A!Operand(L, k + 1)}
<1> DEFINE z == A!Operand(L, k + 1)
           U == Under(L, z)
<1>1. a..(a + k) \subseteq L
  BY Stretch
<1>2. L = U \union {z}
  <2>1. k + 1 \in Nat /\ Cardinality(L) = (k + 1) + 1
    OBVIOUS
  <2> QED
    BY <2>1, LastPlace
<1>3. z \in L /\ Cardinality(U) = k + 1 /\ Cardinality(Under(L, a + k)) = k /\ z \in Nat
  <2>1. k \in 0..(Cardinality(L) - 1) /\ k + 1 \in 0..(Cardinality(L) - 1)
    OBVIOUS
  <2>2. z \in L /\ Cardinality(U) = k + 1 /\ Cardinality(Under(L, a + k)) = k
    BY <2>1, Places
  <2> QED
    BY <2>2
<1> HIDE DEF z
<1>0. \A q \in L : q \in Nat
  OBVIOUS
<1>4. a + k < z
  <2>1. SUFFICES ASSUME z <= a + k PROVE FALSE
    BY <1>3
  <2>2. U \in SUBSET Under(L, a + k) /\ Under(L, a + k) \in SUBSET L
    <3>1. \A q \in L : q < z => q < a + k
      BY <1>0, <1>3, <2>1
    <3> QED
      BY <3>1, Zenon DEF Under
  <2>3. IsFiniteSet(Under(L, a + k))
    BY <2>2, FS_Subset
  <2> QED
    BY <1>3, <2>2, <2>3, FS_Subset
<1>5. a..(a + k) \in SUBSET U /\ U \in SUBSET L
  BY <1>1, <1>3, <1>4 DEF Under
<1>6. Cardinality(a..(a + k)) = k + 1
  BY FS_Interval
<1>7. a..(a + k) = U
  BY <1>3, <1>5, <1>6, FS_Subset
<1> QED
  BY <1>2, <1>7 DEF z
-----------------------------------------------------------------------------
\* rewrite_pop_fp_pc looks at a few places and knows the whole list.
LEMMA Classified ==
  ASSUME NEW L \in SUBSET (0..12), type = A!PopType(L), type # 200
  PROVE  type \in 0..17 /\ 12 \notin L /\ A!ListPop = L \union {12}
<1> DEFINE n == Cardinality(L)
           o(j) == A!Operand(L, j)
<1>1. L \in SUBSET Nat /\ IsFiniteSet(L) /\ n \in Nat
  <2>1. IsFiniteSet(0..12)
    <3>1. 0 \in Int /\ 12 \in Int
      OBVIOUS
    <3> QED
      BY <3>1, FS_Interval
  <2>2. IsFiniteSet(L)
    BY <2>1, FS_Subset
  <2>3. Cardinality(L) \in Nat
    BY <2>2, FS_CardinalityType
  <2>4. L \in SUBSET Nat
    OBVIOUS
  <2> QED
    BY <2>2, <2>3, <2>4
<1>2. \/ n = 1 /\ o(0) = 11 /\ type = 0
      \/ \E k \in 1..7 : n = k + 1 /\ o(0) = 4 /\ o(k - 1) = k + 3 /\ o(k) = 11 /\ type = k
      \/ n = 9 /\ o(0) = 3 /\ o(7) = 10 /\ o(8) = 11 /\ type = 8
      \/ \E k \in 1..7 : n = k /\ o(0) = 4 /\ o(k - 1) = k + 3 /\ type = k + 8
      \/ n = 8 /\ o(0) = 3 /\ o(7) = 10 /\ type = 16
      \/ n = 0 /\ type = 17
  <2>1. A!Cardinality(L) = n
    BY SameCardinality
  <2> HIDE DEF n
  <2>2. CASE n + 1 = 2 /\ o(0) = 11 /\ type = 0
    BY <1>1, <2>2
  <2>3. CASE n + 1 \in 3..9 /\ o(0) = 4 /\ o((n + 1 - 2) - 1) = (n + 1 - 2) + 3
             /\ o(n + 1 - 2) = 11 /\ type = n + 1 - 2
    <3> DEFINE k == n - 1
    <3>1. k \in 1..7 /\ n = k + 1 /\ (n + 1 - 2) - 1 = k - 1 /\ n + 1 - 2 = k
      BY <1>1, <2>3
    <3> QED
      BY <2>3, <3>1
  <2>4. CASE n + 1 = 10 /\ o(0) = 3 /\ o(7) = 10 /\ o(8) = 11 /\ type = 8
    BY <1>1, <2>4
  <2>5. CASE n + 1 \in 2..8 /\ o(0) = 4 /\ o((n + 1 - 1) - 1) = (n + 1 - 1) + 3
             /\ type = n + 1 + 7
    <3>1. n \in 1..7 /\ n + 1 - 1 = n /\ n + 1 + 7 = n + 8
      BY <1>1, <2>5
    <3> QED
      BY <2>5, <3>1
  <2>6. CASE n + 1 = 9 /\ o(0) = 3 /\ o(7) = 10 /\ type = 16
    BY <1>1, <2>6
  <2>7. CASE n + 1 = 1 /\ type = 17
    BY <1>1, <2>7
  <2>8. \/ n + 1 = 2 /\ o(0) = 11 /\ type = 0
        \/ n + 1 \in 3..9 /\ o(0) = 4 /\ o((n + 1 - 2) - 1) = (n + 1 - 2) + 3
           /\ o(n + 1 - 2) = 11 /\ type = n + 1 - 2
        \/ n + 1 = 10 /\ o(0) = 3 /\ o(7) = 10 /\ o(8) = 11 /\ type = 8
        \/ n + 1 \in 2..8 /\ o(0) = 4 /\ o((n + 1 - 1) - 1) = (n + 1 - 1) + 3
           /\ type = n + 1 + 7
        \/ n + 1 = 9 /\ o(0) = 3 /\ o(7) = 10 /\ type = 16
        \/ n + 1 = 1 /\ type = 17
    <3> HIDE DEF o
    <3>1. \A j : A!Operand(L, j) = o(j)
      BY DEF o
    <3> QED
      BY <1>1, <2>1, <3>1 DEF A!PopType, A!FP
  <2> QED
    BY <2>2, <2>3, <2>4, <2>5, <2>6, <2>7, <2>8
<1>3. CASE n = 1 /\ o(0) = 11 /\ type = 0
  <2>1. L = 11..(11 + 0)
    BY <1>1, <1>3, AllInOrder
  <2>2. A!ListPop = 4..(0 + 3) \union {11, 12}
    BY <1>3 DEF A!ListPop, A!FP, A!IP
  <2> QED
    BY <1>3, <2>1, <2>2
<1>4. ASSUME NEW k \in 1..7,
             n = k + 1, o(0) = 4, o(k - 1) = k + 3, o(k) = 11, type = k
      PROVE  type \in 0..17 /\ 12 \notin L /\ A!ListPop = L \union {12}
  <2>1. /\ k - 1 \in Nat /\ n = (k - 1) + 2 /\ 4 + (k - 1) = k + 3 /\ (k - 1) + 1 = k
        /\ 4 \in Nat
    BY <1>4
  <2>2. L = 4..(4 + (k - 1)) \union {o((k - 1) + 1)}
    BY <1>1, <1>4, <2>1, AllButLast
  <2>3. A!ListPop = 4..(k + 3) \union {11, 12}
    BY <1>4 DEF A!ListPop, A!FP, A!IP
  <2> QED
    BY <1>4, <2>1, <2>2, <2>3
<1>5. CASE n = 9 /\ o(0) = 3 /\ o(7) = 10 /\ o(8) = 11 /\ type = 8
  <2>1. L = 3..(3 + 7) \union {o(7 + 1)}
    BY <1>1, <1>5, AllButLast
  <2>2. A!ListPop = 3..12
    BY <1>5 DEF A!ListPop, A!FP, A!IP
  <2> QED
    BY <1>5, <2>1, <2>2
<1>6. ASSUME NEW k \in 1..7, n = k, o(0) = 4, o(k - 1) = k + 3, type = k + 8
      PROVE  type \in 0..17 /\ 12 \notin L /\ A!ListPop = L \union {12}
  <2>1. k - 1 \in Nat /\ n = (k - 1) + 1 /\ 4 + (k - 1) = k + 3 /\ 4 \in Nat
    BY <1>6
  <2>2. L = 4..(4 + (k - 1))
    BY <1>1, <1>6, <2>1, AllInOrder
  <2>3. A!ListPop = 4..((k + 8) - 5) \union {12}
    BY <1>6 DEF A!ListPop, A!FP, A!IP
  <2> QED
    BY <1>6, <2>1, <2>2, <2>3
<1>7. CASE n = 8 /\ o(0) = 3 /\ o(7) = 10 /\ type = 16
  <2>1. L = 3..(3 + 7)
    BY <1>1, <1>7, AllInOrder
  <2>2. A!ListPop = 3..10 \union {12}
    BY <1>7 DEF A!ListPop, A!FP, A!IP
  <2> QED
    BY <1>7, <2>1, <2>2
<1>8. CASE n = 0 /\ type = 17
  <2>1. L = {}
    BY <1>1, <1>8, FS_EmptySet
  <2>2. A!ListPop = {12}
    BY <1>8 DEF A!ListPop, A!FP, A!IP
  <2> QED
    BY <1>8, <2>1, <2>2
<1> QED
  BY <1>2, <1>3, <1>4, <1>5, <1>6, <1>7, <1>8
-----------------------------------------------------------------------------
\* What EnterHook leaves: the copies, the frame on the stack, and in the
\* registers what a C function keeps.
InHook ==
  /\ saved = A!Before
  /\ stack = <<11, -3>> \o A!StackBefore
  /\ regs = [r \in A!Registers |->
               CASE r \in {0, 1, 2, 3, 12, 14} -> -1
                 [] r = 11 -> -2
                 [] OTHER -> r]

HookInv ==
  /\ instr \in A!Pops \union A!Blxs \union A!Others
  /\ type = A!TypeOf(instr)
  /\ phase \in {"program", "hook", "left", "fell"}
  /\ phase = "program" => regs = A!Before /\ stack = A!StackBefore
  /\ phase = "hook" => InHook
  /\ A!SameControl /\ A!ExitRegisters /\ A!CallRegisters /\ A!FellPast

LEMMA Kinds ==
  ASSUME A!RegisterAssumption, HookInv
  PROVE  /\ instr.kind \in {"pop", "blx", "bl", "bx_lr"}
         /\ instr.kind = "pop" =>
              instr.list \in SUBSET (0..12) /\ type = A!PopType(instr.list)
         /\ instr.kind = "blx" =>
              instr.reg \in (0..12) \union {14} /\ type = A!BlxType(instr.reg)
  BY DEF HookInv, A!Pops, A!Blxs, A!Others, A!TypeOf, A!RegisterAssumption, A!Registers,
         A!IP, A!LR

\* The hook's frame on the stack, and the stack without it.
LEMMA Frame ==
  ASSUME A!RegisterAssumption, InHook
  PROVE  /\ stack[1] = 11 /\ stack[2] = -3
         /\ \A X : A!Cardinality(X) = 2 => A!Drop(X, stack) = A!StackBefore
<1> DEFINE before == A!StackBefore
           frame == <<11, -3>>
<1>1. before \in Seq(Int) /\ frame \in Seq(Int) /\ Len(before) = Depth /\ Depth \in Nat
  BY DEF A!StackBefore, A!Word, A!RegisterAssumption
<1>2. Len(frame) = 2 /\ frame[1] = 11 /\ frame[2] = -3
  OBVIOUS
<1>3. stack = frame \o before
  BY DEF InHook
<1> HIDE DEF frame, before
<1>4. /\ Len(stack) = Depth + 2 /\ stack[1] = 11 /\ stack[2] = -3 /\ stack \in Seq(Int)
      /\ \A x \in 1..Depth : stack[x + 2] = before[x]
  <2>0. /\ frame \o before \in Seq(Int)
        /\ Len(frame \o before) = Len(frame) + Len(before)
        /\ \A x \in 1..Len(frame) + Len(before) :
             (frame \o before)[x] = IF x <= Len(frame) THEN frame[x] ELSE before[x - Len(frame)]
    BY <1>1, ConcatProperties, Zenon
  <2>1. stack \in Seq(Int) /\ Len(stack) = Depth + 2
    BY <1>1, <1>2, <1>3, <2>0
  <2>2. \A x \in 1..(Depth + 2) : stack[x] = IF x <= 2 THEN frame[x] ELSE before[x - 2]
    BY <1>1, <1>2, <1>3, <2>0
  <2>3. \A x \in 1..Depth : stack[x + 2] = before[x]
    <3> TAKE x \in 1..Depth
    <3>1. x + 2 \in 1..(Depth + 2) /\ ~(x + 2 <= 2) /\ (x + 2) - 2 = x
      BY <1>1
    <3> QED
      BY <2>2, <3>1
  <2>4. 1 \in 1..(Depth + 2) /\ 2 \in 1..(Depth + 2)
    BY <1>1
  <2> QED
    BY <1>2, <2>1, <2>2, <2>3, <2>4
<1>5. SubSeq(stack, 3, Len(stack)) = before
  BY <1>1, <1>4
<1>6. \A X : A!Cardinality(X) = 2 => A!Drop(X, stack) = SubSeq(stack, 3, Len(stack))
  BY DEF A!Drop
<1> QED
  BY <1>4, <1>5, <1>6 DEF before

\* The two words of the frame are popped into two registers; where fp is the
\* first of them it gets its own.
LEMMA Pairs ==
  /\ A!Cardinality({1, 2}) = 2 /\ A!Cardinality({2, 3}) = 2 /\ A!Cardinality({11, 12}) = 2
  /\ A!Cardinality({p \in {11} : p < 11}) = 0
  /\ A!Cardinality({p \in {11, 12} : p < 11}) = 0
<1>1. \A x, y : x # y => Cardinality({x, y}) = 2
  <2> TAKE x, y
  <2> HAVE x # y
  <2>1. IsFiniteSet({x}) /\ Cardinality({x}) = 1 /\ y \notin {x} /\ {x, y} = {x} \union {y}
    BY FS_Singleton
  <2> QED
    BY <2>1, FS_AddElement
<1>2. {p \in {11} : p < 11} = {} /\ {p \in {11, 12} : p < 11} = {}
  OBVIOUS
<1>3. Cardinality({}) = 0
  BY FS_EmptySet
<1>4. \A X : A!Cardinality(X) = Cardinality(X)
  BY SameCardinality
<1>5. /\ Cardinality({1, 2}) = 2 /\ Cardinality({2, 3}) = 2 /\ Cardinality({11, 12}) = 2
  <2>1. 1 # 2 /\ 2 # 3 /\ 11 # 12
    OBVIOUS
  <2> QED
    BY <1>1, <2>1, Zenon
<1> QED
  BY <1>2, <1>3, <1>4, <1>5, Zenon

LEMMA FrameRegisters ==
  ASSUME A!RegisterAssumption, InHook, NEW r, NEW q \in A!Registers
  PROVE  /\ A!PopRegs({11}, r, stack)[q] = IF q = 11 THEN 11 ELSE r[q]
         /\ q # 12 => A!PopRegs({11, 12}, r, stack)[q] = IF q = 11 THEN 11 ELSE r[q]
<1>1. stack[1] = 11
  BY Frame
<1> QED
  BY <1>1, Pairs DEF A!PopRegs

LEMMA EnterHookKeeps ==
  ASSUME A!RegisterAssumption, HookInv, A!EnterHook
  PROVE  HookInv'
<1>1. InHook'
  BY DEF HookInv, A!EnterHook, InHook, A!Before, A!Registers, A!FP, A!IP, A!LR, A!Junk,
         A!HookFrame, A!AfterBl
<1>2. phase' = "hook" /\ instr' = instr /\ type' = type
  BY DEF A!EnterHook
<1>3. A!TypeOf(instr)' = A!TypeOf(instr)
  BY <1>2
<1> QED
  BY <1>1, <1>2, <1>3 DEF HookInv, A!SameControl, A!ExitRegisters, A!CallRegisters,
     A!FellPast, A!Left

LEMMA LeaveBlKeeps ==
  ASSUME A!RegisterAssumption, HookInv, A!LeaveBl
  PROVE  HookInv'
<1> DEFINE r == [q \in A!Registers |->
                   CASE q \in 0..3 -> saved[q]
                     [] q = 14 -> -6
                     [] q = 12 -> -4
                     [] OTHER -> regs[q]]
<1>1. InHook /\ phase = "hook" /\ instr.kind = "bl"
  BY DEF HookInv, A!LeaveBl
<1>2. /\ regs' = A!PopRegs({11}, r, stack) /\ stack' = A!Drop({11, 12}, stack)
      /\ pc' = A!PopRegs({11}, r, stack)[12]
      /\ phase' = "left" /\ UNCHANGED <<instr, type, saved>>
  BY DEF A!LeaveBl, A!Leave, A!FP, A!IP, A!LR, A!Token, A!Callee
<1> HIDE DEF r
<1>3. \A q \in A!Registers : regs'[q] = IF q = 11 THEN 11 ELSE r[q]
  BY <1>1, <1>2, FrameRegisters
<1>4. stack' = A!StackBefore
  BY <1>1, <1>2, Frame, Pairs
<1>5. /\ \A q \in 0..11 : regs'[q] = q
      /\ regs'[14] = -6 /\ pc' = -4
  BY <1>1, <1>2, <1>3 DEF r, InHook, A!Registers, A!Before, A!IP, A!LR
<1>6. A!SameControl'
  BY <1>1, <1>2, <1>4, <1>5 DEF A!SameControl, A!NativeTarget, A!NativeStack, A!Callee,
     A!StackBefore
<1>7. A!CallRegisters'
  BY <1>1, <1>2, <1>5 DEF A!CallRegisters, A!Left, A!FP, A!LR, A!Token, A!Before,
     A!Registers, A!IP
<1>8. A!ExitRegisters' /\ A!FellPast'
  BY <1>1, <1>2 DEF A!ExitRegisters, A!FellPast, A!Left
<1> QED
  BY <1>2, <1>6, <1>7, <1>8 DEF HookInv, A!TypeOf

\* By type the branch goes through the register hookit found in the blx, and
\* that register has its own value again.
LEMMA LeaveBlxKeeps ==
  ASSUME A!RegisterAssumption, HookInv, A!LeaveBlx
  PROVE  HookInv'
<1> DEFINE r == [q \in A!Registers |->
                   CASE q \in 0..2 -> saved[q]
                     [] q = 3 -> IF type = 10 THEN saved[12] ELSE saved[3]
                     [] q = 14 -> -3
                     [] OTHER -> regs[q]]
           popped == A!PopRegs({11, 12}, r, stack)
           last == IF type = 10 THEN [popped EXCEPT ![12] = popped[3]] ELSE popped
<1>1. InHook /\ phase = "hook" /\ instr.kind = "blx" /\ type \in 0..10
  BY DEF HookInv, A!LeaveBlx
<1>2. /\ regs' = last /\ stack' = A!Drop({11, 12}, stack)
      /\ pc' = last[A!BlxThrough]
      /\ phase' = "left" /\ UNCHANGED <<instr, type, saved>>
  BY DEF A!LeaveBlx, A!Leave, A!FP, A!IP, A!LR, A!Scratch, A!AfterBl
<1>3. instr.reg \in (0..12) \union {14} /\ type = A!BlxType(instr.reg)
  BY <1>1, Kinds
<1>4. A!BlxThrough = instr.reg /\ (type = 10 <=> instr.reg = 12) /\ instr.reg \in 2..12
  BY <1>1, <1>3 DEF A!BlxThrough, A!BlxType, A!FP, A!IP
<1> HIDE DEF r
<1>5. \A q \in A!Registers : q # 12 => popped[q] = IF q = 11 THEN 11 ELSE r[q]
  BY <1>1, FrameRegisters
<1>6. /\ \A q \in (0..2) \union (4..11) : popped[q] = q
      /\ popped[14] = -3 /\ popped[3] = IF type = 10 THEN 12 ELSE 3
  BY <1>1, <1>5 DEF r, InHook, A!Registers, A!Before, A!IP, A!LR
<1>7. popped = [q \in A!Registers |-> popped[q]]
  BY DEF A!PopRegs
<1> HIDE DEF popped
<1>8. /\ \A q \in (0..2) \union (4..11) : regs'[q] = q
      /\ regs'[14] = -3
      /\ type # 10 => regs'[3] = 3
      /\ pc' = instr.reg
  <2>1. CASE type = 10
    <3>1. last = [popped EXCEPT ![12] = popped[3]] /\ 12 \in DOMAIN popped
      BY <1>7, <2>1 DEF A!Registers, A!IP
    <3> QED
      BY <1>2, <1>4, <1>6, <2>1, <3>1
  <2>2. CASE type # 10
    BY <1>2, <1>4, <1>6, <2>2
  <2> QED
    BY <2>1, <2>2
<1>9. stack' = A!StackBefore
  BY <1>1, <1>2, Frame, Pairs
<1>10. A!SameControl'
  <2>1. A!NativeTarget = instr.reg
    BY <1>1, <1>4 DEF A!NativeTarget, A!Before, A!Registers, A!IP
  <2>2. A!NativeTarget' = A!NativeTarget /\ A!StackBefore' = A!StackBefore
    BY <1>2 DEF A!NativeTarget, A!StackBefore
  <2>3. A!NativeStack' = A!StackBefore
    BY <1>1, <1>2, <2>2 DEF A!NativeStack
  <2> QED
    BY <1>8, <1>9, <2>1, <2>2, <2>3 DEF A!SameControl
<1>11. A!CallRegisters'
  BY <1>1, <1>2, <1>8 DEF A!CallRegisters, A!Left, A!FP, A!LR, A!AfterBl, A!Before,
     A!Registers, A!IP
<1>12. A!ExitRegisters' /\ A!FellPast'
  BY <1>1, <1>2 DEF A!ExitRegisters, A!FellPast, A!Left
<1> QED
  BY <1>2, <1>10, <1>11, <1>12 DEF HookInv, A!TypeOf

LEMMA LeaveBxLrKeeps ==
  ASSUME A!RegisterAssumption, HookInv, A!LeaveBxLr
  PROVE  HookInv'
<1> DEFINE r == [q \in A!Registers |->
                   CASE q \in {0} \union 4..10 -> saved[q]
                     [] q \in {3, 14} -> -5
                     [] OTHER -> regs[q]]
<1>1. InHook /\ phase = "hook" /\ instr.kind = "bx_lr"
  BY DEF HookInv, A!LeaveBxLr
<1>2. /\ regs' = A!PopRegs({11, 12}, r, stack) /\ stack' = A!Drop({11, 12}, stack)
      /\ pc' = A!PopRegs({11, 12}, r, stack)[3]
      /\ phase' = "left" /\ UNCHANGED <<instr, type, saved>>
  BY DEF A!LeaveBxLr, A!Leave, A!FP, A!IP, A!LR, A!Scratch, A!ReturnAddress
<1> HIDE DEF r
<1>3. \A q \in A!Registers : q # 12 => regs'[q] = IF q = 11 THEN 11 ELSE r[q]
  BY <1>1, <1>2, FrameRegisters
<1>4. stack' = A!StackBefore
  BY <1>1, <1>2, Frame, Pairs
<1>5. /\ \A q \in {0} \union (4..11) : regs'[q] = q
      /\ pc' = -5
  BY <1>1, <1>2, <1>3 DEF r, InHook, A!Registers, A!Before, A!IP, A!LR
<1>6. A!SameControl'
  BY <1>1, <1>2, <1>4, <1>5 DEF A!SameControl, A!NativeTarget, A!NativeStack,
     A!ReturnAddress, A!StackBefore
<1>7. A!ExitRegisters'
  BY <1>1, <1>2, <1>5 DEF A!ExitRegisters, A!Left, A!FP, A!Before, A!Registers, A!IP
<1>8. A!CallRegisters' /\ A!FellPast'
  BY <1>1, <1>2 DEF A!CallRegisters, A!FellPast, A!Left
<1> QED
  BY <1>2, <1>6, <1>7, <1>8 DEF HookInv, A!TypeOf
\* What is popped for the type is the list with ip in the place of pc; neither
\* that nor the frame is popped over the register of the branch.
LEMMA Popped ==
  ASSUME A!RegisterAssumption, HookInv, instr.kind = "pop", type \in 0..17
  PROVE  /\ instr.list \in SUBSET (0..12) /\ 12 \notin instr.list
         /\ A!ListPop = instr.list \union {12}
         /\ A!Cardinality(A!ListPop) = A!Cardinality(instr.list \union {15})
         /\ A!Cardinality(A!FramePop) = 2
         /\ A!PopThrough \in {1, 3} /\ A!PopThrough \notin A!FramePop \union A!ListPop
         /\ instr.list \subseteq 3..11
         /\ A!FramePop \subseteq 1..3 \union 11..12
         /\ 11 \notin instr.list => A!FramePop = {11, 12}
<1>1. instr.list \in SUBSET (0..12) /\ type = A!PopType(instr.list) /\ type # 200
  BY Kinds
<1>2. 12 \notin instr.list /\ A!ListPop = instr.list \union {12}
  BY <1>1, Classified
<1>3. A!Cardinality(A!ListPop) = A!Cardinality(instr.list \union {15})
  <2>1. IsFiniteSet(0..12)
    <3>1. 0 \in Int /\ 12 \in Int
      OBVIOUS
    <3> QED
      BY <3>1, FS_Interval
  <2>2. IsFiniteSet(instr.list)
    BY <1>1, <2>1, FS_Subset
  <2>3. 15 \notin instr.list
    BY <1>1
  <2>4. /\ Cardinality(instr.list \union {12}) = Cardinality(instr.list) + 1
        /\ Cardinality(instr.list \union {15}) = Cardinality(instr.list) + 1
    BY <1>2, <2>2, <2>3, FS_AddElement
  <2> QED
    BY <1>2, <2>4, SameCardinality, Zenon
<1>4. A!FramePop \in {{1, 2}, {2, 3}, {11, 12}}
  BY DEF A!FramePop, A!FP, A!IP
<1>5. A!Cardinality(A!FramePop) = 2
  BY <1>4, Pairs
<1>6. A!PopThrough \in {1, 3} /\ A!PopThrough \notin A!FramePop \union A!ListPop
  BY DEF A!PopThrough, A!FramePop, A!ListPop, A!FP, A!IP, A!Scratch
<1>7. A!ListPop \subseteq 3..12 /\ (11 \notin A!ListPop => A!FramePop = {11, 12})
  BY DEF A!FramePop, A!ListPop, A!FP, A!IP
<1>8. instr.list \subseteq 3..11
  BY <1>1, <1>2, <1>7
<1>9. A!FramePop \subseteq 1..3 \union 11..12
  BY <1>4
<1> QED
  BY <1>1, <1>2, <1>3, <1>5, <1>6, <1>7, <1>8, <1>9

LEMMA LeavePopKeeps ==
  ASSUME A!RegisterAssumption, HookInv, A!LeavePop
  PROVE  HookInv'
<1> DEFINE through == A!PopThrough
           before == A!StackBefore
           r == [q \in A!Registers |->
                   CASE q \in {0} \union 4..10 -> saved[q]
                     [] q = through -> -5
                     [] OTHER -> regs[q]]
           bare == A!PopRegs(A!FramePop, r, stack)
           list == instr.list
<1>1. InHook /\ phase = "hook" /\ instr.kind = "pop" /\ type \in 0..17
  BY DEF HookInv, A!LeavePop
<1>2. A!Drop(A!FramePop, stack) = before
  BY <1>1, Frame, Popped
<1>3. /\ regs' = A!PopRegs(A!ListPop, bare, before)
      /\ stack' = A!Drop(A!ListPop, before)
      /\ pc' = A!PopRegs(A!ListPop, bare, before)[through]
      /\ phase' = "left" /\ UNCHANGED <<instr, type, saved>>
  BY <1>2 DEF A!LeavePop, A!Leave, A!ReturnAddress
<1> HIDE DEF through, before, r
<1>4. /\ list \subseteq 3..11 /\ A!ListPop = list \union {12}
      /\ through \in {1, 3} /\ through \notin A!FramePop /\ through \notin A!ListPop
      /\ A!FramePop \subseteq 1..3 \union 11..12
      /\ 11 \notin list => A!FramePop = {11, 12}
      /\ A!Cardinality(A!ListPop) = A!Cardinality(list \union {15})
  BY <1>1, Popped, Zenon DEF through
<1>5. \A q \in {0} \union (4..11) : q \notin list => bare[q] = q
  <2> TAKE q \in {0} \union (4..11)
  <2> HAVE q \notin list
  <2>1. q \in A!Registers
    BY DEF A!Registers, A!IP
  <2>2. CASE q = 11
    <3>1. bare = A!PopRegs({11, 12}, r, stack)
      BY <1>4, <2>2
    <3> QED
      BY <1>1, <2>1, <2>2, <3>1, FrameRegisters
  <2>3. CASE q # 11
    <3>1. q \notin A!FramePop /\ q \in {0} \union 4..10
      BY <1>4, <2>3
    <3>2. bare[q] = r[q]
      BY <2>1, <3>1 DEF A!PopRegs
    <3>3. r[q] = saved[q]
      <4>1. q # through
        BY <1>4, <3>1
      <4> QED
        BY <2>1, <3>1, <4>1 DEF r
    <3>4. saved[q] = q
      BY <1>1, <2>1 DEF InHook, A!Before
    <3> QED
      BY <3>2, <3>3, <3>4
  <2> QED
    BY <2>2, <2>3
<1>6. bare[through] = -5
  <2>1. through \in A!Registers /\ through \notin {0} \union 4..10
    BY <1>4 DEF A!Registers, A!IP
  <2>2. bare[through] = r[through]
    BY <1>4, <2>1 DEF A!PopRegs
  <2> QED
    BY <2>1, <2>2 DEF r
<1> HIDE DEF bare
<1>7. pc' = -5
  <2>1. through \in A!Registers
    BY <1>4 DEF A!Registers, A!IP
  <2> QED
    BY <1>3, <1>4, <1>6, <2>1 DEF A!PopRegs
<1>8. \A q \in {0} \union (4..11) : regs'[q] = A!NativePop[q]
  <2> TAKE q \in {0} \union (4..11)
  <2>1. q \in A!Registers /\ A!Before[q] = q
    BY DEF A!Registers, A!IP, A!Before
  <2>2. {p \in A!ListPop : p < q} = {p \in list : p < q}
    BY <1>4
  <2>3. q \in A!ListPop <=> q \in list
    BY <1>4
  <2>4. regs'[q] = IF q \in A!ListPop
                   THEN before[A!Cardinality({p \in A!ListPop : p < q}) + 1] ELSE bare[q]
    BY <1>3, <2>1 DEF A!PopRegs
  <2>5. A!NativePop[q] = IF q \in list
                         THEN before[A!Cardinality({p \in list : p < q}) + 1] ELSE q
    BY <2>1 DEF A!NativePop, A!PopRegs, before
  <2> QED
    BY <1>5, <2>2, <2>3, <2>4, <2>5
<1>9. stack' = A!NativeStack
  BY <1>1, <1>3, <1>4 DEF A!NativeStack, A!Drop, before
<1>10. A!NativeStack' = A!NativeStack /\ A!NativeTarget' = -5 /\ A!NativePop' = A!NativePop
  BY <1>1, <1>3 DEF A!NativeStack, A!NativeTarget, A!NativePop, A!StackBefore,
     A!ReturnAddress
<1>11. A!SameControl'
  BY <1>7, <1>9, <1>10 DEF A!SameControl
<1>12. A!ExitRegisters'
  BY <1>1, <1>3, <1>8, <1>10 DEF A!ExitRegisters, A!Left, A!FP
<1>13. A!CallRegisters' /\ A!FellPast'
  BY <1>1, <1>3 DEF A!CallRegisters, A!FellPast, A!Left
<1> QED
  BY <1>3, <1>11, <1>12, <1>13 DEF HookInv, A!TypeOf

LEMMA FallOutKeeps ==
  ASSUME A!RegisterAssumption, HookInv, A!FallOut
  PROVE  HookInv'
<1>1. InHook /\ phase = "hook"
  BY DEF HookInv, A!FallOut
<1>2. stack[1] = 11 /\ stack[2] = -3 /\ A!Drop({11, 12}, stack) = A!StackBefore
  BY <1>1, Frame, Pairs
<1>3. /\ regs' = [regs EXCEPT ![11] = 11] /\ stack' = A!StackBefore
      /\ pc' = -3 /\ phase' = "fell" /\ UNCHANGED <<instr, type, saved>>
  BY <1>2 DEF A!FallOut, A!FP, A!IP
<1>4. A!FellPast'
  BY <1>1, <1>3 DEF A!FellPast, A!AfterBl, A!FP, A!IP, A!Before, A!Registers, InHook,
     A!StackBefore
<1>5. A!SameControl' /\ A!ExitRegisters' /\ A!CallRegisters'
  BY <1>3 DEF A!SameControl, A!ExitRegisters, A!CallRegisters, A!Left
<1> QED
  BY <1>3, <1>4, <1>5 DEF HookInv, A!TypeOf

LEMMA HookInvariant ==
  Spec => [](program = "HookRegisters" => HookInv)
<1> DEFINE Inv == program = "HookRegisters" => HookInv
<1>0. A!RegisterAssumption
  BY AlgorithmsAssumption
<1>1. Init => Inv
  BY DEF Init, A!Init, HookInv, A!SameControl, A!ExitRegisters, A!CallRegisters,
     A!FellPast, A!Left
<1>2. Inv /\ [Next]_vars => Inv'
  <2> SUFFICES ASSUME Inv, [Next]_vars, program' = "HookRegisters"
               PROVE  HookInv'
    OBVIOUS
  <2>1. program = "HookRegisters" /\ (A!Next \/ UNCHANGED hook)
    BY DEF Next, vars, hook
  <2>2. HookInv
    BY <2>1
  <2>3. CASE A!EnterHook
    BY <1>0, <2>2, <2>3, EnterHookKeeps
  <2>4. CASE A!LeaveBl
    BY <1>0, <2>2, <2>4, LeaveBlKeeps
  <2>5. CASE A!LeaveBlx
    BY <1>0, <2>2, <2>5, LeaveBlxKeeps
  <2>6. CASE A!LeaveBxLr
    BY <1>0, <2>2, <2>6, LeaveBxLrKeeps
  <2>7. CASE A!LeavePop
    BY <1>0, <2>2, <2>7, LeavePopKeeps
  <2>8. CASE A!FallOut
    BY <1>0, <2>2, <2>8, FallOutKeeps
  <2>9. CASE UNCHANGED hook
    BY <2>2, <2>9 DEF hook, HookInv, InHook, A!TypeOf, A!SameControl, A!NativeTarget,
       A!NativeStack, A!NativePop, A!StackBefore, A!ExitRegisters, A!CallRegisters,
       A!FellPast, A!Left
  <2> QED
    BY <2>1, <2>3, <2>4, <2>5, <2>6, <2>7, <2>8, <2>9 DEF A!Next
<1> QED
  BY <1>1, <1>2, PTL DEF Spec

\* rewrite_pop_fp_pc: a register list it gives a type, from its length and a
\* few places of it, is the list the hook pops for that type, for every list.
THEOREM ListsClassified == Spec => []ClassifiedExactly
<1>1. A!RegisterAssumption
  BY AlgorithmsAssumption
<1>2. (program = "HookRegisters" => HookInv) => ClassifiedExactly
  <2> SUFFICES ASSUME HookInv, instr.kind = "pop", type # 200
               PROVE  instr.list = A!ListPop \ {12}
    BY DEF ClassifiedExactly, A!ClassifiedExactly, A!IP
  <2>1. instr.list \in SUBSET (0..12) /\ type = A!PopType(instr.list)
    BY <1>1, Kinds
  <2>2. 12 \notin instr.list /\ A!ListPop = instr.list \union {12}
    BY <2>1, Classified
  <2> QED
    BY <2>2
<1> QED
  BY <1>2, HookInvariant, PTL

\* trampoline.c: a hook that leaves through its dispatch goes where the
\* instruction would, on the stack the instruction would leave.
THEOREM ControlSame == Spec => []SameControl
<1>1. (program = "HookRegisters" => HookInv) => SameControl
  BY DEF HookInv, SameControl
<1> QED
  BY <1>1, HookInvariant, PTL

\* trampoline.c: the hook of an exit hands the caller its callee-saved
\* registers and the result.
THEOREM ExitsRestore == Spec => []ExitRegisters
<1>1. (program = "HookRegisters" => HookInv) => ExitRegisters
  BY DEF HookInv, ExitRegisters
<1> QED
  BY <1>1, HookInvariant, PTL

\* trampoline.c: the hook of a call hands the callee its arguments, the
\* callee-saved registers and the word to keep.
THEOREM CallsPass == Spec => []CallRegisters
<1>1. (program = "HookRegisters" => HookInv) => CallRegisters
  BY DEF HookInv, CallRegisters
<1> QED
  BY <1>1, HookInvariant, PTL

\* trampoline.c: a hook without a branch for its type goes on behind the
\* instruction, on the stack it came with.
THEOREM FallsPast == Spec => []FellPast
<1>1. (program = "HookRegisters" => HookInv) => FellPast
  BY DEF HookInv, FellPast
<1> QED
  BY <1>1, HookInvariant, PTL
=============================================================================
