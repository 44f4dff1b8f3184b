------------------------- MODULE TrustedAppProofs -------------------------
(***************************************************************************)
(* For any programs, tables and memory: the trusted application answers a  *)
(* program with the return address of its own call, and reads at NULL only *)
(* for the reasons PanicsExplained lists.                                  *)
(***************************************************************************)
EXTENDS TrustedApp, Inductions

Page(c, j) == (TableAt[c] + j) \div PageRows
Places(c) == 0..(Len(Tables[c]) - 1)

Types ==
  /\ frame = [c \in Programs |-> frame[c]]
  /\ \A c \in Programs : frame[c] \in [TablePages(c) -> Frames \union {NULL}]
  /\ mem \in [Slots -> Rows]
  /\ ctx \in {NULL, Unset} \union Contexts
  /\ owner \in Programs \union {NULL}
  /\ blocks \in 0..MaxBlocks

\* A frame belongs to one page of one program.
OwnFrames ==
  \A c, d \in Programs : \A g \in TablePages(c), h \in TablePages(d) :
    frame[c][g] # NULL /\ frame[c][g] = frame[d][h] => c = d /\ g = h

\* The rows of a page in memory are those of the table.
Held ==
  \A c \in Programs : \A j \in Places(c) :
    frame[c][Page(c, j)] # NULL => mem[Slot(frame[c], c, j)] = Tables[c][j + 1]

\* A context that is about the present run of a program has the address of its
\* first row, which is in memory since.
OwnContext ==
  \A c \in Programs :
    owner = c =>
      /\ frame[c][TableAt[c] \div PageRows] # NULL
      /\ ctx = [start |-> Slot(frame[c], c, 0) % AddressRows,
                rows |-> Len(Tables[c])]

IInv == Types /\ OwnFrames /\ Held /\ OwnContext /\ PanicsExplained

-----------------------------------------------------------------------------
(* Addresses.                                                              *)

\* A place in a frame is in that frame and no other.
LEMMA FrameOf ==
  ASSUME NEW P \in Nat \ {0}, NEW f \in Nat, NEW o \in 0..(P - 1)
  PROVE  (f * P) + o \in Nat /\ ((f * P) + o) \div P = f
  OBVIOUS

\* An address is given by its page and the distance from its beginning.
LEMMA PageAndRest ==
  ASSUME NEW P \in Nat \ {0}, NEW a \in Nat, NEW b \in Nat
  PROVE  /\ a % P \in 0..(P - 1) /\ a \div P \in Nat
         /\ a \div P = b \div P /\ a % P = b % P => a = b
  OBVIOUS

\* Where the rows of a table are.
LEMMA TableFacts ==
  ASSUME NEW c \in Programs
  PROVE  /\ Tables[c] \in Seq(Rows) /\ Len(Tables[c]) \in Nat \ {0}
         /\ TableAt[c] \in Nat /\ PageRows \in Nat \ {0}
         /\ AddressRows \in Nat \ {0} /\ Frames \subseteq Nat
         /\ NULL \notin Nat
         /\ \A j \in Places(c) : Page(c, j) \in TablePages(c)
         /\ 0 \in Places(c) /\ Page(c, 0) = TableAt[c] \div PageRows
<1>1. /\ Tables[c] \in Seq(Rows) /\ Len(Tables[c]) \in Nat \ {0}
      /\ TableAt[c] \in Nat /\ PageRows \in Nat \ {0}
      /\ AddressRows \in Nat \ {0} /\ Frames \subseteq Nat
      /\ NULL \notin Nat
  <2>1. TableAt \in [Programs -> Nat]
        /\ Tables[c] \in Seq(Rows) /\ Len(Tables[c]) > 0
        /\ Frames \subseteq Nat /\ {PageRows, AddressRows} \subseteq Nat \ {0}
        /\ NULL \notin Nat
    BY AppAssumption, Zenon
  <2> QED
    BY <2>1
<1>2. ASSUME NEW j \in Places(c)
      PROVE  Page(c, j) \in TablePages(c)
  <2>1. ASSUME NEW P \in Nat \ {0}, NEW a \in Nat, NEW n \in Nat, NEW i \in 0..n
        PROVE  (a + i) \div P \in (a \div P)..((a + n) \div P)
    OBVIOUS
  <2>2. /\ Len(Tables[c]) - 1 \in Nat /\ j \in 0..(Len(Tables[c]) - 1)
        /\ TableAt[c] + Len(Tables[c]) - 1 = TableAt[c] + (Len(Tables[c]) - 1)
    BY <1>1 DEF Places
  <2> QED
    BY <1>1, <2>1, <2>2 DEF Page, TablePages
<1>3. 0 \in Places(c) /\ Page(c, 0) = TableAt[c] \div PageRows
  BY <1>1 DEF Places, Page
<1> QED
  BY <1>1, <1>2, <1>3

\* The place of a row whose page is in memory.
LEMMA SlotFacts ==
  ASSUME NEW c \in Programs, NEW j \in Places(c), NEW fr,
         fr[Page(c, j)] \in Frames, fr[Page(c, j)] # NULL
  PROVE  /\ Slot(fr, c, j) = (fr[Page(c, j)] * PageRows)
                               + ((TableAt[c] + j) % PageRows)
         /\ Slot(fr, c, j) \in Slots
         /\ Slot(fr, c, j) \in Nat
         /\ Slot(fr, c, j) \div PageRows = fr[Page(c, j)]
<1> DEFINE f == fr[Page(c, j)]
           o == (TableAt[c] + j) % PageRows
<1>1. /\ TableAt[c] \in Nat /\ PageRows \in Nat \ {0} /\ f \in Nat
      /\ j \in Nat /\ TableAt[c] + j \in Nat
  BY TableFacts DEF Places
<1>2. o \in 0..(PageRows - 1)
  BY <1>1, PageAndRest
<1>3. Slot(fr, c, j) = (f * PageRows) + o
  BY DEF Slot, FrameNumber, Page
<1> HIDE DEF f, o
<1>4. (f * PageRows) + o \in Nat /\ ((f * PageRows) + o) \div PageRows = f
  BY <1>1, <1>2, FrameOf
<1>5. (f * PageRows) + o \in Slots
  BY <1>2 DEF Slots, f
<1> QED
  BY <1>3, <1>4, <1>5 DEF f, o

-----------------------------------------------------------------------------
(* The answer.                                                             *)

\* What the trusted application finds for a program the context is about.
LEMMA OwnRow ==
  ASSUME IInv, NEW c \in Programs, owner = c, InOnePiece(c),
         NEW i \in DOMAIN Tables[c]
  PROVE  Decrypted(Tables[c][i].token) = {Return(c, Tables[c][i].token)}
         /\ Return(c, Tables[c][i].token) \in Nat
<1> DEFINE T == Tables[c]
           token == T[i].token
           n == Len(T)
<1>1. /\ T \in Seq(Rows) /\ n \in Nat \ {0} /\ DOMAIN T = 1..n
      /\ \A j \in 1..n : T[j] \in Rows
      /\ NULL \notin Nat /\ NULL \notin Contexts
  <2>1. NULL \notin Contexts
    BY AppAssumption, Zenon
  <2> QED
    BY <2>1, TableFacts
<1>2. ctx = [start |-> Slot(frame[c], c, 0) % AddressRows, rows |-> n]
  BY DEF IInv, OwnContext
<1>3. \A j \in Places(c) :
        /\ frame[c][Page(c, j)] # NULL /\ frame[c][Page(c, j)] \in Frames
        /\ Slot(frame[c], c, j) = ctx.start + j
        /\ ctx.start + j \in Slots
        /\ mem[ctx.start + j] = T[j + 1]
  <2>1. ASSUME NEW j \in Places(c)
        PROVE  /\ frame[c][Page(c, j)] # NULL /\ frame[c][Page(c, j)] \in Frames
               /\ Slot(frame[c], c, j) = ctx.start + j
               /\ ctx.start + j \in Slots
               /\ mem[ctx.start + j] = T[j + 1]
    <3>1. frame[c][Page(c, j)] # NULL /\ frame[c][Page(c, j)] \in Frames
      BY TableFacts DEF InOnePiece, IInv, Types
    <3>2. Slot(frame[c], c, j) = ctx.start + j
      BY <1>2 DEF InOnePiece, Places
    <3>3. Slot(frame[c], c, j) \in Slots
      BY <3>1, SlotFacts
    <3>4. mem[Slot(frame[c], c, j)] = T[j + 1]
      BY <3>1 DEF IInv, Held
    <3> QED
      BY <3>1, <3>2, <3>3, <3>4
  <2> QED
    BY <2>1
<1>4. ctx # NULL /\ ctx # Unset
  <2>1. Slot(frame[c], c, 0) % AddressRows \in Nat
    <3>1. Slot(frame[c], c, 0) \in Nat
      BY <1>3, SlotFacts, TableFacts
    <3> QED
      BY <3>1, TableFacts
  <2>2. ctx \in Contexts
    BY <1>1, <1>2, <2>1 DEF Contexts
  <2> QED
    BY <1>1, <1>2, <2>2 DEF Unset
<1> HIDE DEF T
<1>5. Matches(token) = {j \in Places(c) : T[j + 1].token = token}
  <2>1. Scanned = Places(c)
    BY <1>2 DEF Scanned, Places, T
  <2> QED
    BY <1>3, <2>1 DEF Matches
<1>6. Matches(token) \in SUBSET Nat /\ i - 1 \in Matches(token)
  <2>1. i \in 1..n
    BY <1>1 DEF T
  <2>2. i - 1 \in Places(c) /\ T[(i - 1) + 1].token = token
    BY <1>1, <2>1 DEF Places, T
  <2>3. Places(c) \in SUBSET Nat
    BY DEF Places
  <2> QED
    BY <1>5, <2>2, <2>3
<1> HIDE DEF token
<1> DEFINE least == CHOOSE j \in Matches(token) : \A h \in Matches(token) : j <= h
<1>7. least \in Matches(token) /\ \A h \in Matches(token) : least <= h
  BY <1>6, LeastElement
<1> HIDE DEF least
<1>8. least \in Places(c) /\ least \in Nat /\ T[least + 1].token = token
  BY <1>5, <1>6, <1>7
<1>9. Decrypted(token) = {mem[ctx.start + least].src + 4}
  BY <1>4, <1>6, Zenon DEF Decrypted, least
<1>10. mem[ctx.start + least] = T[least + 1]
  BY <1>3, <1>8
<1>11. least + 1 \in 1..n
  BY <1>8 DEF Places, T
<1>12. ASSUME NEW h \in 1..n, T[h].token = token
       PROVE  least + 1 <= h
  <2>1. h - 1 \in Places(c) /\ T[(h - 1) + 1].token = token
    BY <1>1, <1>12 DEF Places, T
  <2>2. least <= h - 1
    BY <1>5, <1>7, <2>1
  <2> QED
    BY <1>8, <2>2
<1> DEFINE first(j) == T[j].token = token /\ \A h \in 1..(j - 1) : T[h].token # token
<1>13. first(least + 1)
  <2>1. ASSUME NEW h \in 1..least
        PROVE  T[h].token # token
    <3>1. h \in 1..n /\ ~(least + 1 <= h)
      BY <1>1, <1>8, <1>11
    <3> QED
      BY <1>12, <3>1
  <2>2. (least + 1) - 1 = least
    BY <1>8
  <2> QED
    BY <1>8, <2>1, <2>2
<1>14. ASSUME NEW j \in 1..n, first(j)
       PROVE  j = least + 1
  <2>1. least + 1 <= j
    BY <1>12, <1>14
  <2>2. ~(least + 1 < j)
    <3>1. ASSUME least + 1 < j
          PROVE  least + 1 \in 1..(j - 1)
      BY <1>8, <3>1
    <3> QED
      BY <1>8, <1>14, <3>1
  <2> QED
    BY <1>8, <2>1, <2>2
<1>15. (CHOOSE j \in 1..n : first(j)) = least + 1
  BY <1>11, <1>13, <1>14
<1>16. Return(c, token) = T[least + 1].src + 4
  BY <1>1, <1>15 DEF Return, T
<1>17. T[least + 1].src \in Nat
  <2>1. T[least + 1] \in Rows
    BY <1>1, <1>11
  <2> QED
    BY <2>1 DEF Rows
<1> QED
  BY <1>9, <1>10, <1>16, <1>17 DEF token, T

-----------------------------------------------------------------------------
(* The steps.                                                              *)

\* PanicsExplained is about what changes only while nothing has gone wrong.
LEMMA StillExplained ==
  ASSUME IInv, Alive, last' = last
  PROVE  PanicsExplained'
  BY DEF Alive, PanicsExplained

\* Frames and memory are what they were.
LEMMA SameMemory ==
  ASSUME IInv, UNCHANGED <<frame, mem>>
  PROVE  OwnFrames' /\ Held'
<1>1. \A c, j : Slot(frame[c], c, j)' = Slot(frame'[c'], c', j')
  BY DEF Slot, FrameNumber
<1>2. OwnFrames'
  BY DEF IInv, OwnFrames, TablePages
<1>3. Held'
  BY <1>1 DEF IInv, Held, Page, Places
<1> QED
  BY <1>2, <1>3

\* Steps that change neither memory nor the context.
LEMMA SameContext ==
  ASSUME IInv, UNCHANGED <<frame, mem, ctx, owner>>,
         blocks' \in 0..MaxBlocks, PanicsExplained'
  PROVE  IInv'
<1>1. OwnFrames' /\ Held'
  BY SameMemory
<1>2. Types'
  BY DEF IInv, Types, TablePages, Slots
<1>3. OwnContext'
  BY DEF IInv, OwnContext, Slot, FrameNumber
<1> QED
  BY <1>1, <1>2, <1>3 DEF IInv

\* A page comes into a frame no other page has, with its rows.
LEMMA PageInKeeps ==
  ASSUME IInv, NEW c \in Programs, PageIn(c)
  PROVE  IInv'
<1>1. PICK g \in TablePages(c), f \in Frames \ InUse :
        /\ frame[c][g] = NULL
        /\ frame' = [frame EXCEPT ![c][g] = f]
        /\ mem' = [x \in Slots |->
                     IF x \div PageRows # f THEN mem[x]
                     ELSE IF RowAt(frame'[c], c, g, x) = {} THEN Junk
                     ELSE Tables[c][1 + CHOOSE j \in RowAt(frame'[c], c, g, x) : TRUE]]
  BY DEF PageIn
<1>2. Alive /\ UNCHANGED <<ctx, owner, blocks, last>>
  BY DEF PageIn
<1>3. /\ frame = [d \in Programs |-> frame[d]]
      /\ \A d \in Programs : frame[d] \in [TablePages(d) -> Frames \union {NULL}]
      /\ mem \in [Slots -> Rows]
  BY DEF IInv, Types
<1>4. /\ f \in Nat /\ f # NULL
      /\ \A d \in Programs : \A h \in TablePages(d) : frame[d][h] # f
  BY <1>1, TableFacts DEF InUse
<1>5. /\ frame'[c][g] = f
      /\ \A d \in Programs : \A h \in TablePages(d) :
           d # c \/ h # g => frame'[d][h] = frame[d][h]
      /\ frame' = [d \in Programs |-> frame'[d]]
      /\ \A d \in Programs : frame'[d] \in [TablePages(d) -> Frames \union {NULL}]
  BY <1>1, <1>3
<1>6. ASSUME NEW x \in Slots
      PROVE  mem'[x] \in Rows
  <2>1. mem[x] \in Rows /\ Junk \in Rows
    BY <1>3, AppAssumption
  <2>2. CASE RowAt(frame'[c], c, g, x) = {}
    BY <1>1, <2>1, <2>2
  <2>3. CASE RowAt(frame'[c], c, g, x) # {}
    <3> DEFINE k == CHOOSE j \in RowAt(frame'[c], c, g, x) : TRUE
    <3>1. k \in RowAt(frame'[c], c, g, x)
      BY <2>3
    <3>2. k \in 0..(Len(Tables[c]) - 1)
      BY <3>1 DEF RowAt
    <3> HIDE DEF k
    <3>3. Tables[c][1 + k] \in Rows
      <4>1. 1 + k \in 1..Len(Tables[c])
        BY <3>2, TableFacts
      <4> QED
        BY <4>1, TableFacts
    <3> QED
      BY <1>1, <2>1, <2>3, <3>3 DEF k
  <2> QED
    BY <2>2, <2>3
<1>7. Types'
  <2>1. mem' \in [Slots -> Rows]
    BY <1>1, <1>6
  <2> QED
    BY <1>2, <1>5, <2>1 DEF IInv, Types, TablePages, Slots
<1>8. OwnFrames'
  <2>1. ASSUME NEW d \in Programs, NEW e \in Programs,
               NEW h \in TablePages(d), NEW i \in TablePages(e),
               frame'[d][h] # NULL, frame'[d][h] = frame'[e][i]
        PROVE  d = e /\ h = i
    <3>1. CASE d = c /\ h = g
      BY <1>4, <1>5, <2>1, <3>1
    <3>2. CASE e = c /\ i = g
      BY <1>4, <1>5, <2>1, <3>2
    <3>3. CASE ~(d = c /\ h = g) /\ ~(e = c /\ i = g)
      <4>1. frame[d][h] # NULL /\ frame[d][h] = frame[e][i]
        BY <1>5, <2>1, <3>3
      <4> QED
        BY <4>1 DEF IInv, OwnFrames
    <3> QED
      BY <3>1, <3>2, <3>3
  <2> QED
    BY <2>1 DEF OwnFrames, TablePages
<1>9. ASSUME NEW d \in Programs, NEW j \in Places(d), frame'[d][Page(d, j)] # NULL
      PROVE  mem'[Slot(frame'[d], d, j)] = Tables[d][j + 1]
  <2> DEFINE h == Page(d, j)
             x == Slot(frame'[d], d, j)
  <2>1. h \in TablePages(d) /\ frame'[d][h] \in Frames
    BY <1>5, <1>9, TableFacts
  <2>2. /\ x = (frame'[d][h] * PageRows) + ((TableAt[d] + j) % PageRows)
        /\ x \in Slots /\ x \div PageRows = frame'[d][h]
    BY <1>9, <2>1, SlotFacts
  <2>3. CASE d = c /\ h = g
    <3>1. x \div PageRows = f
      BY <1>5, <2>2, <2>3
    <3>2. j \in RowAt(frame'[c], c, g, x)
      BY <2>3 DEF RowAt, Places, Page
    <3>3. ASSUME NEW k \in RowAt(frame'[c], c, g, x)
          PROVE  k = j
      <4>1. /\ k \in Places(c) /\ Page(c, k) = g
            /\ Slot(frame'[c], c, k) = Slot(frame'[c], c, j)
        BY <2>3, <3>3 DEF RowAt, Places, Page
      <4>2. frame'[c][Page(c, k)] \in Frames /\ frame'[c][Page(c, k)] # NULL
        BY <1>4, <1>5, <4>1
      <4>3. Slot(frame'[c], c, k) =
              (frame'[c][g] * PageRows) + ((TableAt[c] + k) % PageRows)
        BY <4>1, <4>2, SlotFacts
      <4>4. /\ TableAt[c] \in Nat /\ PageRows \in Nat \ {0} /\ j \in Nat /\ k \in Nat
        BY <2>3, <4>1, TableFacts DEF Places
      <4>5. /\ (TableAt[c] + k) % PageRows \in Nat
            /\ (TableAt[c] + j) % PageRows \in Nat
            /\ f * PageRows \in Nat
        BY <1>4, <4>4
      <4>6. (TableAt[c] + k) % PageRows = (TableAt[c] + j) % PageRows
        <5>1. (f * PageRows) + ((TableAt[c] + k) % PageRows)
                = (f * PageRows) + ((TableAt[c] + j) % PageRows)
          BY <1>5, <2>2, <2>3, <4>1, <4>3, Zenon
        <5>2. ASSUME NEW q \in Nat, NEW r \in Nat, NEW s \in Nat, q + r = q + s
              PROVE  r = s
          BY <5>2
        <5> QED
          BY <4>5, <5>1, <5>2, Zenon
      <4>7. (TableAt[c] + k) \div PageRows = (TableAt[c] + j) \div PageRows
        BY <2>3, <4>1 DEF Page
      <4>8. TableAt[c] + k = TableAt[c] + j
        <5>1. TableAt[c] + k \in Nat /\ TableAt[c] + j \in Nat
          BY <4>4
        <5> QED
          BY <4>4, <4>6, <4>7, <5>1, PageAndRest, Zenon
      <4> QED
        BY <4>4, <4>8
    <3>4. (CHOOSE k \in RowAt(frame'[c], c, g, x) : TRUE) = j
      BY <3>2, <3>3
    <3>5. mem'[x] = Tables[c][1 + j]
      BY <1>1, <2>2, <3>1, <3>2, <3>4
    <3> QED
      BY <2>3, <3>5 DEF Places
  <2>4. CASE ~(d = c /\ h = g)
    <3>1. frame'[d][h] = frame[d][h] /\ frame[d][h] # f
      BY <1>4, <1>5, <2>1, <2>4
    <3>2. mem'[x] = mem[x]
      BY <1>1, <2>2, <3>1
    <3>3. x = Slot(frame[d], d, j)
      BY <3>1 DEF Slot, FrameNumber, Page
    <3>4. mem[Slot(frame[d], d, j)] = Tables[d][j + 1]
      BY <1>9, <3>1 DEF IInv, Held
    <3> QED
      BY <3>2, <3>3, <3>4
  <2> QED
    BY <2>3, <2>4
<1>10. Held'
  <2>1. \A d, j : Slot(frame[d], d, j)' = Slot(frame'[d'], d', j')
    BY DEF Slot, FrameNumber
  <2> QED
    BY <1>9, <2>1 DEF Held, Page, Places
<1>11. OwnContext'
  <2>1. ASSUME NEW d \in Programs, owner = d
        PROVE  /\ frame'[d][TableAt[d] \div PageRows] # NULL
               /\ Slot(frame'[d], d, 0) = Slot(frame[d], d, 0)
    <3>1. TableAt[d] \div PageRows \in TablePages(d)
          /\ (TableAt[d] + 0) \div PageRows = TableAt[d] \div PageRows
      BY TableFacts DEF Page
    <3>2. frame[d][TableAt[d] \div PageRows] # NULL
      BY <2>1 DEF IInv, OwnContext
    <3>3. frame'[d][TableAt[d] \div PageRows] = frame[d][TableAt[d] \div PageRows]
      BY <1>1, <1>5, <3>1, <3>2
    <3> QED
      BY <3>1, <3>2, <3>3 DEF Slot, FrameNumber
  <2>2. \A d : Slot(frame[d], d, 0)' = Slot(frame'[d'], d', 0)
    BY DEF Slot, FrameNumber
  <2> QED
    BY <1>2, <2>1, <2>2 DEF IInv, OwnContext
<1>12. PanicsExplained'
  BY <1>2, StillExplained
<1> QED
  BY <1>7, <1>8, <1>10, <1>11, <1>12 DEF IInv

\* A run that is over has no pages, and no context is about it.
LEMMA GoneKeeps ==
  ASSUME IInv, NEW c \in Programs, Gone(c), Alive,
         UNCHANGED <<mem, ctx, blocks, last>>
  PROVE  IInv'
<1>1. /\ frame' = [frame EXCEPT ![c] = NoPages(c)]
      /\ owner' = IF owner = c THEN NULL ELSE owner
  BY DEF Gone
<1>2. /\ frame = [d \in Programs |-> frame[d]]
      /\ \A d \in Programs : frame[d] \in [TablePages(d) -> Frames \union {NULL}]
  BY DEF IInv, Types
<1>3. /\ \A h \in TablePages(c) : frame'[c][h] = NULL
      /\ \A d \in Programs : d # c => frame'[d] = frame[d]
      /\ frame' = [d \in Programs |-> frame'[d]]
      /\ \A d \in Programs : frame'[d] \in [TablePages(d) -> Frames \union {NULL}]
  BY <1>1, <1>2 DEF NoPages
<1>4. Types'
  BY <1>1, <1>3 DEF IInv, Types, TablePages, Slots
<1>5. OwnFrames'
  BY <1>3 DEF IInv, OwnFrames, TablePages
<1>6. \A d, j : Slot(frame[d], d, j)' = Slot(frame'[d'], d', j')
  BY DEF Slot, FrameNumber
<1>7. Held'
  <2>1. ASSUME NEW d \in Programs, NEW j \in Places(d),
               frame'[d][Page(d, j)] # NULL
        PROVE  mem[Slot(frame'[d], d, j)] = Tables[d][j + 1]
    <3>1. d # c
      BY <1>3, <2>1, TableFacts
    <3> QED
      BY <1>3, <2>1, <3>1 DEF IInv, Held
  <2> QED
    BY <1>6, <2>1 DEF Held, Page, Places
<1>8. OwnContext'
  <2>1. ASSUME NEW d \in Programs, owner' = d
        PROVE  d # c /\ owner = d
    <3>1. NULL \notin Programs
      BY AppAssumption, Zenon
    <3> QED
      BY <1>1, <2>1, <3>1
  <2> QED
    BY <1>3, <1>6, <2>1 DEF IInv, OwnContext
<1>9. PanicsExplained'
  BY StillExplained
<1> QED
  BY <1>4, <1>5, <1>7, <1>8, <1>9 DEF IInv

\* INIT takes the address of the program that calls, or leaves no address.
LEMMA InitKeeps ==
  ASSUME IInv, NEW c \in Programs, ta_ripte_init(c)
  PROVE  IInv'
<1>1. /\ Alive /\ UNCHANGED <<frame, mem, last>>
      /\ IF blocks < MaxBlocks
         THEN /\ blocks' = blocks + 1
              /\ \/ /\ ctx' = [start |-> get_physical_address(c),
                               rows |-> Len(Tables[c])]
                    /\ owner' = IF frame[c][TableAt[c] \div PageRows] = NULL
                                THEN NULL ELSE c
                 \/ ctx' = Unset /\ owner' = NULL
         ELSE ctx' = NULL /\ owner' = NULL /\ blocks' = blocks
  BY DEF ta_ripte_init
<1>2. MaxBlocks \in Nat /\ NULL \notin Programs
  BY AppAssumption, Zenon
<1>3. blocks' \in 0..MaxBlocks
  BY <1>1, <1>2 DEF IInv, Types
<1>4. \/ ctx' \in {NULL, Unset} /\ owner' = NULL
      \/ /\ ctx' = [start |-> Slot(frame[c], c, 0) % AddressRows,
                    rows |-> Len(Tables[c])]
         /\ owner' = IF frame[c][TableAt[c] \div PageRows] = NULL THEN NULL ELSE c
  BY <1>1 DEF get_physical_address
<1>5. Slot(frame[c], c, 0) % AddressRows \in Nat
  <2> DEFINE f == FrameNumber(frame[c], TableAt[c] \div PageRows)
             o == (TableAt[c] + 0) % PageRows
  <2>1. f \in Nat
    <3>1. TableAt[c] \div PageRows \in TablePages(c) /\ Frames \subseteq Nat
      BY TableFacts
    <3> QED
      BY <3>1 DEF IInv, Types, FrameNumber
  <2>2. o \in Nat /\ PageRows \in Nat /\ AddressRows \in Nat \ {0}
    BY TableFacts
  <2>3. Slot(frame[c], c, 0) = (f * PageRows) + o
    <3>1. (TableAt[c] + 0) \div PageRows = TableAt[c] \div PageRows
      BY TableFacts
    <3> QED
      BY <3>1, Zenon DEF Slot
  <2> HIDE DEF f, o
  <2>4. (f * PageRows) + o \in Nat
    BY <2>1, <2>2
  <2> QED
    BY <2>2, <2>3, <2>4
<1>6. ctx' \in {NULL, Unset} \union Contexts /\ owner' \in Programs \union {NULL}
  BY <1>4, <1>5, TableFacts DEF Contexts
<1>7. Types'
  BY <1>1, <1>3, <1>6 DEF IInv, Types, TablePages, Slots
<1>8. OwnContext'
  <2>1. ASSUME NEW d \in Programs, owner' = d
        PROVE  /\ d = c /\ frame[c][TableAt[c] \div PageRows] # NULL
               /\ ctx' = [start |-> Slot(frame[c], c, 0) % AddressRows,
                          rows |-> Len(Tables[c])]
    BY <1>2, <1>4, <2>1
  <2>2. \A d : Slot(frame[d], d, 0)' = Slot(frame'[d'], d', 0)
    BY DEF Slot, FrameNumber
  <2> QED
    BY <1>1, <2>1, <2>2 DEF OwnContext
<1>9. OwnFrames' /\ Held'
  BY <1>1, SameMemory
<1>10. PanicsExplained'
  BY <1>1, StillExplained
<1> QED
  BY <1>7, <1>8, <1>9, <1>10 DEF IInv

\* Without memory for an event the trusted application reads at NULL.
LEMMA EventKeeps ==
  ASSUME IInv, NEW c \in Programs, ta_ripte_event(c)
  PROVE  IInv'
<1>1. /\ Alive /\ UNCHANGED <<state, frame, mem, ctx, owner>>
      /\ IF blocks < MaxBlocks
         THEN blocks' = blocks + 1 /\ last' = last
         ELSE last' = [None EXCEPT !.who = c, !.value = Panic] /\ blocks' = blocks
  BY DEF ta_ripte_event
<1>2. MaxBlocks \in Nat /\ blocks \in 0..MaxBlocks
  BY AppAssumption DEF IInv, Types
<1>3. CASE blocks < MaxBlocks
  <2>1. blocks' \in 0..MaxBlocks
    BY <1>1, <1>2, <1>3
  <2>2. PanicsExplained'
    BY <1>1, <1>3, StillExplained
  <2> QED
    BY <1>1, <2>1, <2>2, SameContext
<1>4. CASE ~(blocks < MaxBlocks)
  <2>1. last' = [None EXCEPT !.who = c, !.value = Panic] /\ blocks' = blocks
    BY <1>1, <1>4, Zenon
  <2>2. last'.token = NULL
    BY <2>1 DEF None
  <2>3. blocks' = MaxBlocks
    BY <1>2, <1>4, <2>1
  <2>4. PanicsExplained'
    BY <2>2, <2>3 DEF PanicsExplained
  <2> QED
    BY <1>1, <1>2, <2>1, <2>4, SameContext
<1> QED
  BY <1>3, <1>4

\* DECRYPT goes wrong only without a context, or one that is not about the
\* program, or whose table is not in one piece.
LEMMA DecryptKeeps ==
  ASSUME IInv, NEW c \in Programs, ta_ripte_decrypt(c)
  PROVE  IInv'
<1> DEFINE answer(i, value) ==
             last' = [who |-> c, token |-> Tables[c][i].token, value |-> value,
                      sent |-> TRUE]
<1>1. PICK i \in DOMAIN Tables[c] :
        \E v \in Decrypted(Tables[c][i].token) : answer(i, v)
  BY DEF ta_ripte_decrypt
<1>2. PICK value \in Decrypted(Tables[c][i].token) : answer(i, value)
  BY <1>1
<1>3. Alive /\ UNCHANGED <<frame, mem, ctx, owner, blocks>>
  BY DEF ta_ripte_decrypt
<1>4. ASSUME owner = c, InOnePiece(c)
      PROVE  value # Panic
  <2>1. value \in Nat
    BY <1>4, <1>2, OwnRow
  <2> QED
    BY <2>1, AppAssumption
<1>5. PanicsExplained'
  <2>1. last'.who = c /\ last'.value = value
    BY <1>2
  <2>2. InOnePiece(c)' <=> InOnePiece(c)
    BY <1>3 DEF InOnePiece, TablePages, Slot, FrameNumber
  <2>3. value = Panic => owner # c \/ ~InOnePiece(c)
    BY <1>4
  <2>4. last'.value = Panic =>
          owner' # last'.who \/ ~InOnePiece(last.who)'
    <3>1. InOnePiece(last.who)' <=> InOnePiece(c)'
      BY <2>1 DEF InOnePiece, TablePages, Slot, FrameNumber
    <3> QED
      BY <1>3, <2>1, <2>2, <2>3, <3>1
  <2> QED
    BY <2>4 DEF PanicsExplained
<1>6. blocks' \in 0..MaxBlocks
  BY <1>3 DEF IInv, Types
<1> QED
  BY <1>3, <1>5, <1>6, SameContext

\* A DECRYPT that does not get through gives the token back.
LEMMA DecryptLostKeeps ==
  ASSUME IInv, NEW c \in Programs, DecryptLost(c)
  PROVE  IInv'
<1>1. PICK i \in DOMAIN Tables[c] :
        last' = [who |-> c, token |-> Tables[c][i].token,
                 value |-> Tables[c][i].token, sent |-> FALSE]
  BY DEF DecryptLost
<1>2. UNCHANGED <<frame, mem, ctx, owner, blocks>>
  BY DEF DecryptLost
<1>3. Tables[c][i].token \in Nat
  <2>1. Tables[c][i] \in Rows
    BY TableFacts
  <2> QED
    BY <2>1 DEF Rows
<1>4. PanicsExplained'
  <2>1. last'.value # Panic
    BY <1>1, <1>3, AppAssumption
  <2> QED
    BY <2>1 DEF PanicsExplained
<1>5. blocks' \in 0..MaxBlocks
  BY <1>2 DEF IInv, Types
<1> QED
  BY <1>2, <1>4, <1>5, SameContext

\* Steps that only change what the program is doing.
LEMMA StateKeeps ==
  ASSUME IInv, NEW c \in Programs,
         Load(c) \/ OpenSession(c) \/ InitLost(c) \/ Quote(c)
  PROVE  IInv'
<1>1. Alive /\ UNCHANGED <<frame, mem, ctx, owner, blocks, last>>
  BY DEF Load, OpenSession, InitLost, Quote
<1>2. blocks' \in 0..MaxBlocks
  BY <1>1 DEF IInv, Types
<1>3. PanicsExplained'
  BY <1>1, StillExplained
<1> QED
  BY <1>1, <1>2, <1>3, SameContext

-----------------------------------------------------------------------------
\* The inductive invariant.
THEOREM Invariant == Spec => []IInv
<1>1. Init => IInv
  <2>1. SUFFICES ASSUME Init
                 PROVE  IInv
    OBVIOUS
  <2>2. /\ frame = [c \in Programs |-> NoPages(c)]
        /\ mem = [x \in Slots |-> Junk]
        /\ ctx = NULL /\ owner = NULL /\ blocks = 0 /\ last = None
    BY <2>1 DEF Init
  <2>3. Junk \in Rows /\ MaxBlocks \in Nat /\ Panic # NULL /\ NULL \notin Programs
    BY AppAssumption, Zenon
  <2>4. Types
    BY <2>2, <2>3 DEF Types, NoPages
  <2>5. \A c \in Programs : \A g \in TablePages(c) : frame[c][g] = NULL
    BY <2>2 DEF NoPages
  <2>6. OwnFrames /\ Held
    BY <2>5, TableFacts DEF OwnFrames, Held
  <2>7. OwnContext /\ PanicsExplained
    BY <2>2, <2>3 DEF OwnContext, PanicsExplained, None
  <2> QED
    BY <2>4, <2>6, <2>7 DEF IInv
<1>2. IInv /\ [Next]_vars => IInv'
  <2>1. SUFFICES ASSUME IInv, [Next]_vars
                 PROVE  IInv'
    OBVIOUS
  <2>2. CASE UNCHANGED vars
    <3>1. UNCHANGED <<frame, mem, ctx, owner, blocks, last>>
      BY <2>2 DEF vars
    <3>2. PanicsExplained'
      <4>1. InOnePiece(last.who)' <=> InOnePiece(last.who)
        BY <3>1 DEF InOnePiece, TablePages, Slot, FrameNumber
      <4> QED
        BY <2>1, <3>1, <4>1 DEF IInv, PanicsExplained
    <3>3. blocks' \in 0..MaxBlocks
      BY <2>1, <3>1 DEF IInv, Types
    <3> QED
      BY <2>1, <3>1, <3>2, <3>3, SameContext
  <2>3. ASSUME NEW c \in Programs, Die(c)
        PROVE  IInv'
    <3>1. Gone(c) /\ Alive /\ UNCHANGED <<mem, ctx, blocks, last>>
      BY <2>3 DEF Die
    <3> QED
      BY <2>1, <3>1, GoneKeeps
  <2> QED
    BY <2>1, <2>2, <2>3, StateKeeps, PageInKeeps, InitKeeps, EventKeeps,
       DecryptKeeps, DecryptLostKeeps DEF Next
<1> QED
  BY <1>1, <1>2, PTL DEF Spec

\* The trusted application reads at NULL only for one of the reasons given.
THEOREM PanicsAreExplained == Spec => []PanicsExplained
<1>1. IInv => PanicsExplained
  BY DEF IInv
<1> QED
  BY <1>1, Invariant, PTL

\* Whatever other programs do, a program the context is about, with its table
\* in one piece, gets the return address of its own call.
THEOREM OwnCallAnswered == Spec => AnswersOwnCall
<1>1. IInv /\ [Next]_vars =>
        [\A c \in Programs :
           ta_ripte_decrypt(c) /\ owner = c /\ InOnePiece(c)
             => last'.value = Return(c, last'.token)]_vars
  <2>1. SUFFICES ASSUME IInv, NEW c \in Programs,
                        ta_ripte_decrypt(c), owner = c, InOnePiece(c)
                 PROVE  last'.value = Return(c, last'.token)
    OBVIOUS
  <2>2. PICK i \in DOMAIN Tables[c] :
          \E value \in Decrypted(Tables[c][i].token) :
            last' = [who |-> c, token |-> Tables[c][i].token, value |-> value,
                     sent |-> TRUE]
    BY <2>1 DEF ta_ripte_decrypt
  <2>3. Decrypted(Tables[c][i].token) = {Return(c, Tables[c][i].token)}
    BY <2>1, OwnRow
  <2> QED
    BY <2>2, <2>3
<1> QED
  BY <1>1, Invariant, PTL DEF Spec, AnswersOwnCall
=============================================================================
