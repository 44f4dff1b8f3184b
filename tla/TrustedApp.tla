----------------------------- MODULE TrustedApp -----------------------------
(***************************************************************************)
(* sta_ripte.c and the programs that call it through ripte_stub.c.  The    *)
(* trusted application has one context for all sessions: where the ftbl of *)
(* the program that did INIT last lies in physical memory.  Requests are   *)
(* served one at a time.  Programs come and go; the result of a call is    *)
(* ignored by every caller, so one that does not get through is a step as  *)
(* well.  Memory is counted in rows of ftbl.  ripte_init, ripte_event and  *)
(* ripte_quote of the secure side are not in the repository: they succeed  *)
(* or fail, and ripte_init fills in the context if it succeeds.            *)
(***************************************************************************)
EXTENDS Integers, Sequences, FiniteSets

CONSTANTS Programs,
          Tables,      \* ftbl of each program: rows [token, src]
          TableAt,     \* its virtual address
          PageRows,    \* rows in a page
          Frames,      \* frames of physical memory
          AddressRows, \* rows that fit in 2^32 bytes
          MaxBlocks,   \* blocks the heap of the trusted application has
          Junk,        \* a row of other memory
          Panic, Anything, NULL

TablePages(c) == (TableAt[c] \div PageRows)..((TableAt[c] + Len(Tables[c]) - 1) \div PageRows)
Slots == {f * PageRows + o : f \in Frames, o \in 0..(PageRows - 1)}

Rows == [token : Nat, src : Nat]
Contexts == [start : Nat, rows : Nat]

ASSUME AppAssumption ==
  /\ TableAt \in [Programs -> Nat]
  /\ \A c \in Programs : Tables[c] \in Seq(Rows) /\ Len(Tables[c]) > 0
  /\ Frames \subseteq Nat
  /\ {PageRows, AddressRows} \subseteq Nat \ {0}
  /\ MaxBlocks \in Nat
  /\ NULL \notin Programs /\ NULL \notin Nat /\ NULL \notin Contexts
  /\ Panic \notin Nat /\ Panic # NULL
  /\ Junk \in Rows
  /\ Junk.token \notin {r.token : r \in UNION {{Tables[c][j] : j \in DOMAIN Tables[c]} : c \in Programs}}

VARIABLES state,   \* per program: "off", "loaded", "open", "running" or "quoted"
          frame,   \* and where its pages are
          mem,     \* the rows physical memory holds
          ctx,     \* the global context: NULL, or what INIT left there
          owner,   \* the program whose present run ctx is about, if its table
                   \* was in memory when the address was taken
          blocks,  \* blocks allocated
          last     \* the last DECRYPT: who, token, address it goes on with

vars == <<state, frame, mem, ctx, owner, blocks, last>>

None == [who |-> NULL, token |-> NULL, value |-> NULL, sent |-> FALSE]
NoPages(c) == [g \in TablePages(c) |-> NULL]
Unset == [start |-> NULL, rows |-> 0]

Init ==
  /\ state = [c \in Programs |-> "off"]
  /\ frame = [c \in Programs |-> NoPages(c)]
  /\ mem = [x \in Slots |-> Junk]
  /\ ctx = NULL /\ owner = NULL
  /\ blocks = 0
  /\ last = None

Alive == last.value # Panic

InUse == UNION {{frame[c][g] : g \in TablePages(c)} : c \in Programs}

\* The physical place of row j, counted from 0.  A page that is not in memory
\* has frame number 0 in the pagemap.
FrameNumber(fr, g) == IF fr[g] = NULL THEN 0 ELSE fr[g]

Slot(fr, c, j) ==
  (FrameNumber(fr, (TableAt[c] + j) \div PageRows) * PageRows) + ((TableAt[c] + j) % PageRows)

\* A program is loaded; its pages come into memory when they are read first.
Load(c) ==
  /\ Alive /\ state[c] = "off"
  /\ state' = [state EXCEPT ![c] = "loaded"]
  /\ UNCHANGED <<frame, mem, ctx, owner, blocks, last>>

RowAt(fr, c, g, x) ==
  {j \in 0..(Len(Tables[c]) - 1) : (TableAt[c] + j) \div PageRows = g /\ Slot(fr, c, j) = x}

\* A page of its table comes into memory, in a frame that is free.
PageIn(c) ==
  /\ Alive /\ state[c] # "off"
  /\ \E g \in TablePages(c), f \in Frames \ InUse :
       /\ frame[c][g] = NULL
       /\ frame' = [frame EXCEPT ![c][g] = f]
       /\ mem' = [x \in Slots |->
                    IF x \div PageRows # f THEN mem[x]
                    ELSE IF RowAt(frame'[c], c, g, x) = {} THEN Junk
                    ELSE Tables[c][1 + CHOOSE j \in RowAt(frame'[c], c, g, x) : TRUE]]
  /\ UNCHANGED <<state, ctx, owner, blocks, last>>

\* What is left of a run: nothing, and ctx is about it no more.
Gone(c) ==
  /\ state' = [state EXCEPT ![c] = "off"]
  /\ frame' = [frame EXCEPT ![c] = NoPages(c)]
  /\ owner' = IF owner = c THEN NULL ELSE owner

\* It ends after ripte_quote or at any time before, by errx() of the stub or
\* killed; the trusted application is not told: close_session does nothing.
Die(c) ==
  /\ Alive /\ state[c] # "off"
  /\ Gone(c)
  /\ UNCHANGED <<mem, ctx, blocks, last>>

\* ripte_init of the stub: context and session; it goes on if there is one.
OpenSession(c) ==
  /\ Alive /\ state[c] = "loaded"
  /\ state' = [state EXCEPT ![c] = "open"]
  /\ UNCHANGED <<frame, mem, ctx, owner, blocks, last>>

Goes(c) == state' = [state EXCEPT ![c] = "running"]

\* A call of the stub that does not reach the trusted application.
InitLost(c) ==
  /\ Alive /\ state[c] = "open"
  /\ Goes(c)
  /\ UNCHANGED <<frame, mem, ctx, owner, blocks, last>>

\* Mutant: the address of the page the table begins on.
get_page_address(c) == (FrameNumber(frame[c], TableAt[c] \div PageRows) * PageRows) % AddressRows

\* The frame of the page and the distance from its beginning, in 32 bits.
get_physical_address(c) == Slot(frame[c], c, 0) % AddressRows

\* ta_ripte_init: the context is replaced first.
ta_ripte_init(c) ==
  /\ Alive /\ state[c] = "open"
  /\ Goes(c)
  /\ IF blocks < MaxBlocks
     THEN /\ blocks' = blocks + 1
          /\ \/ /\ ctx' = [start |-> get_physical_address(c), rows |-> Len(Tables[c])]
                /\ owner' = IF frame[c][TableAt[c] \div PageRows] = NULL THEN NULL ELSE c
             \/ ctx' = Unset /\ owner' = NULL
     ELSE ctx' = NULL /\ owner' = NULL /\ UNCHANGED blocks
  /\ UNCHANGED <<frame, mem, last>>

\* ta_ripte_event: an event is allocated, filled in and never freed.
ta_ripte_event(c) ==
  /\ Alive /\ state[c] = "running"
  /\ IF blocks < MaxBlocks
     THEN blocks' = blocks + 1 /\ UNCHANGED last
     ELSE last' = [None EXCEPT !.who = c, !.value = Panic] /\ UNCHANGED blocks
  /\ UNCHANGED <<state, frame, mem, ctx, owner>>

\* Mutant: the last row is left out.
ScannedShort == 0..(ctx.rows - 2)

\* ftbl_bsearch looks at the rows from start to end, end included.
Scanned == 0..(ctx.rows - 1)

\* The rows of the context with the token; what is not memory holds nothing.
Matches(token) ==
  {j \in Scanned : ctx.start + j \in Slots /\ mem[ctx.start + j].token = token}

\* ta_ripte_decrypt without TEST_ENC: where the call of the first such row
\* returns to.  Through no context or no row it reads at NULL; a context that
\* was never filled in leads anywhere.
Decrypted(token) ==
  IF ctx = NULL THEN {Panic}
  ELSE IF ctx = Unset THEN {Panic, Anything}
  ELSE IF Matches(token) = {} THEN {Panic}
  ELSE {mem[ctx.start + (CHOOSE j \in Matches(token) : \A h \in Matches(token) : j <= h)].src + 4}

ta_ripte_decrypt(c) ==
  /\ Alive /\ state[c] = "running"
  /\ \E j \in DOMAIN Tables[c] :
       \E value \in Decrypted(Tables[c][j].token) :
         last' = [who |-> c, token |-> Tables[c][j].token, value |-> value, sent |-> TRUE]
  /\ UNCHANGED <<state, frame, mem, ctx, owner, blocks>>

\* ta_decrypt of the program, when the call does not get through: the
\* parameter comes back as it was.
DecryptLost(c) ==
  /\ Alive /\ state[c] = "running"
  /\ \E j \in DOMAIN Tables[c] :
       last' = [who |-> c, token |-> Tables[c][j].token, value |-> Tables[c][j].token, sent |-> FALSE]
  /\ UNCHANGED <<state, frame, mem, ctx, owner, blocks>>

\* ta_ripte_quote returns from both of its branches, before free(ctx); the
\* session is closed.
Quote(c) ==
  /\ Alive /\ state[c] = "running"
  /\ state' = [state EXCEPT ![c] = "quoted"]
  /\ UNCHANGED <<frame, mem, ctx, owner, blocks, last>>

Next ==
  \E c \in Programs :
    \/ Load(c) \/ PageIn(c) \/ Die(c) \/ OpenSession(c) \/ InitLost(c) \/ ta_ripte_init(c)
    \/ ta_ripte_event(c) \/ ta_ripte_decrypt(c) \/ DecryptLost(c) \/ Quote(c)

Spec == Init /\ [][Next]_vars

-----------------------------------------------------------------------------
\* The table is all in memory, in one piece and below 4 GiB.
InOnePiece(c) ==
  /\ \A g \in TablePages(c) : frame[c][g] # NULL
  /\ \A j \in 0..(Len(Tables[c]) - 1) :
      Slot(frame[c], c, j) = (Slot(frame[c], c, 0) % AddressRows) + j

Return(c, token) ==
  Tables[c][CHOOSE j \in DOMAIN Tables[c] :
              /\ Tables[c][j].token = token
              /\ \A h \in 1..(j - 1) : Tables[c][h].token # token].src + 4

\* Whatever other programs do or did, DECRYPT sends a program to the return
\* address of its own call as long as the context is about its present run and
\* its table can be found by the address of its first row.
AnswersOwnCall ==
  [][\A c \in Programs :
       ta_ripte_decrypt(c) /\ owner = c /\ InOnePiece(c)
         => last'.value = Return(c, last'.token)]_vars

\* The secure side reads at NULL only when no INIT came through, the last one
\* failed, memory has run out, or the context is about another run or a table
\* that is not in one piece.
PanicsExplained ==
  last.value = Panic =>
    \/ ctx \in {NULL, Unset}
    \/ last.token = NULL /\ blocks = MaxBlocks
    \/ owner # last.who
    \/ ~InOnePiece(last.who)

\* free(ctx) at the end of ta_ripte_quote (sta_ripte.c:133): a QUOTE that finds a
\* context gives its block back.
QuoteFreesContext ==
  [][\A c \in Programs :
       state[c] = "running" /\ state'[c] = "quoted" /\ ctx # NULL
         => blocks' = blocks - 1]_vars
=============================================================================
