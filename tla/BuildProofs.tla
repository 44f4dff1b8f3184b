---------------------------- MODULE BuildProofs ----------------------------
(***************************************************************************)
(* For every text and any number of builds, stopped ones included: when    *)
(* the tables in the program are its own, and that three builds that get   *)
(* to the end suffice.                                                     *)
(***************************************************************************)
EXTENDS Build, FiniteSetTheorems, TLAPS

Types ==
  /\ pc \in {"idle", "compile", "hook", "clean"} \union Tables
  /\ pass \in {1, 2}
  /\ file \in [Tables -> Table \union {Broken}]
  /\ object \in [Tables -> Table \union {Broken}]
  /\ newer \in SUBSET Tables
  /\ sample \in [tables : [Tables -> Table], hooked : 0..Len(Text)]
  /\ relink \in BOOLEAN
  /\ fresh \in BOOLEAN
  /\ seen \in 0..Len(Text)
  /\ settled \in Nat

\* Files not newer than their objects are the objects, and they are what is
\* linked into the program unless it is out of date.
Objects ==
  \A t \in Tables :
    /\ file[t] = Broken => t \in newer
    /\ t \notin newer =>
         /\ object[t] = file[t]
         /\ ~relink => sample.tables[t] = object[t]

\* The tables made of a program with no hooks that has the tables b.
MadeWith(t, b) == Made(t, [tables |-> b], 0)

\* The length a table of the text has, and that all of them have it.
Rows(t) == Cardinality(IF t = "fdtbl" THEN Exits(0) ELSE Calls(0))
RightRows(b) == \A t \in Tables : b[t].rows = Rows(t)

\* The first pass makes tables of the program with the tables it began with.
FirstPass ==
  pass = 1 /\ pc # "idle" =>
    /\ pc # "clean"
    /\ pc = "compile" =>
         /\ file = began
         /\ fresh => relink \/ newer # {} \/ sample.hooked = 0
    /\ pc = "hook" => file = began
    /\ pc # "compile" => sample.tables = began /\ (fresh => seen = 0)
    /\ pc \in Tables => sample.hooked = Len(Text)
    /\ pc \in {"ftbl", "fdtbl"} =>
         /\ file["btbl"] = Made("btbl", sample, seen)
         /\ "btbl" \in newer
    /\ pc = "fdtbl" =>
         /\ file["ftbl"] = Made("ftbl", sample, seen)
         /\ "ftbl" \in newer

\* The second pass links them, and makes tables of that program.
SecondPass ==
  pass = 2 /\ pc # "idle" =>
    /\ pc # "btbl"
    /\ began \in [Tables -> Table]
    /\ pc = "compile" =>
         /\ newer = Tables \/ relink
         /\ \A t \in Tables : file[t] # Broken
         /\ fresh => \A t \in Tables : file[t] = MadeWith(t, began)
    /\ pc = "hook" => sample.tables = file
    /\ pc # "compile" =>
         /\ seen = 0
         /\ fresh => \A t \in Tables : sample.tables[t] = MadeWith(t, began)
         /\ file["btbl"] = sample.tables["btbl"]
    /\ pc \in Tables \union {"clean"} => sample.hooked = Len(Text)
    /\ pc \in {"fdtbl", "clean"} => file["ftbl"] = Made("ftbl", sample, 0)
    /\ pc = "clean" => file["fdtbl"] = Made("fdtbl", sample, 0)

\* What the builds before this one have settled.
Settled ==
  /\ settled >= 1 /\ pc = "idle" =>
       /\ newer = Tables
       /\ \A t \in Tables : file[t] # Broken
       /\ sample.hooked = Len(Text)
       /\ began \in [Tables -> Table]
       /\ fresh => \A t \in Tables : sample.tables[t] = MadeWith(t, began)
  /\ settled >= 2 /\ pc = "idle" => fresh /\ RightRows(file)
  /\ settled >= 3 /\ pc = "idle" => RightRows(began)
  /\ settled >= 1 /\ pc # "idle" => fresh
  /\ settled >= 2 /\ pc # "idle" => RightRows(began)

IInv == Types /\ Objects /\ FirstPass /\ SecondPass /\ Settled

-----------------------------------------------------------------------------
\* What hookit makes of a program is a table.
LEMMA MadeFacts ==
  ASSUME NEW t \in Tables, NEW n \in 0..Len(Text),
         NEW p, p.tables \in [Tables -> Table]
  PROVE  /\ Made(t, p, n) \in Table
         /\ Made(t, p, n) # Broken
         /\ Made(t, p, n) = Made(t, [tables |-> p.tables], n)
         /\ Made(t, p, 0).rows = Rows(t)
         /\ Made(t, p, n).layout = [u \in Tables |-> p.tables[u].rows]
         /\ Made(t, p, n).seen = n
<1>1. Len(Text) \in Nat /\ Broken \notin Table
  BY BuildAssumption
<1>2. IsFiniteSet(1..Len(Text))
  BY <1>1, FS_Interval
<1>3. IsFiniteSet(Exits(n)) /\ IsFiniteSet(Calls(n))
  BY <1>2, FS_Subset DEF Exits, Calls
<1>4. Cardinality(IF t = "fdtbl" THEN Exits(n) ELSE Calls(n)) \in Nat
  BY <1>3, FS_CardinalityType
<1>5. Layout(p) \in [Tables -> Nat]
  BY DEF Layout, Table
<1>6. Made(t, p, n) \in Table
  BY <1>4, <1>5 DEF Made, Table
<1>7. Layout(p) = Layout([tables |-> p.tables])
  BY DEF Layout
<1>8. Made(t, p, n) = Made(t, [tables |-> p.tables], n)
  BY <1>7 DEF Made
<1>9. Made(t, p, 0).rows = Rows(t)
  BY DEF Made, Rows
<1>10. Made(t, p, n).layout = [u \in Tables |-> p.tables[u].rows]
       /\ Made(t, p, n).seen = n
  BY DEF Made, Layout
<1> QED
  BY <1>1, <1>6, <1>8, <1>9, <1>10

\* A build begins with the tables it finds.
LEMMA MakeKeeps ==
  ASSUME IInv, Make
  PROVE  IInv'
<1>1. Types'
  BY DEF IInv, Types, Make
<1>2. Objects'
  BY DEF IInv, Objects, Make
<1>3. FirstPass' /\ SecondPass'
  <2>1. /\ pc' = "compile" /\ pass' = 1 /\ began' = file
        /\ UNCHANGED <<file, newer, sample, relink>>
    BY DEF Make
  <2>2. fresh' => relink \/ newer # {} \/ sample.hooked = 0
    BY Zenon DEF Make
  <2> QED
    BY <2>1, <2>2 DEF FirstPass, SecondPass, Tables
<1>4. Settled'
  BY DEF IInv, Make, Settled, RightRows, Tables
<1> QED
  BY <1>1, <1>2, <1>3, <1>4 DEF IInv

\* A table compiled is one more file that is its object.
LEMMA CompileKeeps ==
  ASSUME IInv, NEW t \in Tables, Compile(t)
  PROVE  IInv'
<1>1. /\ pc = "compile" /\ t \in newer
      /\ UNCHANGED <<pass, file, sample, seen, builds, fresh, began>>
  BY DEF Compile
<1>2. CASE file[t] = Broken
  <2>1. pc' = "idle" /\ settled' = 0 /\ UNCHANGED <<object, newer, relink>>
    BY <1>2 DEF Compile
  <2>2. Types' /\ Objects'
    BY <1>1, <2>1 DEF IInv, Types, Objects
  <2>3. FirstPass' /\ SecondPass' /\ Settled'
    BY <2>1 DEF FirstPass, SecondPass, Settled
  <2> QED
    BY <2>2, <2>3 DEF IInv
<1>3. CASE file[t] # Broken
  <2>1. /\ object' = [object EXCEPT ![t] = file[t]]
        /\ newer' = newer \ {t}
        /\ relink' = TRUE
        /\ pc' = pc /\ settled' = settled
    BY <1>3 DEF Compile
  <2>2. Types'
    BY <1>1, <2>1 DEF IInv, Types
  <2>3. Objects'
    BY <1>1, <1>3, <2>1 DEF IInv, Types, Objects
  <2>4. FirstPass' /\ SecondPass'
    BY <1>1, <2>1 DEF IInv, FirstPass, SecondPass, MadeWith, Made, Tables
  <2>5. Settled'
    BY <1>1, <2>1 DEF IInv, Settled, RightRows
  <2> QED
    BY <2>2, <2>3, <2>4, <2>5 DEF IInv
<1> QED
  BY <1>2, <1>3

\* The program linked has the tables of the files.
LEMMA LinkKeeps ==
  ASSUME IInv, Link
  PROVE  IInv'
<1>1. /\ pc = "compile" /\ newer = {} /\ pc' = "hook"
      /\ IF relink THEN sample' = [tables |-> object, hooked |-> 0]
                        /\ relink' = FALSE
                   ELSE UNCHANGED <<sample, relink>>
      /\ seen' = sample'.hooked
      /\ UNCHANGED <<pass, file, object, newer, builds, settled, fresh, began>>
  BY DEF Link, OutOfDate
<1>2. object = file /\ file \in [Tables -> Table]
  <2>1. \A t \in Tables : object[t] = file[t] /\ file[t] # Broken
    BY <1>1 DEF IInv, Objects
  <2> QED
    BY <2>1 DEF IInv, Types
<1>3. sample' \in [tables : [Tables -> Table], hooked : 0..Len(Text)]
  BY <1>1, <1>2, BuildAssumption DEF IInv, Types
<1>4. sample'.tables = file
  <2>1. CASE relink
    BY <1>1, <1>2, <2>1
  <2>2. CASE ~relink
    <3>1. \A t \in Tables : sample.tables[t] = file[t]
      BY <1>1, <2>2 DEF IInv, Objects
    <3> QED
      BY <1>1, <1>2, <2>2, <3>1 DEF IInv, Types
  <2> QED
    BY <2>1, <2>2
<1>5. Types'
  BY <1>1, <1>3 DEF IInv, Types
<1>6. Objects'
  BY <1>1, <1>2, <1>4 DEF IInv, Objects
<1>7. relink \/ sample.hooked = 0 => sample'.hooked = 0
  BY <1>1
<1>8. FirstPass'
  BY <1>1, <1>4, <1>7 DEF IInv, FirstPass, Tables
<1>9. SecondPass'
  <2>1. Tables # {}
    BY DEF Tables
  <2> QED
    BY <1>1, <1>4, <1>7, <2>1 DEF IInv, SecondPass, MadeWith, Made, Tables
<1>10. Settled'
  BY <1>1 DEF IInv, Settled, RightRows
<1> QED
  BY <1>5, <1>6, <1>8, <1>9, <1>10 DEF IInv

\* Hooks do not change the tables.
LEMMA WriteBackKeeps ==
  ASSUME IInv, write_back
  PROVE  IInv'
<1>1. /\ pc = "hook" /\ sample.hooked < Len(Text)
      /\ sample' = [sample EXCEPT !.hooked = @ + 1]
      /\ UNCHANGED <<pc, pass, file, object, newer, relink, seen, builds,
                     settled, fresh, began>>
  BY DEF write_back
<1>2. /\ sample'.tables = sample.tables
      /\ sample' \in [tables : [Tables -> Table], hooked : 0..Len(Text)]
  BY <1>1, BuildAssumption DEF IInv, Types
<1>3. Types' /\ Objects'
  BY <1>1, <1>2 DEF IInv, Types, Objects
<1>4. FirstPass' /\ SecondPass' /\ Settled'
  BY <1>1, <1>2
  DEF IInv, FirstPass, SecondPass, Settled, MadeWith, Made, RightRows, Tables
<1> QED
  BY <1>3, <1>4 DEF IInv

\* The first pass writes all tables, the second the last two.
LEMMA SweptKeeps ==
  ASSUME IInv, HookitSwept
  PROVE  IInv'
<1>1. /\ pc = "hook" /\ sample.hooked = Len(Text)
      /\ pc' = IF pass = 1 THEN "btbl" ELSE "ftbl"
      /\ UNCHANGED <<pass, file, object, newer, sample, relink, seen, builds,
                     settled, fresh, began>>
  BY DEF HookitSwept
<1>2. Types' /\ Objects'
  BY <1>1 DEF IInv, Types, Objects, Tables
<1>3. FirstPass'
  BY <1>1 DEF IInv, Types, FirstPass, Tables
<1>4. SecondPass' /\ Settled'
  BY <1>1
  DEF IInv, Types, SecondPass, Settled, MadeWith, Made, RightRows, Tables
<1> QED
  BY <1>2, <1>3, <1>4 DEF IInv

\* A table written is one of the program it was made of, which is still there.
LEMMA WriteTableKeeps ==
  ASSUME IInv, NEW t \in Tables, WriteTable(t)
  PROVE  IInv'
<1> DEFINE made == Made(t, sample, seen)
<1>1. /\ pc = t
      /\ file' = [file EXCEPT ![t] = made]
      /\ newer' = newer \cup {t}
      /\ pc' = After[t]
      /\ pass' = IF t = "fdtbl" THEN 2 ELSE pass
      /\ UNCHANGED <<object, sample, relink, seen, builds, settled, fresh, began>>
  BY DEF WriteTable
<1>2. /\ sample.tables \in [Tables -> Table] /\ seen \in 0..Len(Text)
      /\ file \in [Tables -> Table \union {Broken}] /\ pass \in {1, 2}
  BY DEF IInv, Types
<1>3. /\ made \in Table /\ made # Broken
      /\ made = Made(t, [tables |-> sample.tables], seen)
  BY <1>2, MadeFacts
<1> HIDE DEF made
<1>4. /\ file'[t] = made
      /\ \A u \in Tables : u # t => file'[u] = file[u]
      /\ file' \in [Tables -> Table \union {Broken}]
  BY <1>1, <1>2, <1>3
<1>5. /\ t = "btbl" => pc' = "ftbl"
      /\ t = "ftbl" => pc' = "fdtbl"
      /\ t = "fdtbl" => pc' = IF pass = 1 THEN "compile" ELSE "clean"
      /\ t \in {"btbl", "ftbl", "fdtbl"}
  BY <1>1 DEF After, Tables
<1>6. Types'
  BY <1>1, <1>4, <1>5 DEF IInv, Types, Tables
<1>7. Objects'
  BY <1>1, <1>3, <1>4 DEF IInv, Objects
<1>8. FirstPass'
  <2>1. CASE pass = 1 /\ t # "fdtbl"
    <3>1. /\ sample.tables = began /\ (fresh => seen = 0)
          /\ sample.hooked = Len(Text)
          /\ t = "ftbl" => file["btbl"] = Made("btbl", sample, seen)
                           /\ "btbl" \in newer
      BY <1>1, <1>5, <2>1 DEF IInv, FirstPass, Tables
    <3>2. \A u : Made(u, sample, seen)' = Made(u, sample, seen)
      BY <1>1 DEF Made, Layout, Calls, Exits
    <3> QED
      BY <1>1, <1>4, <1>5, <2>1, <3>1, <3>2 DEF FirstPass, Tables, made
  <2>2. CASE pass # 1 \/ t = "fdtbl"
    BY <1>1, <1>2, <2>2 DEF FirstPass
  <2> QED
    BY <2>1, <2>2
<1>9. SecondPass'
  <2>0. /\ \A u : Made(u, sample, 0)' = Made(u, sample, 0)
        /\ \A u : MadeWith(u, began)' = MadeWith(u, began)
    BY <1>1 DEF Made, MadeWith, Layout, Calls, Exits
  <2>1. CASE pass = 1 /\ t # "fdtbl"
    BY <1>1, <2>1 DEF SecondPass
  <2>2. CASE pass = 1 /\ t = "fdtbl"
    <3>1. /\ sample.tables = began /\ (fresh => seen = 0)
          /\ began \in [Tables -> Table]
          /\ file["btbl"] = Made("btbl", sample, seen)
          /\ file["ftbl"] = Made("ftbl", sample, seen)
          /\ "btbl" \in newer /\ "ftbl" \in newer
      BY <1>1, <1>2, <2>2 DEF IInv, FirstPass, Tables
    <3>2. \A u \in Tables : file'[u] = Made(u, sample, seen)
      BY <1>4, <2>2, <3>1 DEF Tables, made
    <3>3. \A u \in Tables :
            /\ Made(u, sample, seen) # Broken
            /\ seen = 0 => Made(u, sample, seen) = MadeWith(u, sample.tables)
      <4>1. ASSUME NEW u \in Tables
            PROVE  /\ Made(u, sample, seen) # Broken
                   /\ seen = 0 => Made(u, sample, seen)
                                    = MadeWith(u, sample.tables)
        <5>1. /\ Made(u, sample, seen) # Broken
              /\ Made(u, sample, seen) = Made(u, [tables |-> sample.tables], seen)
          BY <1>2, MadeFacts
        <5> QED
          BY <5>1 DEF MadeWith
      <4> QED
        BY <4>1
    <3>4. pc' = "compile" /\ newer' = Tables
      BY <1>1, <1>5, <2>2, <3>1 DEF IInv, Types, Tables
    <3> QED
      BY <1>1, <2>0, <3>1, <3>2, <3>3, <3>4 DEF SecondPass, Tables
  <2>3. CASE pass = 2
    <3>1. /\ t # "btbl" /\ seen = 0 /\ began \in [Tables -> Table]
          /\ fresh => \A u \in Tables : sample.tables[u] = MadeWith(u, began)
          /\ file["btbl"] = sample.tables["btbl"]
          /\ sample.hooked = Len(Text)
          /\ t = "fdtbl" => file["ftbl"] = Made("ftbl", sample, 0)
      BY <1>1, <1>5, <2>3 DEF IInv, SecondPass, Tables
    <3>2. /\ file'["btbl"] = sample.tables["btbl"]
          /\ t = "ftbl" => file'["ftbl"] = Made("ftbl", sample, 0)
          /\ t = "fdtbl" => file'["ftbl"] = Made("ftbl", sample, 0)
                            /\ file'["fdtbl"] = Made("fdtbl", sample, 0)
      BY <1>4, <3>1 DEF Tables, made
    <3> QED
      BY <1>1, <1>5, <2>0, <2>3, <3>1, <3>2 DEF SecondPass, Tables
  <2> QED
    BY <1>2, <2>1, <2>2, <2>3
<1>10. Settled'
  <2>1. pc # "idle" /\ pc' # "idle"
    BY <1>1, <1>5 DEF Tables
  <2> QED
    BY <1>1, <2>1 DEF IInv, Settled, RightRows, Rows, Calls, Exits
<1> QED
  BY <1>6, <1>7, <1>8, <1>9, <1>10 DEF IInv

\* A build that gets to the end settles one more thing.
LEMMA CleanKeeps ==
  ASSUME IInv, clean_obj
  PROVE  IInv'
<1>1. /\ pc = "clean"
      /\ object' = [t \in Tables |-> Broken]
      /\ newer' = Tables
      /\ pc' = "idle"
      /\ settled' = settled + 1
      /\ UNCHANGED <<pass, file, sample, relink, seen, builds, fresh, began>>
  BY DEF clean_obj
<1>2. Types' /\ Objects'
  BY <1>1 DEF IInv, Types, Objects
<1>3. FirstPass' /\ SecondPass'
  BY <1>1 DEF FirstPass, SecondPass
<1>4. /\ sample.tables \in [Tables -> Table] /\ settled \in Nat
      /\ pass \in {1, 2}
  BY DEF IInv, Types
<1>5. pass = 2
  BY <1>1, <1>4 DEF IInv, FirstPass, Tables
<1>6. /\ sample.hooked = Len(Text) /\ began \in [Tables -> Table]
      /\ fresh => \A t \in Tables : sample.tables[t] = MadeWith(t, began)
      /\ file["btbl"] = sample.tables["btbl"]
      /\ file["ftbl"] = Made("ftbl", sample, 0)
      /\ file["fdtbl"] = Made("fdtbl", sample, 0)
  BY <1>1, <1>5 DEF IInv, SecondPass, Tables
<1>7. \A t \in Tables : Made(t, sample, 0).rows = Rows(t)
                        /\ Made(t, sample, 0) # Broken
  <2>1. 0 \in 0..Len(Text)
    BY BuildAssumption
  <2> QED
    BY <1>4, <2>1, MadeFacts
<1>8. \A t \in Tables : file[t] # Broken
  <2>1. sample.tables["btbl"] # Broken
    BY <1>4, BuildAssumption DEF Tables
  <2> QED
    BY <1>6, <1>7, <2>1 DEF Tables
<1>9. settled >= 1 => fresh /\ RightRows(file)
  <2>1. SUFFICES ASSUME settled >= 1
                 PROVE  fresh /\ RightRows(file)
    OBVIOUS
  <2>2. fresh
    BY <1>1, <2>1 DEF IInv, Settled
  <2>3. sample.tables["btbl"].rows = Rows("btbl")
    BY <1>6, <2>2 DEF MadeWith, Made, Rows, Tables
  <2> QED
    BY <1>6, <1>7, <2>2, <2>3 DEF RightRows, Tables
<1>10. settled >= 2 => RightRows(began)
  BY <1>1 DEF IInv, Settled
<1>11. Settled'
  <2>1. \A t, b : MadeWith(t, b)' = MadeWith(t, b')
    BY DEF MadeWith, Made, Layout, Calls, Exits
  <2>2. \A b : RightRows(b)' <=> RightRows(b')
    BY DEF RightRows, Rows, Calls, Exits
  <2>3. /\ settled' >= 2 => fresh /\ RightRows(file)
        /\ settled' >= 3 => RightRows(began)
    BY <1>1, <1>4, <1>9, <1>10
  <2>4. fresh => \A t \in Tables : sample'.tables[t] = MadeWith(t, began')
    BY <1>1, <1>6
  <2> QED
    BY <1>1, <1>6, <1>8, <2>1, <2>2, <2>3, <2>4 DEF Settled
<1> QED
  BY <1>2, <1>3, <1>11 DEF IInv

\* A build that is stopped settles nothing.
LEMMA StopKeeps ==
  ASSUME IInv, Stop
  PROVE  IInv'
<1>1. /\ pc # "idle" /\ pc' = "idle" /\ settled' = 0
      /\ UNCHANGED <<pass, object, sample, relink, seen, builds, fresh, began>>
      /\ \/ UNCHANGED <<file, newer>>
         \/ /\ pc \in Tables
            /\ file' = [file EXCEPT ![pc] = Broken]
            /\ newer' = newer \cup {pc}
  BY DEF Stop
<1>2. Types'
  BY <1>1 DEF IInv, Types
<1>3. Objects'
  BY <1>1 DEF IInv, Types, Objects
<1>4. FirstPass' /\ SecondPass' /\ Settled'
  BY <1>1 DEF FirstPass, SecondPass, Settled
<1> QED
  BY <1>2, <1>3, <1>4 DEF IInv

\* A table is put back only when one is broken, which a build that gets to the
\* end leaves none.
LEMMA RestoreKeeps ==
  ASSUME IInv, NEW t \in Tables, Restore(t)
  PROVE  IInv'
<1>1. PICK c \in OldTables : file' = [file EXCEPT ![t] = c]
  BY DEF Restore
<1>2. /\ pc = "idle" /\ file[t] = Broken
      /\ UNCHANGED <<pc, pass, object, newer, sample, relink, seen, builds,
                     settled, fresh, began>>
  BY DEF Restore
<1>3. c \in Table
  BY <1>1, BuildAssumption
<1>4. Types'
  BY <1>1, <1>2, <1>3 DEF IInv, Types
<1>5. Objects'
  BY <1>1, <1>2, <1>3, BuildAssumption DEF IInv, Types, Objects
<1>6. FirstPass' /\ SecondPass'
  BY <1>2 DEF FirstPass, SecondPass
<1>7. Settled'
  <2>1. settled \in Nat /\ ~(settled >= 1)
    BY <1>2 DEF IInv, Types, Settled
  <2> QED
    BY <1>2, <2>1 DEF Settled
<1> QED
  BY <1>4, <1>5, <1>6, <1>7 DEF IInv

-----------------------------------------------------------------------------
\* The inductive invariant.
THEOREM Invariant == Spec => []IInv
<1>1. Init => IInv
  <2>1. SUFFICES ASSUME Init
                 PROVE  IInv
    OBVIOUS
  <2>2. Types
    <3>1. OldTables \subseteq Table /\ 0 \in 0..Len(Text)
      BY BuildAssumption
    <3>2. file \in [Tables -> Table]
      BY <2>1, <3>1 DEF Init
    <3> QED
      BY <2>1, <3>1, <3>2 DEF Init, Types
  <2>3. Objects
    BY <2>1 DEF Init, Objects
  <2>4. FirstPass /\ SecondPass /\ Settled
    BY <2>1 DEF Init, FirstPass, SecondPass, Settled
  <2> QED
    BY <2>2, <2>3, <2>4 DEF IInv
<1>2. IInv /\ [Next]_vars => IInv'
  <2>1. ASSUME IInv, UNCHANGED vars
        PROVE  IInv'
    <3>1. UNCHANGED <<pc, pass, file, object, newer, sample, relink, seen,
                      settled, fresh, began>>
      BY <2>1 DEF vars
    <3>2. Types' /\ Objects'
      BY <2>1, <3>1 DEF IInv, Types, Objects
    <3>3. /\ \A t, n : Made(t, sample, n)' = Made(t, sample', n')
          /\ \A t, b : MadeWith(t, b)' = MadeWith(t, b')
      BY DEF MadeWith, Made, Layout, Calls, Exits
    <3>4. FirstPass' /\ SecondPass'
      BY <2>1, <3>1, <3>3 DEF IInv, FirstPass, SecondPass, MadeWith
    <3>5. Settled'
      BY <2>1, <3>1, <3>3
      DEF IInv, Settled, RightRows, Rows, Calls, Exits, MadeWith
    <3> QED
      BY <3>2, <3>4, <3>5 DEF IInv
  <2> QED
    BY <2>1, MakeKeeps, CompileKeeps, LinkKeeps, WriteBackKeeps, SweptKeeps,
       WriteTableKeeps, CleanKeeps, StopKeeps, RestoreKeeps DEF Next
<1> QED
  BY <1>1, <1>2, PTL DEF Spec

\* The tables in the program fit it when those they were made with were of the
\* right lengths, and not otherwise.
LEMMA FitsIffRight ==
  ASSUME sample.tables \in [Tables -> Table], began \in [Tables -> Table],
         \A t \in Tables : sample.tables[t] = MadeWith(t, began)
  PROVE  Fits <=> RightRows(began)
<1>1. 0 \in 0..Len(Text)
  BY BuildAssumption
<1>2. \A t \in Tables :
        /\ MadeWith(t, began).rows = Rows(t)
        /\ MadeWith(t, began).layout = [u \in Tables |-> began[u].rows]
        /\ MadeWith(t, began).seen = 0
        /\ MadeWith(t, began) \in Table
  <2>1. [tables |-> began].tables = began
    OBVIOUS
  <2> QED
    BY <1>1, <2>1, MadeFacts DEF MadeWith
<1>3. \A t \in Tables :
        /\ Made(t, sample, 0).rows = Rows(t)
        /\ Made(t, sample, 0).layout = [u \in Tables |-> Rows(u)]
        /\ Made(t, sample, 0).seen = 0
        /\ Made(t, sample, 0) \in Table
  <2>1. [u \in Tables |-> sample.tables[u].rows] = [u \in Tables |-> Rows(u)]
    BY <1>2
  <2>2. ASSUME NEW t \in Tables
        PROVE  /\ Made(t, sample, 0).rows = Rows(t)
               /\ Made(t, sample, 0).layout = [u \in Tables |-> sample.tables[u].rows]
               /\ Made(t, sample, 0).seen = 0
               /\ Made(t, sample, 0) \in Table
    <3>1. Made(t, sample, 0).rows = Rows(t) /\ Made(t, sample, 0) \in Table
      BY <1>1, MadeFacts
    <3>2. /\ Made(t, sample, 0).layout =
               [u \in Tables |-> sample.tables[u].rows]
          /\ Made(t, sample, 0).seen = 0
      BY DEF Made, Layout
    <3> QED
      BY <3>1, <3>2
  <2> QED
    BY <2>1, <2>2
<1>4. [u \in Tables |-> began[u].rows] = [u \in Tables |-> Rows(u)]
        <=> RightRows(began)
  BY DEF RightRows
<1>5. \A t \in Tables :
        sample.tables[t] = Made(t, sample, 0) <=> RightRows(began)
  <2>1. ASSUME NEW t \in Tables
        PROVE  MadeWith(t, began) = Made(t, sample, 0) <=>
                 MadeWith(t, began).layout = Made(t, sample, 0).layout
    <3>1. \A a, b \in Table :
            a.rows = b.rows /\ a.seen = b.seen => (a = b <=> a.layout = b.layout)
      <4>1. \A a \in Table :
              a = [rows |-> a.rows, layout |-> a.layout, seen |-> a.seen]
        BY DEF Table
      <4> QED
        BY <4>1, Zenon
    <3>2. /\ MadeWith(t, began) \in Table /\ Made(t, sample, 0) \in Table
          /\ MadeWith(t, began).rows = Made(t, sample, 0).rows
          /\ MadeWith(t, began).seen = Made(t, sample, 0).seen
      BY <1>2, <1>3
    <3> QED
      BY <3>1, <3>2, Zenon
  <2>2. ASSUME NEW t \in Tables
        PROVE  MadeWith(t, began).layout = Made(t, sample, 0).layout
                 <=> RightRows(began)
    <3>1. /\ MadeWith(t, began).layout = [u \in Tables |-> began[u].rows]
          /\ Made(t, sample, 0).layout = [u \in Tables |-> Rows(u)]
      BY <1>2, <1>3
    <3> QED
      BY <1>4, <3>1, Zenon
  <2> QED
    BY <2>1, <2>2, Zenon
<1> QED
  BY <1>5 DEF Fits, Tables

\* A build that began with a program not hooked, or none, hooks all of it; its
\* tables are its own exactly when those it began with had the right lengths.
THEOREM FitsWhenLayoutStays == Spec => []FitsIfLayoutStays
<1>1. IInv => FitsIfLayoutStays
  <2>1. SUFFICES ASSUME IInv, Ended, fresh
                 PROVE  /\ sample.hooked = Len(Text)
                        /\ Fits <=> \A t \in Tables : began[t].rows = Right(t)
    BY DEF FitsIfLayoutStays
  <2>2. /\ sample.tables \in [Tables -> Table] /\ settled \in Nat
        /\ pc = "idle" /\ settled > 0
    BY <2>1 DEF IInv, Types, Ended
  <2>3. /\ sample.hooked = Len(Text) /\ began \in [Tables -> Table]
        /\ \A t \in Tables : sample.tables[t] = MadeWith(t, began)
    BY <2>1, <2>2 DEF IInv, Settled
  <2>4. Fits <=> RightRows(began)
    BY <2>2, <2>3, FitsIffRight
  <2>5. \A t \in Tables : Right(t) = Rows(t)
    BY DEF Right, Made, Rows
  <2> QED
    BY <2>3, <2>4, <2>5 DEF RightRows
<1> QED
  BY <1>1, Invariant, PTL

\* Three builds in a row that get to the end leave a program whose tables are
\* its own, whatever was stopped before.
THEOREM ThreeBuildsSuffice == Spec => []ThirdBuildFits
<1>1. IInv => ThirdBuildFits
  <2>1. SUFFICES ASSUME IInv, Ended, settled >= 3
                 PROVE  Fits
    BY DEF ThirdBuildFits
  <2>2. /\ sample.tables \in [Tables -> Table] /\ settled \in Nat
        /\ pc = "idle"
    BY <2>1 DEF IInv, Types, Ended
  <2>3. /\ fresh /\ RightRows(began) /\ began \in [Tables -> Table]
        /\ \A t \in Tables : sample.tables[t] = MadeWith(t, began)
    BY <2>1, <2>2 DEF IInv, Settled
  <2> QED
    BY <2>2, <2>3, FitsIffRight
<1> QED
  BY <1>1, Invariant, PTL
=============================================================================
