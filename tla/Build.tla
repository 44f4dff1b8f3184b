------------------------------- MODULE Build --------------------------------
(***************************************************************************)
(* `make all`: compile and link, hook the program, which gives the tables, *)
(* link again with them, hook again, remove the objects.  hookit writes    *)
(* into the program in place; a build may end between any two steps, and   *)
(* the next one goes on from the files it finds.                           *)
(*                                                                         *)
(* The text is the sequence of its calls and exits.  Its words hold        *)
(* addresses of data, which depend on how long the tables linked into the  *)
(* program are: a table is right only for a text with the same layout.     *)
(***************************************************************************)
EXTENDS Integers, Sequences, FiniteSets

CONSTANTS Text,      \* "call" or "exit"
          OldTables, \* what the tables may be before the first build
          MaxBuilds,
          Broken     \* a file of which a part is written

Tables == {"btbl", "ftbl", "fdtbl"}

\* A table: its length, the layout of the program it was made of, and how much
\* of that was hooked already.
Table == [rows : Nat, layout : [Tables -> Nat], seen : 0..Len(Text)]

ASSUME BuildAssumption ==
  /\ Text \in Seq({"call", "exit"}) /\ Len(Text) > 0
  /\ OldTables \subseteq Table
  /\ Broken \notin Table

VARIABLES pc,
          pass,    \* first or second run of hookit
          file,    \* tables, as source files
          object,  \* tables, as object files: Broken if there is none
          newer,   \* files newer than their objects
          sample,  \* the program: tables linked in, statements hooked
          relink,  \* there is no program, or an object newer than it
          seen,    \* statements hooked when hookit was started
          builds,  \* builds started
          settled, \* builds that got to the end since one did not
          fresh,   \* the build began with a program not hooked, or none
          began    \* the tables it began with

vars == <<pc, pass, file, object, newer, sample, relink, seen, builds, settled, fresh, began>>

Init ==
  /\ pc = "idle" /\ pass = 1
  /\ file \in [Tables -> OldTables]
  /\ object = [t \in Tables |-> Broken]
  /\ newer = Tables
  /\ sample = [tables |-> file, hooked |-> 0]
  /\ relink = TRUE
  /\ seen = 0 /\ builds = 0 /\ settled = 0 /\ fresh = TRUE
  /\ began = file

\* Where data lies in a program.
Layout(p) == [t \in Tables |-> p.tables[t].rows]

Calls(n) == {j \in 1..Len(Text) : Text[j] = "call" \/ j <= n}
Exits(n) == {j \in 1..Len(Text) : Text[j] = "exit" /\ j > n}

\* The table hookit makes of a program whose first n statements are hooked
\* already: a branch to a hook is a call.
Made(t, p, n) ==
  [rows   |-> Cardinality(IF t = "fdtbl" THEN Exits(n) ELSE Calls(n)),
   layout |-> Layout(p),
   seen   |-> n]

-----------------------------------------------------------------------------
Make ==
  /\ pc = "idle" /\ builds < MaxBuilds
  /\ pc' = "compile" /\ pass' = 1
  /\ builds' = builds + 1
  /\ fresh' = (relink \/ newer # {} \/ sample.hooked = 0)
  /\ began' = file
  /\ UNCHANGED <<file, object, newer, sample, relink, seen, settled>>

\* %.o: %.c.  A broken file does not compile, and make gives up.
Compile(t) ==
  /\ pc = "compile" /\ t \in newer
  /\ IF file[t] = Broken
     THEN pc' = "idle" /\ settled' = 0 /\ UNCHANGED <<object, newer, relink>>
     ELSE /\ object' = [object EXCEPT ![t] = file[t]]
          /\ newer' = newer \ {t}
          /\ relink' = TRUE
          /\ UNCHANGED <<pc, settled>>
  /\ UNCHANGED <<pass, file, sample, seen, builds, fresh, began>>

\* Mutant: the program is linked once and not again.
OutOfDateOnce == relink /\ pass = 1

OutOfDate == relink

\* $(BINARY): $(OBJS), and the start of hookit.
Link ==
  /\ pc = "compile" /\ newer = {}
  /\ IF OutOfDate
     THEN sample' = [tables |-> object, hooked |-> 0] /\ relink' = FALSE
     ELSE UNCHANGED <<sample, relink>>
  /\ seen' = sample'.hooked
  /\ pc' = "hook"
  /\ UNCHANGED <<pass, file, object, newer, builds, settled, fresh, began>>

\* write_back: one statement after the other.
write_back ==
  /\ pc = "hook" /\ sample.hooked < Len(Text)
  /\ sample' = [sample EXCEPT !.hooked = @ + 1]
  /\ UNCHANGED <<pc, pass, file, object, newer, relink, seen, builds, settled, fresh, began>>

\* Mutant: without --create-branch-table.
HookitSweptNoBranches ==
  /\ pc = "hook" /\ sample.hooked = Len(Text)
  /\ pc' = "ftbl"
  /\ UNCHANGED <<pass, file, object, newer, sample, relink, seen, builds, settled, fresh, began>>

HookitSwept ==
  /\ pc = "hook" /\ sample.hooked = Len(Text)
  /\ pc' = IF pass = 1 THEN "btbl" ELSE "ftbl"
  /\ UNCHANGED <<pass, file, object, newer, sample, relink, seen, builds, settled, fresh, began>>

\* write_branch_table when asked for, the other tables always.
After == [btbl |-> "ftbl", ftbl |-> "fdtbl", fdtbl |-> IF pass = 1 THEN "compile" ELSE "clean"]

WriteTable(t) ==
  /\ pc = t
  /\ file' = [file EXCEPT ![t] = Made(t, sample, seen)]
  /\ newer' = newer \cup {t}
  /\ pc' = After[t]
  /\ pass' = IF t = "fdtbl" THEN 2 ELSE pass
  /\ UNCHANGED <<object, sample, relink, seen, builds, settled, fresh, began>>

clean_obj ==
  /\ pc = "clean"
  /\ object' = [t \in Tables |-> Broken]
  /\ newer' = Tables
  /\ pc' = "idle"
  /\ settled' = settled + 1
  /\ UNCHANGED <<pass, file, sample, relink, seen, builds, fresh, began>>

\* The build is stopped, in the middle of a table perhaps.
Stop ==
  /\ pc # "idle"
  /\ \/ UNCHANGED <<file, newer>>
     \/ /\ pc \in Tables
        /\ file' = [file EXCEPT ![pc] = Broken]
        /\ newer' = newer \cup {pc}
  /\ pc' = "idle" /\ settled' = 0
  /\ UNCHANGED <<pass, object, sample, relink, seen, builds, fresh, began>>

\* A broken table is replaced by an older one, from version control.
Restore(t) ==
  /\ pc = "idle" /\ file[t] = Broken
  /\ \E c \in OldTables : file' = [file EXCEPT ![t] = c]
  /\ UNCHANGED <<pc, pass, object, newer, sample, relink, seen, builds, settled, fresh, began>>

Next ==
  \/ Make \/ Link \/ write_back \/ HookitSwept \/ clean_obj \/ Stop
  \/ \E t \in Tables : Compile(t) \/ WriteTable(t) \/ Restore(t)

Spec == Init /\ [][Next]_vars

-----------------------------------------------------------------------------
\* The length a table has when it is made of a program without hooks.
Right(t) == Made(t, sample, 0).rows

Ended == pc = "idle" /\ settled > 0

\* The tables in the program are those of its text, before it was hooked.
Fits == \A t \in Tables : sample.tables[t] = Made(t, sample, 0)

\* A build leaves a program that is hooked throughout, and whose tables are
\* its own exactly if those it began with had the right lengths: the program
\* the tables are made of is not the one they are linked into.
FitsIfLayoutStays ==
  Ended /\ fresh =>
    /\ sample.hooked = Len(Text)
    /\ Fits <=> \A t \in Tables : began[t].rows = Right(t)

\* Whatever went before, stopped builds included, three builds in a row that
\* get to the end are enough: one to be rid of the hooks, one to be rid of the
\* wrong lengths, one whose first link has the right layout.
ThirdBuildFits == Ended /\ settled >= 3 => Fits
=============================================================================
