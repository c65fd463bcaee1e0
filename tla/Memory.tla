------------------------------- MODULE Memory -------------------------------
(***************************************************************************)
(* The data files in memory: the list that bs/iniam.c keeps (sac_buffer),  *)
(* the pointer to the file that was used last (CURRENT), and the copy of   *)
(* the list that the SeisMgr workset keeps, one row for each file.         *)
(*                                                                         *)
(* The three are tied together by position and by pointer only.  A row is  *)
(* found by the position of its file in the list, and no command that      *)
(* removes or moves files is obliged to tell the workset; CURRENT may      *)
(* outlive the file it points to.                                          *)
(*                                                                         *)
(* A file stands for the memory it was read into.  A pointer to, or a row  *)
(* of, a file that has left the list is said to be Elsewhere, so that the  *)
(* same file can stand for memory allocated later.                         *)
(***************************************************************************)
EXTENDS Integers, SequencesExt

CONSTANTS Files,      \* what memory can be allocated for
          header,     \* the header of each: its name, its interval (delta)
                      \* and whether it is an evenly spaced time series
          Names,      \* the names a user can type
          Begins,     \* <<a, b>> : b begins with the letters of a
          MaxFiles,   \* bound: files in memory at a time
          Null, Elsewhere, NoRows, Unset

Deltas == 1..2

ASSUME HeaderAssumption ==
         header \in [Files -> [name : Names, delta : Deltas, even : BOOLEAN]]
ASSUME NamesAssumption    == Begins \subseteq Names \X Names
ASSUME MaxFilesAssumption == MaxFiles \in Nat
ASSUME NoFileAssumption   == Null # Elsewhere /\ Files \cap {Null, Elsewhere} = {}

VARIABLES mem,       \* sac_buffer
          current,   \* CURRENT
          rows,      \* the workset's rows: of which file each one is
          nerr       \* 0, or 1 for an error: how the last command ended

Pointers == Files \cup {Null, Elsewhere}

MemoryTypeOK ==
  /\ mem \in Seq(Files) /\ Len(mem) <= MaxFiles /\ IsInjective(mem)
  /\ current \in Pointers
  /\ rows = NoRows \/ rows \in Seq(Files \cup {Elsewhere})
  /\ nerr \in {0, 1}

MemoryInit == mem = <<>> /\ current = Null /\ rows = NoRows /\ nerr = 0

memvars == <<mem, current, rows>>

\* How a command ends.
Fails(failed) == nerr' = IF failed THEN 1 ELSE 0

-----------------------------------------------------------------------------
(* The list becomes m; CURRENT is set to c and the rows to r before what   *)
(* they point to is freed.                                                 *)

Pointer(c, m) == IF c \in ToSet(m) \cup {Null} THEN c ELSE Elsewhere

Settle(m, c, r) ==
  /\ mem' = m
  /\ current' = Pointer(c, m)
  /\ rows' = IF r = NoRows THEN r
             ELSE [i \in DOMAIN r |-> IF r[i] \in ToSet(m) THEN r[i] ELSE Elsewhere]

\* What a loop with sacget over the whole list leaves in CURRENT.
LastUsed(m, c) == IF m = <<>> THEN c ELSE Last(m)

\* The same elements in another order.
Reorderings(s) == {[i \in DOMAIN s |-> s[p[i]]] : p \in Bijection(DOMAIN s, DOMAIN s)}

\* Mutant: two files may share what was allocated.
AllocatedTwice(n) == [1..n -> Files \ ToSet(mem)]

\* n files that memory is allocated for, in any order.
Allocated(n) == {s \in [1..n -> Files \ ToSet(mem)] : IsInjective(s)}

\* sacToSeisMgr(FALSE, ..): row i is overwritten by file i, or made for it.
\* Without a workset one is made.
Committed(m, r) ==
  IF r = NoRows \/ Len(r) <= Len(m) THEN m
  ELSE m \o SubSeq(r, Len(m) + 1, Len(r))

\* dblDeleteWfdiscs: the rows go one by one; it stops at one that is not there.
RowsDeleted(r, positions) ==
  LET delete(state, i) == IF state.stopped \/ i > Len(state.r)
                          THEN [state EXCEPT !.stopped = TRUE]
                          ELSE [state EXCEPT !.r = RemoveAt(@, i)]
  IN  IF r = NoRows THEN r
      ELSE FoldLeft(delete, [r |-> r, stopped |-> FALSE], positions).r

\* sac_find_filename: the first file whose name the one given begins with.
Matching(name) == {i \in DOMAIN mem : <<header[mem[i]].name, name>> \in Begins}

Position(name) == CHOOSE i \in Matching(name) : \A j \in Matching(name) : i <= j

-----------------------------------------------------------------------------
(* Deleting files by position, for DELETECHANNEL and DELETESTACK.          *)

\* Mutant: the order they are named in.
InOrderNamed(positions) == positions

InDecreasingOrder(positions) ==
  CHOOSE s \in Reorderings(positions) : IsSorted(s, >=)

\* sacdel for each one, a position named twice once.
Remaining(positions) ==
  LET sorted == InDecreasingOrder(positions)
      delete(m, i) == IF i > 1 /\ sorted[i] = sorted[i - 1] THEN m
                      ELSE RemoveAt(m, sorted[i])
  IN  FoldLeft(delete, mem, [i \in DOMAIN sorted |-> i])

\* Mutant: the workset is not told.
RowsStay(positions) == rows

RowsRemaining(positions) == RowsDeleted(rows, InDecreasingOrder(positions))
=============================================================================
