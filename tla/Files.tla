------------------------------- MODULE Files --------------------------------
(***************************************************************************)
(* The commands of the main command list that change which files are in    *)
(* memory, or copy them to the workset: READ, DATAGEN, FUNCGEN, WRITE,     *)
(* SORT, DELETECHANNEL, CUTIM and READERR, each from its call to its       *)
(* return.                                                                 *)
(*                                                                         *)
(* A file list is what becomes of each file named in it: "ok", "bad" (it   *)
(* exists and cannot be read) or "missing".                                *)
(***************************************************************************)
EXTENDS Memory

CONSTANTS Lists,        \* file lists given to READ
          Samples,      \* ... and to DATAGEN
          Generated,    \* numbers of files FUNCGEN is asked for
          Deletions,    \* sequences of file numbers given to DELETECHANNEL
          DeletedNames, \* sequences of names given to it
          Cuts,         \* numbers of windows given to CUTIM
          CutsFail,     \* may a cut fail?
          SeismogramNamed  \* does the name of FUNCGEN's sample file fit?

ASSUME ListsAssumption ==
  Lists \cup Samples \subseteq Seq({"ok", "bad", "missing"})
ASSUME InputsAssumption ==
  /\ Generated \subseteq Nat /\ Cuts \subseteq Nat
  /\ CutsFail \in BOOLEAN /\ SeismogramNamed \in BOOLEAN
  /\ Deletions \subseteq Seq(Nat \ {0}) /\ DeletedNames \subseteq Seq(Names)

VARIABLE kecmem     \* READERR MEMORY: "SAVE" or "DELETE"

FilesTypeOK == kecmem \in {"SAVE", "DELETE"}
FilesInit   == kecmem = "SAVE"

-----------------------------------------------------------------------------
(* READ and DATAGEN.                                                       *)

\* MORE counts only when there are files in memory.
More(more)    == more /\ mem # <<>>
Good(list)    == Cardinality({i \in DOMAIN list : list[i] = "ok"})
Exists(list)  == \E i \in DOMAIN list : list[i] # "missing"
Kept(more)    == IF More(more) THEN mem ELSE <<>>

ReadFails(list, more) == ~Exists(list) \/ (~More(more) /\ Good(list) = 0)

\* Before READ MORE the files in memory are committed (alignFiles).
Aligned(more) == IF More(more) THEN Committed(mem, rows) ELSE rows

\* lfilesok finds none of the files.
NoneExists(more) ==
  Settle(IF kecmem = "DELETE" THEN <<>> ELSE mem,
         IF More(more) THEN Last(mem) ELSE current, Aligned(more))

\* One exists: without MORE the memory is cleared, those that can be read are
\* appended, and setrng goes through all of them.
ReadThem(list, more) ==
  /\ Len(Kept(more)) + Good(list) <= MaxFiles
  /\ \E new \in Allocated(Good(list)) :
       LET m == Kept(more) \o new
           r == IF ReadFails(list, more) THEN rows     \* not told
                ELSE IF More(more) THEN Committed(m, Aligned(more)) ELSE m
       IN  Settle(m, LastUsed(m, current), r)

ReadFiles(list, more) ==
  /\ IF Exists(list) THEN ReadThem(list, more) ELSE NoneExists(more)
  /\ UNCHANGED kecmem

Read(list, more) ==
  /\ ReadFiles(list, more)
  /\ Fails(ReadFails(list, more))

\* READERR MEMORY
Readerr(memory) == /\ kecmem' = memory /\ nerr' = 0
                   /\ UNCHANGED memvars

-----------------------------------------------------------------------------
\* The memory is cleared; the new files make a new workset.  There are none
\* when RANDOM is asked for less than one, or the sample file cannot be read.
Generate(n) ==
  /\ n <= MaxFiles
  /\ \E new \in Allocated(n) : Settle(new, LastUsed(new, current), new)
  /\ nerr' = 0

\* The sample file's name is too long: the memory has been cleared by then,
\* and the workset is not told.
NotGenerated == ~SeismogramNamed /\ Settle(<<>>, current, rows) /\ nerr' = 1

\* FUNCGEN: an option it refuses, or a function of its own or the sample.
Funcgen(n) ==
  /\ UNCHANGED kecmem
  /\ \/ nerr' = 1 /\ UNCHANGED memvars
     \/ Generate(n)
     \/ NotGenerated

\* WRITE: too many names, or too few, or all files are committed and written
\* until one cannot be.
Write ==
  /\ UNCHANGED kecmem
  /\ \/ /\ nerr' = 1 /\ UNCHANGED memvars
     \/ /\ mem # <<>>
        /\ \E last \in DOMAIN mem :
             /\ Settle(mem, mem[last], Committed(mem, rows))
             /\ nerr' = 1 \/ (nerr' = 0 /\ last = Len(mem))

\* SORT: by header variables, which are not told apart.  No file is used.
Sort ==
  \/ /\ \E m \in Reorderings(mem) : Settle(m, current, rows)
     /\ nerr' = 0 /\ UNCHANGED kecmem
  \/ /\ nerr' = 1 /\ UNCHANGED <<memvars, kecmem>>

-----------------------------------------------------------------------------
(* DELETECHANNEL.                                                          *)

\* Mutant: no file is made the current one.
DeletedNoCurrent(positions) ==
  Settle(Remaining(positions),
         IF current \in ToSet(Remaining(positions)) THEN current
         ELSE IF current \in ToSet(mem) THEN Null ELSE current,
         RowsRemaining(positions))

\* The first file that is left becomes the current one.
Deleted(positions) ==
  LET m == Remaining(positions)
  IN  Settle(m, IF m # <<>> THEN Head(m)
                ELSE IF current \in ToSet(mem) THEN Null ELSE current,
             RowsRemaining(positions))

DeleteNumbers(numbers) ==
  /\ IF ToSet(numbers) \subseteq DOMAIN mem
     THEN Deleted(numbers) /\ nerr' = 0
     ELSE UNCHANGED memvars /\ nerr' = 1
  /\ UNCHANGED kecmem

\* The search for a name that is not there ends at the last file.
DeleteNames(names) ==
  /\ IF \A i \in DOMAIN names : Matching(names[i]) # {}
     THEN Deleted([i \in DOMAIN names |-> Position(names[i])]) /\ nerr' = 0
     ELSE Settle(mem, LastUsed(mem, current), rows) /\ nerr' = 1
  /\ UNCHANGED kecmem

\* ALL: the workset goes too.
DeleteAll == /\ Settle(<<>>, current, NoRows)
             /\ nerr' = 0 /\ UNCHANGED kecmem

-----------------------------------------------------------------------------
\* CUTIM refuses a file that is no time series, an empty memory, or a reference
\* point it does not know.
CutRefused ==
  /\ \/ \E i \in DOMAIN mem :
          /\ ~header[mem[i]].even /\ \A j \in 1..(i - 1) : header[mem[j]].even
          /\ Settle(mem, mem[i], rows)
     \/ /\ \A i \in DOMAIN mem : header[mem[i]].even
        /\ Settle(mem, LastUsed(mem, current), rows)
  /\ nerr' = 1

\* Every file is taken out of memory, and what each window cuts of each file is
\* put in, until a cut fails.  The workset is not told.
Cut(windows) ==
  /\ mem # <<>> /\ \A i \in DOMAIN mem : header[mem[i]].even
  /\ LET all == windows * Len(mem)
     IN  \E n \in 0..all :
           /\ n <= MaxFiles /\ (n = all \/ CutsFail)
           /\ \E new \in Allocated(n) : Settle(new, LastUsed(new, Elsewhere), rows)
           /\ Fails(n < all)

Cutim(windows) == UNCHANGED kecmem /\ (CutRefused \/ Cut(windows))
=============================================================================
