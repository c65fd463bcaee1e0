--------------------------- MODULE SessionMeaning ---------------------------
(***************************************************************************)
(* What a session over the data in memory is to keep true.                 *)
(***************************************************************************)
EXTENDS Session

-----------------------------------------------------------------------------
(* Memory and what shadows it.                                             *)

(* Committing the files in memory makes the workset a copy of them: there  *)
(* is no row left of a file that is gone, to be written after the others   *)
(* by the formats that write the workset.                                  *)
CommitsAgree == mem # <<>> => Committed(mem, rows) = mem

(* The current file, whose header expressions refer to, is one of the      *)
(* files in memory.                                                        *)
CurrentInMemory == mem # <<>> => current \in ToSet(mem)

(* READERR MEMORY SAVE: "files previously in memory are to remain in       *)
(* memory" when none of the files given to READ could be read.             *)
SaveKeepsFiles ==
  [][comlist = "main" /\ kecmem = "SAVE" =>
       \A list \in Lists : Read(list, FALSE) /\ Good(list) = 0 => mem' = mem]_vars

(* ... and as long as the user says nothing, READERR MEMORY is DELETE: the *)
(* files in memory are deleted then.                                       *)
DefaultDeletesFiles ==
  [][comlist = "main" /\ MemoryActions = {} =>
       \A list \in Lists : Read(list, FALSE) /\ Good(list) = 0 => mem' = <<>>]_vars

(* After a deletion by numbers the files that were not named are in memory *)
(* in their order, and those named are not: each number means the file it  *)
(* had when the command was typed, in whatever order and how often it is   *)
(* given.                                                                  *)
Others(numbers) ==
  LET named == ToSet(numbers)
      keep(m, i) == IF i \in named THEN m ELSE Append(m, mem[i])
  IN  FoldLeft(keep, <<>>, [i \in DOMAIN mem |-> i])

DeletesTheNamed ==
  [][/\ comlist = "main" =>
          \A numbers \in Deletions : DeleteNumbers(numbers) /\ nerr' = 0 => mem' = Others(numbers)
     /\ comlist = "sss" =>
          \A numbers \in StackDeletions : Deletestack(numbers) /\ nerr' = 0 => mem' = Others(numbers)]_vars

-----------------------------------------------------------------------------
(* The stack.                                                              *)

(* The properties found at a file's position are those the file was given, *)
(* whatever other files were added, deleted and summed since.              *)
PropertiesFollowFiles ==
  comlist = "sss" =>
    \A i \in DOMAIN mem : given[mem[i]] # Unset => slot[i] = given[mem[i]]

(* The sum is as long as its length says, which WRITESTACK goes by.        *)
SumAllocated == sum = nlnsum

-----------------------------------------------------------------------------
(* The spectral estimate.                                                  *)

(* Where the flags say that a result is there, it has been computed since  *)
(* its array was allocated.                                                *)
ResultsComputed ==
  comlist = "spe" => /\ lcor => specor # NotComputed
                     /\ lspe => spespe # NotComputed

(* The estimate that is plotted and written is one of the correlation that *)
(* is there, when both are.                                                *)
SpectrumOfCorrelation ==
  comlist = "spe" /\ lcor /\ lspe => /\ spespe.of = specor.of
                                     /\ spespe.whitened = specor.whitened

(* It is plotted under the name of the method it was computed by.          *)
LabelTrue == comlist = "spe" /\ lspe => kpspl1 = spespe.method

(* The file that COR works on is in memory, and the only one there.        *)
SpeFile == comlist = "spe" /\ lfile => mem = <<spe>>

(* "The effect of the filter is compensated for in the calculation of the  *)
(* spectrum": an estimate is corrected for every filter its data have been *)
(* through, and for no other.                                              *)
WhiteningCompensated == comlist = "spe" /\ lspe => spespe.corrected = spespe.whitened
=============================================================================
