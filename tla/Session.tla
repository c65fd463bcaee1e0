------------------------------- MODULE Session ------------------------------
(***************************************************************************)
(* A session over the data in memory: the commands of the main program and *)
(* of the two subprocesses that keep state of their own about the files.   *)
(* A step is one command, typed or in a macro, from its call to its        *)
(* return.                                                                 *)
(*                                                                         *)
(* Memory, CURRENT and the workset are shared by all of them, and so is    *)
(* READ; each command list says which commands there are.                  *)
(***************************************************************************)
EXTENDS Stack, Spe

CONSTANTS Subprocesses,  \* those the user enters
          MemoryActions  \* settings given to READERR MEMORY

ASSUME SessionAssumption == /\ Subprocesses \subseteq {"sss", "spe"}
                            /\ MemoryActions \subseteq {"SAVE", "DELETE"}

VARIABLE comlist      \* setcomlist: "main", "sss" or "spe"

vars == <<comlist, memvars, nerr, kecmem, sssvars, spevars>>

TypeOK == /\ comlist \in {"main"} \cup Subprocesses
          /\ MemoryTypeOK /\ FilesTypeOK /\ StackTypeOK /\ SpeTypeOK

Init == /\ comlist = "main"
        /\ MemoryInit /\ FilesInit /\ StackInit /\ SpeInit

-----------------------------------------------------------------------------
MainCommand ==
  \/ \E list \in Lists, more \in BOOLEAN : Read(list, more)
  \/ \E list \in Samples, more \in BOOLEAN : Read(list, more)
  \/ \E number \in Generated : Funcgen(number)
  \/ \E numbers \in Deletions : DeleteNumbers(numbers)
  \/ \E names \in DeletedNames : DeleteNames(names)
  \/ \E windows \in Cuts : Cutim(windows)
  \/ \E memory \in MemoryActions : Readerr(memory)
  \/ DeleteAll
  \/ Write
  \/ Sort

Main == comlist = "main" /\ MainCommand /\ UNCHANGED <<comlist, sssvars, spevars>>

\* The command list is changed before the files are looked at.
Stacking ==
  /\ comlist = "main" /\ "sss" \in Subprocesses
  /\ EnterSSS /\ comlist' = "sss"
  /\ UNCHANGED <<kecmem, spevars>>

StackStep ==
  /\ comlist = "sss"
  /\ \/ StackCommand /\ UNCHANGED comlist
     \/ LeaveSSS /\ comlist' = "main"
  /\ UNCHANGED <<kecmem, spevars>>

\* ... and here it is changed only for a file that will do.
Spectra ==
  /\ comlist = "main" /\ "spe" \in Subprocesses
  /\ EnterSPE
  /\ comlist' = IF Accepted THEN "spe" ELSE comlist
  /\ UNCHANGED <<kecmem, sssvars>>

SpectralStep ==
  /\ comlist = "spe"
  /\ \/ SpectralCommand /\ UNCHANGED <<comlist, kecmem>>
     \/ /\ \/ \E list \in Lists, more \in BOOLEAN : ReadSPE(list, more)
           \/ \E list \in Samples, more \in BOOLEAN : DatagenSPE(list, more)
        /\ UNCHANGED comlist
     \/ /\ LeaveSPE /\ comlist' = "main"
        /\ UNCHANGED <<memvars, kecmem>>
  /\ UNCHANGED sssvars

Next == Main \/ Stacking \/ StackStep \/ Spectra \/ SpectralStep

Spec == Init /\ [][Next]_vars
=============================================================================
