------------------------------- MODULE Stack --------------------------------
(***************************************************************************)
(* The signal stacking subprocess (sss/).  Its stack file list is the list *)
(* of files in memory, and the properties of file i are in the i-th slots  *)
(* of arrays of cmsss.  A property stands for the seven that every file    *)
(* has; its increment is what INCREMENTSTACK adds to it.                   *)
(***************************************************************************)
EXTENDS Memory

CONSTANTS Properties,   \* property values given to files, or as global ones
          OnDisk,       \* files ADDSTACK finds on disk
          StackDeletions, \* sequences of file numbers given to DELETESTACK
          Checks,       \* settings given to DELTACHECK
          Windows,      \* lengths of the stack window
          MaxDelay      \* bound: how far delays are incremented

ASSUME PropertiesAssumption ==
  /\ MaxDelay \in Nat
  /\ Properties \subseteq [delay : 0..MaxDelay, incr : 0..1]
ASSUME StackAssumption ==
  /\ OnDisk \subseteq Files /\ Checks \subseteq BOOLEAN
  /\ StackDeletions \subseteq Seq(Nat \ {0}) /\ Windows \subseteq Nat \ {0}

VARIABLES slot,      \* the arrays of cmsss
          global,    \* the global properties
          del,       \* the sampling interval of the stack; 0 at first
          lsrc,      \* are sampling rates checked?
          twlim,     \* the length of the stack window; 0 if none is defined
          sum,       \* sss_sum: the length it was allocated with; 0 for none
          nlnsum,    \* the length it is used with
          given      \* history: the property each file was given

sssvars == <<slot, global, del, lsrc, twlim, sum, nlnsum, given>>

Zero    == [delay |-> 0, incr |-> 0]
Values  == [delay : 0..MaxDelay, incr : 0..1]
Slots   == 1..MaxFiles

StackTypeOK ==
  /\ slot \in [Slots -> Values] /\ global \in Values
  /\ del \in Deltas \cup {0} /\ lsrc \in BOOLEAN /\ twlim \in Windows \cup {0}
  /\ sum \in Nat /\ nlnsum \in Nat
  /\ given \in [Files -> Values \cup {Unset}]

StackInit == /\ slot = [i \in Slots |-> Zero] /\ global = Zero
             /\ del = 0 /\ lsrc = TRUE /\ twlim = 0
             /\ sum = 0 /\ nlnsum = 0
             /\ given = [f \in Files |-> Unset]

\* The history is kept for the files in the stack.
GivenKept == given' = [f \in Files |-> IF f \in ToSet(mem') THEN given[f] ELSE Unset]

-----------------------------------------------------------------------------
(* SSS: the files in memory become the stack, until one does not fit.      *)

Uneven(f)     == ~header[f].even
Differs(f, d) == lsrc /\ header[f].delta # d

\* The first file that is refused, or one more than there are.
FirstRefused ==
  LET refused == {i \in DOMAIN mem : \/ Uneven(mem[i])
                                     \/ i > 1 /\ Differs(mem[i], header[mem[1]].delta)}
  IN  CHOOSE i \in refused \cup {Len(mem) + 1} : \A j \in refused : i <= j

\* Mutant: the slots are left to what they were.
SlotsLeft(first) == slot

SlotsGlobal(first) == [i \in Slots |-> IF i < first THEN global ELSE slot[i]]

\* xsss.  The files after the one that is refused get no properties.
EnterSSS ==
  LET first == FirstRefused
  IN  /\ slot' = SlotsGlobal(first)
      /\ given' = [f \in Files |-> IF \E i \in 1..(first - 1) : mem[i] = f
                                   THEN global ELSE Unset]
      /\ del' = IF first > 1 /\ mem # <<>> THEN header[mem[1]].delta ELSE del
      /\ Settle(mem, IF first > Len(mem) THEN LastUsed(mem, current) ELSE mem[first], rows)
      /\ Fails(first <= Len(mem))
      /\ UNCHANGED <<global, lsrc, twlim, sum, nlnsum>>

\* QUITSUB
LeaveSSS ==
  /\ sum' = IF nlnsum > 0 THEN 0 ELSE sum
  /\ nlnsum' = 0 /\ nerr' = 0
  /\ given' = [f \in Files |-> Unset]
  /\ UNCHANGED <<slot, global, del, lsrc, twlim, memvars>>

-----------------------------------------------------------------------------
(* The stack file list.                                                    *)

end == Len(mem) + 1

AddMissing(property) ==
  /\ end <= MaxFiles
  /\ slot' = [slot EXCEPT ![end] = property]
  /\ nerr' = 1
  /\ UNCHANGED <<global, del, lsrc, twlim, sum, nlnsum, given, memvars>>

\* A file that is refused stays in memory; the workset is not told of it.
AddFile(f, property) ==
  LET refused == Uneven(f) \/ (end > 1 /\ Differs(f, del))
  IN  /\ end <= MaxFiles /\ f \notin ToSet(mem)
      /\ slot' = [slot EXCEPT ![end] = property]
      /\ given' = [given EXCEPT ![f] = property]
      /\ Settle(Append(mem, f), f, IF refused THEN rows ELSE Append(mem, f))
      /\ del' = IF ~refused /\ end = 1 THEN header[f].delta ELSE del
      /\ Fails(refused)
      /\ UNCHANGED <<global, lsrc, twlim, sum, nlnsum>>

\* The global property holds for what the command does not say.
Addstack(property) == AddMissing(property) \/ \E f \in OnDisk : AddFile(f, property)

\* After each deletion the slots above it move down, for as many files as are left.
SlotsMoved(positions) ==
  LET sorted == InDecreasingOrder(positions)
      delete(state, i) ==
        IF i > 1 /\ sorted[i] = sorted[i - 1] THEN state
        ELSE [len  |-> state.len - 1,
              slot |-> [j \in Slots |-> IF j \in sorted[i]..(state.len - 2)
                                        THEN state.slot[j + 1] ELSE state.slot[j]]]
  IN  FoldLeft(delete, [len |-> Len(mem), slot |-> slot], [i \in DOMAIN sorted |-> i]).slot

\* No file becomes current when the current one is deleted.
Deletestack(numbers) ==
  /\ IF ToSet(numbers) \subseteq DOMAIN mem
     THEN /\ Settle(Remaining(numbers),
                    IF current \in ToSet(mem) \ ToSet(Remaining(numbers)) THEN Null ELSE current,
                    RowsRemaining(numbers))
          /\ slot' = SlotsMoved(numbers)
          /\ nerr' = 0
     ELSE UNCHANGED <<slot, memvars>> /\ nerr' = 1
  /\ GivenKept
  /\ UNCHANGED <<global, del, lsrc, twlim, sum, nlnsum>>

Changestack(number, property) ==
  /\ IF number \in DOMAIN mem
     THEN /\ slot' = [slot EXCEPT ![number] = property]
          /\ given' = [given EXCEPT ![mem[number]] = property]
          /\ nerr' = 0
     ELSE UNCHANGED <<slot, given>> /\ nerr' = 1
  /\ UNCHANGED <<global, del, lsrc, twlim, sum, nlnsum, memvars>>

Globalstack(property) ==
  /\ global' = property /\ nerr' = 0
  /\ UNCHANGED <<slot, del, lsrc, twlim, sum, nlnsum, given, memvars>>

Incremented(p) == IF p = Unset THEN p ELSE [p EXCEPT !.delay = @ + p.incr]

Incrementstack ==
  /\ \A i \in DOMAIN mem : slot[i].delay + slot[i].incr <= MaxDelay
  /\ \A f \in Files : given[f] # Unset => given[f].delay + given[f].incr <= MaxDelay
  /\ slot' = [i \in Slots |-> IF i \in DOMAIN mem THEN Incremented(slot[i]) ELSE slot[i]]
  /\ given' = [f \in Files |-> Incremented(given[f])]
  /\ nerr' = 0
  /\ UNCHANGED <<global, del, lsrc, twlim, sum, nlnsum, memvars>>

\* Mutant: the length of the sum stays.
SumFreed == sum' = 0 /\ UNCHANGED nlnsum

SumReleased == sum' = 0 /\ nlnsum' = IF sum = 0 THEN nlnsum ELSE 0

Zerostack ==
  /\ global' = Zero
  /\ SumReleased
  /\ Settle(<<>>, current, NoRows)
  /\ GivenKept
  /\ nerr' = 0
  /\ UNCHANGED <<slot, del, lsrc, twlim>>

-----------------------------------------------------------------------------
(* The summation.                                                          *)

Deltacheck(on) == /\ lsrc' = on /\ nerr' = 0
                  /\ UNCHANGED <<slot, global, del, twlim, sum, nlnsum, given, memvars>>

Timewindow(length) == /\ twlim' = length /\ nerr' = 0
                      /\ UNCHANGED <<slot, global, del, lsrc, sum, nlnsum, given, memvars>>

\* No window, or no graphics device to plot the sum on.
SumRefused == /\ nerr' = 1
              /\ UNCHANGED <<sssvars, memvars>>

\* A new block if the length changes, filled with zeros.  The files are used in
\* turn, unless the velocity model has no solution.
SumFiles ==
  /\ twlim > 0 /\ del \in Deltas
  /\ LET length == twlim \div del + 1
     IN  /\ nlnsum' = length
         /\ sum' = IF nlnsum = length THEN sum ELSE length
  /\ \/ Settle(mem, LastUsed(mem, current), rows) /\ nerr' \in {0, 1}
     \/ Settle(mem, current, rows) /\ nerr' = 1
  /\ UNCHANGED <<slot, global, del, lsrc, twlim, given>>

Sumstack == SumRefused \/ SumFiles

Writestack ==
  /\ IF sum = 0 THEN UNCHANGED memvars /\ nerr' = 1
     ELSE /\ Settle(mem, LastUsed(mem, current), Committed(mem, rows))
          /\ nerr' \in {0, 1}
  /\ UNCHANGED sssvars

\* A command of SSS.
StackCommand ==
  \/ \E p \in Properties \cup {global} : Addstack(p)
  \/ \E numbers \in StackDeletions : Deletestack(numbers)
  \/ \E i \in Slots, p \in Properties : Changestack(i, p)
  \/ \E p \in Properties : Globalstack(p)
  \/ Incrementstack \/ Zerostack
  \/ \E on \in Checks : Deltacheck(on)
  \/ \E length \in Windows : Timewindow(length)
  \/ Sumstack \/ Writestack
=============================================================================
