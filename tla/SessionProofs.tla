--------------------------- MODULE SessionProofs ----------------------------
(***************************************************************************)
(* Theorems of Session.                                                    *)
(***************************************************************************)
EXTENDS SessionMeaning, MemoryProofs

-----------------------------------------------------------------------------
(* The sum.                                                                *)

SumInv == nlnsum \in Nat /\ twlim \in Nat /\ sum = nlnsum

(* SUMSTACK: what is allocated is the length that is used.                 *)
LEMMA SumFilesSums == SumInv /\ SumFiles => SumInv'
<1> SUFFICES ASSUME SumInv, SumFiles PROVE SumInv'
  OBVIOUS
<1> DEFINE length == twlim \div del + 1
<1>1. del \in {1, 2} /\ twlim \in Nat
  BY DEF SumFiles, SumInv, Deltas
<1>2. length \in Nat
  BY <1>1
<1>3. nlnsum' = length /\ sum' = (IF nlnsum = length THEN sum ELSE length)
       /\ twlim' = twlim
  BY DEF SumFiles
<1>4. QED
  BY <1>1, <1>2, <1>3 DEF SumInv

(* The other commands of SSS leave the sum alone, or release it.           *)
LEMMA StackKeepsSum == SumInv /\ (StackCommand \/ LeaveSSS) => SumInv'
<1> SUFFICES ASSUME SumInv, StackCommand \/ LeaveSSS PROVE SumInv'
  OBVIOUS
<1>1. ASSUME NEW p, Addstack(p) PROVE SumInv'
  BY <1>1 DEF Addstack, AddMissing, AddFile, SumInv
<1>2. ASSUME NEW numbers, Deletestack(numbers) PROVE SumInv'
  BY <1>2 DEF Deletestack, SumInv
<1>3. ASSUME NEW i, NEW p, Changestack(i, p) PROVE SumInv'
  BY <1>3 DEF Changestack, SumInv
<1>4. ASSUME NEW p, Globalstack(p) PROVE SumInv'
  BY <1>4 DEF Globalstack, SumInv
<1>5. CASE Incrementstack
  BY <1>5 DEF Incrementstack, SumInv
<1>6. CASE Zerostack
  BY <1>6 DEF Zerostack, SumReleased, SumInv
<1>7. ASSUME NEW on, Deltacheck(on) PROVE SumInv'
  BY <1>7 DEF Deltacheck, SumInv
<1>8. ASSUME NEW window \in Windows, Timewindow(window) PROVE SumInv'
  BY <1>8, StackAssumption DEF Timewindow, SumInv
<1>9. CASE Sumstack
  <2>1. CASE SumRefused
    BY <2>1 DEF SumRefused, sssvars, SumInv
  <2>2. QED
    BY <1>9, <2>1, SumFilesSums DEF Sumstack
<1>10. CASE Writestack
  BY <1>10 DEF Writestack, sssvars, SumInv
<1>11. CASE LeaveSSS
  BY <1>11 DEF LeaveSSS, SumInv
<1>12. QED
  BY <1>1, <1>2, <1>3, <1>4, <1>5, <1>6, <1>7, <1>8, <1>9, <1>10, <1>11
     DEF StackCommand

(* For all files and commands, mistaken ones too: sss_sum is always as     *)
(* long as nlnsum says, so that SUMSTACK clears and WRITESTACK writes what *)
(* is allocated and no more.                                               *)
THEOREM SumIsAllocated == Spec => []SumAllocated
<1>1. Init => SumInv
  BY DEF Init, StackInit, SumInv
<1>2. SumInv /\ [Next]_vars => SumInv'
  <2> SUFFICES ASSUME SumInv, [Next]_vars PROVE SumInv'
    OBVIOUS
  <2>1. CASE Main
    BY <2>1 DEF Main, sssvars, SumInv
  <2>2. CASE Stacking
    BY <2>2 DEF Stacking, EnterSSS, SumInv
  <2>3. CASE StackStep
    BY <2>3, StackKeepsSum DEF StackStep
  <2>4. CASE Spectra
    BY <2>4 DEF Spectra, sssvars, SumInv
  <2>5. CASE SpectralStep
    BY <2>5 DEF SpectralStep, sssvars, SumInv
  <2>6. CASE UNCHANGED vars
    BY <2>6 DEF vars, sssvars, SumInv
  <2>7. QED
    BY <2>1, <2>2, <2>3, <2>4, <2>5, <2>6 DEF Next
<1>3. SumInv => SumAllocated
  BY DEF SumInv, SumAllocated
<1>4. QED
  BY <1>1, <1>2, <1>3, PTL DEF Spec

-----------------------------------------------------------------------------
(* The spectral estimate.                                                  *)

IsCorrelation(x) == x = [of |-> x.of, whitened |-> x.whitened]

IsEstimate(x) == x = [of |-> x.of, whitened |-> x.whitened,
                      corrected |-> x.corrected, method |-> x.method]

Agree == spespe.of = specor.of /\ spespe.whitened = specor.whitened

(* What the flags promise while SPE is running.                            *)
FlagsTrue == /\ lcor => IsCorrelation(specor)
             /\ lspe => IsEstimate(spespe)
             /\ lcor /\ lspe => Agree

results == <<lcor, lspe, specor, spespe>>

LEMMA ResultsKept == FlagsTrue /\ UNCHANGED results => FlagsTrue'
BY DEF FlagsTrue, results, Agree, IsCorrelation, IsEstimate

(* Entering SPE, and its READ: either all is given up or all is kept.      *)
LEMMA FileKeepsFlags == FlagsTrue /\ UseFile => FlagsTrue'
<1> SUFFICES ASSUME FlagsTrue, UseFile PROVE FlagsTrue'
  OBVIOUS
<1>1. CASE Accepted
  BY <1>1 DEF UseFile, NoResults, FlagsTrue
<1>2. CASE ~Accepted
  BY <1>2, ResultsKept DEF UseFile, results
<1>3. QED
  BY <1>1, <1>2

(* COR: a new correlation, or none; never one beside an older spectrum.    *)
LEMMA CorKeepsFlags ==
  ASSUME FlagsTrue, NEW prewhiten, Cor(prewhiten) PROVE FlagsTrue'
<1>1. CASE ~lfile
  BY <1>1, ResultsKept DEF Cor, spevars, results
<1>2. CASE lfile
  <2>1. lcor' = FALSE \/ Correlate
    BY <1>2 DEF Cor, BadWindows
  <2>2. UNCHANGED spespe
    BY <1>2 DEF Cor
  <2>3. CASE Correlate
    BY <2>3 DEF Correlate, FlagsTrue, IsCorrelation
  <2>4. CASE lcor' = FALSE /\ ~Correlate
    <3>1. UNCHANGED lspe
      BY <1>2, <2>4 DEF Cor, BadWindows
    <3>2. QED
      BY <2>2, <2>4, <3>1 DEF FlagsTrue, IsEstimate
  <2>5. QED
    BY <2>1, <2>3, <2>4
<1>3. QED
  BY <1>1, <1>2

LEMMA EstimateIsOne ==
  ASSUME NEW method, Estimate(method) PROVE IsEstimate(spespe') /\ (UNCHANGED specor => Agree')
BY DEF Estimate, IsEstimate, Agree

(* PDS, MLM and MEM: the estimate is of the correlation that is there,     *)
(* whether or not the command reports an error.                            *)
LEMMA EstimatesKeepFlags ==
  ASSUME FlagsTrue, NEW method, Estimates(method) PROVE FlagsTrue'
<1>1. UNCHANGED <<lcor, specor>>
  BY DEF Estimates
<1>2. CASE ~lcor
  BY <1>1, <1>2, ResultsKept DEF Estimates, results
<1>3. CASE lcor /\ method # "PDS"
  <2>1. Estimate(method)
    BY <1>3 DEF Estimates, Parametric
  <2>2. QED
    BY <1>1, <2>1, EstimateIsOne DEF FlagsTrue, IsCorrelation
<1>4. CASE lcor /\ method = "PDS"
  <2>1. CASE Estimate("PDS")
    BY <1>1, <2>1, EstimateIsOne DEF FlagsTrue, IsCorrelation
  <2>2. CASE /\ UNCHANGED lspe
             /\ \/ UNCHANGED spespe
                \/ spespe' = [spespe EXCEPT !.corrected = @ + nprewh]
    <3>1. CASE UNCHANGED spespe
      BY <1>1, <2>2, <3>1, ResultsKept DEF results
    <3>2. CASE spespe' = [spespe EXCEPT !.corrected = @ + nprewh]
      <4>1. IsEstimate(spespe) => /\ IsEstimate(spespe')
                                  /\ spespe'.of = spespe.of
                                  /\ spespe'.whitened = spespe.whitened
        BY <3>2 DEF IsEstimate
      <4>2. QED
        BY <1>1, <2>2, <4>1 DEF FlagsTrue, IsCorrelation, Agree
    <3>3. QED
      BY <2>2, <3>1, <3>2
  <2>3. QED
    BY <1>4, <2>1, <2>2 DEF Estimates, Pds
<1>5. QED
  BY <1>2, <1>3, <1>4 DEF Estimates

LEMMA CommandKeepsFlags == FlagsTrue /\ SpectralCommand => FlagsTrue'
<1> SUFFICES ASSUME FlagsTrue, SpectralCommand PROVE FlagsTrue'
  OBVIOUS
<1>1. CASE xwhiten
  BY <1>1, ResultsKept DEF xwhiten, results
<1>2. CASE Readcor
  BY <1>2 DEF Readcor, FlagsTrue, IsCorrelation
<1>3. ASSUME NEW there, Written(there) PROVE FlagsTrue'
  BY <1>3, ResultsKept DEF Written, spevars, results
<1>4. QED
  BY <1>1, <1>2, <1>3, CorKeepsFlags, EstimatesKeepFlags DEF SpectralCommand

(* Wherever SPE is running the flags tell the truth; the flags that it     *)
(* leaves behind do not matter, because it is entered only with a file.    *)
LEMMA FlagsStayTrue == Spec => [](comlist = "spe" => FlagsTrue)
<1> DEFINE Inv == comlist = "spe" => FlagsTrue
<1>1. Init => Inv
  BY DEF Init
<1>2. Inv /\ [Next]_vars => Inv'
  <2> SUFFICES ASSUME Inv, [Next]_vars, comlist' = "spe" PROVE FlagsTrue'
    OBVIOUS
  <2>1. CASE Spectra
    <3>1. Accepted
      BY <2>1 DEF Spectra
    <3>2. QED
      BY <2>1, <3>1 DEF Spectra, EnterSPE, UseFile, NoResults, FlagsTrue
  <2>2. CASE SpectralStep
    <3>1. FlagsTrue
      BY <2>2 DEF SpectralStep
    <3>2. CASE SpectralCommand
      BY <3>1, <3>2, CommandKeepsFlags
    <3>3. ASSUME NEW list, NEW more, ReadSPE(list, more) PROVE FlagsTrue'
      BY <3>1, <3>3, FileKeepsFlags, ResultsKept DEF ReadSPE, results
    <3>4. ASSUME NEW list, NEW more, DatagenSPE(list, more) PROVE FlagsTrue'
      BY <3>1, <3>4, ResultsKept DEF DatagenSPE, results
    <3>5. QED
      BY <2>2, <3>2, <3>3, <3>4 DEF SpectralStep
  <2>3. CASE UNCHANGED vars
    BY <2>3, ResultsKept DEF vars, spevars, results
  <2>4. QED
    BY <2>1, <2>2, <2>3 DEF Next, Main, Stacking, StackStep
<1>3. QED
  BY <1>1, <1>2, PTL DEF Spec

(* For all files, lists and mistakes: where SPE's flags say that there is  *)
(* a correlation or an estimate, one has been computed into the array that *)
(* PLOTCOR, PLOTSPE, WRITECOR and WRITESPE take it from.                   *)
THEOREM FlagsOnlyForResults == Spec => []ResultsComputed
<1>1. (comlist = "spe" => FlagsTrue) => ResultsComputed
  <2>1. \A x : IsCorrelation(x) => DOMAIN x = {"of", "whitened"}
    BY DEF IsCorrelation
  <2>2. \A x : IsEstimate(x) => DOMAIN x = {"of", "whitened", "corrected", "method"}
    BY DEF IsEstimate
  <2>3. "of" \notin DOMAIN NotComputed
    BY DEF NotComputed
  <2>4. QED
    BY <2>1, <2>2, <2>3 DEF FlagsTrue, ResultsComputed
<1>2. QED
  BY <1>1, FlagsStayTrue, PTL

(* ... and an estimate that is offered beside a correlation is one of that *)
(* correlation, even when MLM or MEM overwrote it and reported an error.   *)
THEOREM EstimateOfCorrelation == Spec => []SpectrumOfCorrelation
<1>1. (comlist = "spe" => FlagsTrue) => SpectrumOfCorrelation
  BY DEF FlagsTrue, SpectrumOfCorrelation, Agree
<1>2. QED
  BY <1>1, FlagsStayTrue, PTL
-----------------------------------------------------------------------------
(* The name of the estimate.                                               *)

(* A clear message means that the last thing done was autcor or PDS.       *)
LengthKnown == kermsg = "blank" => nlncor

(* An estimate has the name of its method, and while its correlation is    *)
(* there no command has left a message that MLM and MEM would take for     *)
(* their own.                                                              *)
LabelInv ==
  /\ LengthKnown
  /\ comlist = "spe" /\ lspe => kpspl1 = spespe.method /\ (lcor => kermsg = "blank")

labelvars == <<lcor, lspe, spespe, kpspl1, kermsg, nlncor>>

LEMMA LabelKept == LabelInv /\ UNCHANGED <<comlist, labelvars>> => LabelInv'
BY DEF LabelInv, LengthKnown, labelvars

LEMMA FileKeepsLabel ==
  ASSUME LabelInv, comlist = "spe", UNCHANGED comlist, UseFile PROVE LabelInv'
<1>1. CASE Accepted
  BY <1>1 DEF UseFile, NoResults, LabelInv, LengthKnown
<1>2. CASE ~Accepted
  BY <1>2 DEF UseFile, LabelInv, LengthKnown
<1>3. QED
  BY <1>1, <1>2

LEMMA CorKeepsLabel ==
  ASSUME LabelInv, comlist = "spe", UNCHANGED comlist, NEW prewhiten, Cor(prewhiten)
  PROVE  LabelInv'
<1>1. CASE ~lfile
  BY <1>1, LabelKept DEF Cor, spevars, labelvars
<1>2. CASE lfile
  <2>1. CASE lcor' = FALSE /\ UNCHANGED <<lspe, nlncor, kermsg>>
    BY <1>2, <2>1 DEF Cor, LabelInv, LengthKnown
  <2>2. CASE lcor' = FALSE /\ kermsg' = "message" /\ UNCHANGED lspe
    BY <1>2, <2>2 DEF Cor, LabelInv, LengthKnown
  <2>3. CASE Correlate
    BY <1>2, <2>3 DEF Correlate, LabelInv, LengthKnown
  <2>4. QED
    BY <1>2, <2>1, <2>2, <2>3 DEF Cor, BadOrder, BadWindows
<1>3. QED
  BY <1>1, <1>2

(* PDS fails only for want of a length, and there is one if the message is *)
(* clear; MLM and MEM fail only if it is not, and then there is no         *)
(* estimate whose name would be wrong.                                     *)
LEMMA EstimatesKeepLabel ==
  ASSUME Mistakes = FALSE, LabelInv, comlist = "spe", UNCHANGED comlist,
         NEW method \in Methods, Estimates(method)
  PROVE  LabelInv'
<1>1. UNCHANGED <<lcor, nlncor>>
  BY DEF Estimates
<1>2. CASE ~lcor
  BY <1>1, <1>2 DEF Estimates, LabelInv, LengthKnown
<1>3. CASE lcor /\ method = "PDS"
  <2>1. Pds
    BY <1>3 DEF Estimates
  <2>2. CASE nlncor /\ kermsg' = "blank" /\ Estimate("PDS") /\ Named("PDS")
    BY <1>1, <2>2 DEF Estimate, Named, LabelInv, LengthKnown
  <2>3. CASE ~nlncor /\ kermsg' = "message" /\ UNCHANGED lspe
    <3>1. ~lspe
      BY <1>3, <2>3 DEF LabelInv, LengthKnown
    <3>2. QED
      BY <2>3, <3>1 DEF LabelInv, LengthKnown
  <2>4. QED
    BY <2>1, <2>2, <2>3 DEF Pds
<1>4. CASE lcor /\ method # "PDS"
  <2>1. Parametric(method)
    BY <1>4 DEF Estimates
  <2>2. CASE kermsg = "blank"
    BY <1>1, <2>1, <2>2 DEF Parametric, Estimate, Named, LabelInv, LengthKnown
  <2>3. CASE kermsg # "blank"
    <3>1. ~lspe
      BY <1>4, <2>3 DEF LabelInv
    <3>2. QED
      BY <2>1, <2>3, <3>1 DEF Parametric, LabelInv, LengthKnown
  <2>4. QED
    BY <2>2, <2>3
<1>5. QED
  BY <1>2, <1>3, <1>4

(* For all files and lists, and a user who asks WHITEN and PDS only for    *)
(* what there is: an estimate is plotted under the name of the method that *)
(* it was computed by, although MLM and MEM overwrite it before they look  *)
(* whether a message is there.                                             *)
THEOREM LabelIsTrue ==
  ASSUME Mistakes = FALSE
  PROVE  Spec => []LabelTrue
<1>1. Init => LabelInv
  BY DEF Init, SpeInit, LabelInv, LengthKnown
<1>2. LabelInv /\ [Next]_vars => LabelInv'
  <2> SUFFICES ASSUME LabelInv, [Next]_vars PROVE LabelInv'
    OBVIOUS
  <2>1. CASE Main
    BY <2>1, LabelKept DEF Main, spevars, labelvars
  <2>2. CASE Stacking
    BY <2>2 DEF Stacking, spevars, LabelInv, LengthKnown
  <2>3. CASE StackStep
    BY <2>3 DEF StackStep, spevars, LabelInv, LengthKnown
  <2>4. CASE Spectra
    <3>1. CASE Accepted
      BY <2>4, <3>1 DEF Spectra, EnterSPE, UseFile, NoResults, LabelInv, LengthKnown
    <3>2. CASE ~Accepted
      BY <2>4, <3>2 DEF Spectra, EnterSPE, UseFile, LabelInv, LengthKnown
    <3>3. QED
      BY <3>1, <3>2
  <2>5. CASE SpectralStep
    <3>1. CASE SpectralCommand /\ UNCHANGED comlist
      <4>1. ASSUME NEW prewhiten, Cor(prewhiten) PROVE LabelInv'
        BY <2>5, <3>1, <4>1, CorKeepsLabel DEF SpectralStep
      <4>2. ASSUME NEW method \in Methods, Estimates(method) PROVE LabelInv'
        BY <2>5, <3>1, <4>2, EstimatesKeepLabel DEF SpectralStep
      <4>3. CASE xwhiten
        BY <3>1, <4>3, LabelKept DEF xwhiten, labelvars
      <4>4. CASE Readcor
        BY <3>1, <4>4 DEF Readcor, LabelInv, LengthKnown
      <4>5. ASSUME NEW there, Written(there) PROVE LabelInv'
        BY <3>1, <4>5, LabelKept DEF Written, spevars, labelvars
      <4>6. QED
        BY <3>1, <4>1, <4>2, <4>3, <4>4, <4>5 DEF SpectralCommand
    <3>2. ASSUME UNCHANGED comlist, NEW list, NEW more, ReadSPE(list, more)
          PROVE  LabelInv'
      BY <2>5, <3>2, FileKeepsLabel, LabelKept DEF SpectralStep, ReadSPE, labelvars
    <3>3. ASSUME UNCHANGED comlist, NEW list, NEW more, DatagenSPE(list, more)
          PROVE  LabelInv'
      BY <3>3, LabelKept DEF DatagenSPE, labelvars
    <3>4. CASE LeaveSPE /\ comlist' = "main"
      BY <3>4 DEF LeaveSPE, LabelInv, LengthKnown
    <3>5. QED
      BY <2>5, <3>1, <3>2, <3>3, <3>4 DEF SpectralStep
  <2>6. CASE UNCHANGED vars
    BY <2>6, LabelKept DEF vars, spevars, labelvars
  <2>7. QED
    BY <2>1, <2>2, <2>3, <2>4, <2>5, <2>6 DEF Next
<1>3. LabelInv => LabelTrue
  BY DEF LabelInv, LabelTrue
<1>4. QED
  BY <1>1, <1>2, <1>3, PTL DEF Spec
-----------------------------------------------------------------------------
(* The files in memory, the current file and the rows: what every command  *)
(* does to the three together.                                             *)

(* There are no more rows than files; where files can be stacked, also     *)
(* when there is no file, because ADDSTACK would add to the list and leave *)
(* the rows as they are.                                                   *)
RowsFit == (mem # <<>> \/ "sss" \in Subprocesses) => Fits(mem, rows)

(* READERR MEMORY is never set to DELETE, and of the files that exist in a *)
(* list one can be read: no READ empties the memory and fails.             *)
Readable == /\ "DELETE" \notin MemoryActions
            /\ \A list \in Lists \cup Samples : Exists(list) => Good(list) # 0

(* No cut fails, and files are deleted one at a time.                      *)
OneAtATime == /\ CutsFail = FALSE
              /\ \A d \in Deletions \cup DeletedNames \cup StackDeletions : Len(d) = 1

(* ... and where files can be stacked the list is not emptied otherwise.   *)
Regular == /\ OneAtATime
           /\ "sss" \in Subprocesses => Readable /\ 0 \notin Cuts /\ SeismogramNamed

Saved == "DELETE" \notin MemoryActions => kecmem = "SAVE"

LEMMA SettleKeeps ==
  ASSUME NEW m, IsFiles(m), NEW c, NEW r, IsRows(r), Settle(m, c, r)
  PROVE  /\ MemoryOK'
         /\ (m = <<>> \/ c \in ToSet(m)) => CurrentInMemory'
         /\ (Fits(m, r) \/ (m = <<>> /\ "sss" \notin Subprocesses)) => RowsFit'
<1>1. MemoryOK'
  BY SettleTyped
<1>2. mem' = m
  BY DEF Settle
<1>3. (m = <<>> \/ c \in ToSet(m)) => CurrentInMemory'
  BY DEF Settle, Pointer, CurrentInMemory
<1>4. Fits(m, r) => Fits(mem', rows')
  BY SettleFits
<1>5. (Fits(m, r) \/ (m = <<>> /\ "sss" \notin Subprocesses)) => RowsFit'
  BY <1>2, <1>4 DEF RowsFit, Fits
<1>6. QED
  BY <1>1, <1>3, <1>5

LEMMA LastUsedIs ==
  ASSUME NEW m, IsFiles(m), m # <<>>, NEW c PROVE LastUsed(m, c) \in ToSet(m)
BY EndsAreElements DEF IsFiles, LastUsed

LEMMA NoFiles == IsFiles(<<>>) /\ Len(<<>>) = 0
<1>1. <<>> \in Seq(Files) /\ Len(<<>>) = 0 /\ DOMAIN <<>> = {}
  BY EmptySeq
<1>2. IsInjective(<<>>)
  BY <1>1, SMT DEF IsInjective
<1>3. QED
  BY <1>1, <1>2, MaxFilesAssumption DEF IsFiles

LEMMA GoodIsNat ==
  ASSUME NEW list \in Lists \cup Samples PROVE Good(list) \in Nat
<1>1. list \in Seq({"ok", "bad", "missing"})
  BY ListsAssumption
<1>2. DOMAIN list = 1..Len(list) /\ Len(list) \in Nat
  BY <1>1, LenProperties
<1>3. IsFiniteSet(1..Len(list))
  BY <1>2, FS_Interval
<1> DEFINE T == {i \in DOMAIN list : list[i] = "ok"}
<1>4. IsFiniteSet(T)
  BY <1>2, <1>3, FS_Subset
<1> HIDE DEF T
<1>5. Cardinality(T) \in Nat
  BY <1>4, FS_CardinalityType
<1>6. QED
  BY <1>5 DEF Good, T

LEMMA AlignedIs ==
  ASSUME MemoryOK, NEW more
  PROVE  /\ IsRows(Aligned(more))
         /\ RowsFit /\ More(more) => Aligned(more) = mem
         /\ ~More(more) => Aligned(more) = rows
<1>1. IsFiles(mem) /\ IsRows(rows)
  BY DEF MemoryOK
<1>2. RowsFit /\ More(more) => Fits(mem, rows)
  BY DEF RowsFit, More
<1>3. QED
  BY <1>1, <1>2, CommittedTyped DEF Aligned

(* READ and DATAGEN.                                                       *)
LEMMA ReadKeeps ==
  ASSUME MemoryOK, NEW list \in Lists \cup Samples, NEW more, ReadFiles(list, more)
  PROVE  /\ MemoryOK'
         /\ CurrentInMemory => CurrentInMemory'
         /\ RowsFit /\ ("sss" \in Subprocesses => Readable /\ kecmem = "SAVE") => RowsFit'
         /\ Readable /\ kecmem = "SAVE" /\ ReadFails(list, more) => mem' = mem
<1>0. IsFiles(mem) /\ IsRows(rows) /\ mem \in Seq(Files) /\ Len(mem) \in Nat
  BY LenProperties DEF MemoryOK, IsFiles
<1>1. CASE ~Exists(list)
  <2> DEFINE m == IF kecmem = "DELETE" THEN <<>> ELSE mem
             c == IF More(more) THEN Last(mem) ELSE current
  <2>1. Settle(m, c, Aligned(more))
    BY <1>1 DEF ReadFiles, NoneExists
  <2>2. IsFiles(m) /\ IsRows(Aligned(more))
    BY <1>0, NoFiles, AlignedIs
  <2>3. CurrentInMemory => m = <<>> \/ c \in ToSet(m)
    BY <1>0, EndsAreElements DEF CurrentInMemory, More
  <2>4. kecmem = "SAVE" => m = mem
    OBVIOUS
  <2>5. ASSUME RowsFit, "sss" \in Subprocesses => kecmem = "SAVE"
        PROVE  Fits(m, Aligned(more)) \/ (m = <<>> /\ "sss" \notin Subprocesses)
    <3>1. CASE More(more)
      BY <1>0, <2>5, <3>1, AlignedIs DEF Fits
    <3>2. CASE ~More(more)
      <4>1. Aligned(more) = rows
        BY <3>2, AlignedIs
      <4>2. CASE m = mem
        BY <2>5, <4>1, <4>2 DEF RowsFit
      <4>3. CASE m # mem
        BY <2>5, <4>3
      <4>4. QED
        BY <4>2, <4>3
    <3>3. QED
      BY <3>1, <3>2
  <2>6. mem' = m
    BY <2>1 DEF Settle
  <2> HIDE DEF m, c
  <2>7. QED
    BY <2>1, <2>2, <2>3, <2>4, <2>5, <2>6, SettleKeeps
<1>2. CASE Exists(list)
  <2> DEFINE n == Good(list)
  <2>0. n \in Nat
    BY GoodIsNat
  <2>1. /\ Len(Kept(more)) + n <= MaxFiles
        /\ \E new \in Allocated(n) :
             Settle(Kept(more) \o new, LastUsed(Kept(more) \o new, current),
                    IF ReadFails(list, more) THEN rows
                    ELSE IF More(more) THEN Committed(Kept(more) \o new, Aligned(more))
                    ELSE Kept(more) \o new)
    BY <1>2 DEF ReadFiles, ReadThem
  <2> HIDE DEF n
  <2>2. PICK new \in Allocated(n) :
             Settle(Kept(more) \o new, LastUsed(Kept(more) \o new, current),
                    IF ReadFails(list, more) THEN rows
                    ELSE IF More(more) THEN Committed(Kept(more) \o new, Aligned(more))
                    ELSE Kept(more) \o new)
    BY <2>1
  <2> DEFINE m == Kept(more) \o new
             c == LastUsed(m, current)
             r == IF ReadFails(list, more) THEN rows
                  ELSE IF More(more) THEN Committed(m, Aligned(more)) ELSE m
  <2>3. Settle(m, c, r)
    BY <2>2
  <2>4. Kept(more) = IF More(more) THEN mem ELSE <<>>
    BY DEF Kept
  <2>5. IsFiles(m) /\ Len(m) = Len(Kept(more)) + n
    BY <1>0, <2>0, <2>1, <2>4, AllocatedTyped
  <2> HIDE DEF m
  <2>6. m = <<>> \/ c \in ToSet(m)
    BY <2>5, LastUsedIs
  <2>7. IsRows(r)
    BY <1>0, <2>5, AlignedIs, CommittedTyped, FilesAreRows
  <2>8. ReadFails(list, more) => Good(list) = 0 /\ m = <<>>
    <3>1. ReadFails(list, more) => n = 0 /\ ~More(more)
      BY <1>2 DEF ReadFails, n
    <3>2. Len(m) = 0 => m = <<>>
      BY <2>5, EmptySeq DEF IsFiles
    <3>3. QED
      BY <2>4, <2>5, <3>1, <3>2, NoFiles DEF n
  <2>9. ASSUME ~ReadFails(list, more), RowsFit PROVE Fits(m, r)
    <3>1. CASE More(more)
      <4>1. Aligned(more) = mem
        BY <2>9, <3>1, AlignedIs
      <4>2. Fits(m, mem)
        BY <1>0, <2>0, <2>4, <2>5, <3>1 DEF Fits
      <4>3. r = m
        BY <1>0, <2>5, <2>9, <3>1, <4>1, <4>2, CommittedTyped, FilesAreRows
      <4>4. QED
        BY <2>5, <4>3, FilesAreRows
    <3>2. CASE ~More(more)
      BY <2>5, <2>9, <3>2, FilesAreRows
    <3>3. QED
      BY <3>1, <3>2
  <2>10. Readable => Good(list) # 0
    BY <1>2 DEF Readable
  <2> HIDE DEF c, r
  <2>11. QED
    BY <2>3, <2>5, <2>6, <2>7, <2>8, <2>9, <2>10, SettleKeeps
<1>3. QED
  BY <1>1, <1>2
(* DELETECHANNEL by number and by name.                                    *)
LEMMA DeletedKeeps ==
  ASSUME MemoryOK, NEW positions \in Seq(Nat \ {0}), ToSet(positions) \subseteq DOMAIN mem,
         Deleted(positions)
  PROVE  /\ MemoryOK'
         /\ CurrentInMemory'
         /\ RowsFit /\ Len(positions) = 1 => RowsFit'
<1> DEFINE m == Remaining(positions)
           r == RowsRemaining(positions)
           c == IF m # <<>> THEN Head(m) ELSE IF current \in ToSet(mem) THEN Null ELSE current
<1>1. Settle(m, c, r)
  BY DEF Deleted
<1>2. IsFiles(mem) /\ IsRows(rows) /\ positions \in Seq(Nat)
  BY SortedPositions DEF MemoryOK
<1>3. IsFiles(m)
  BY <1>2, RemainingTyped
<1>4. IsRows(r)
  BY <1>2, RowsRemainingTyped
<1>5. ASSUME RowsFit, Len(positions) = 1 PROVE Fits(m, r)
  <2>1. mem # <<>>
    <3>1. positions[1] \in ToSet(positions)
      BY <1>5, ToSetIs
    <3>2. DOMAIN <<>> = {}
      BY EmptySeq
    <3>3. QED
      BY <3>1, <3>2
  <2>2. Fits(mem, rows)
    BY <1>5, <2>1 DEF RowsFit
  <2>3. QED
    BY <1>2, <1>5, <2>2, OneFileDeleted
<1> HIDE DEF m, r
<1>6. m = <<>> \/ c \in ToSet(m)
  BY <1>3, EndsAreElements DEF IsFiles
<1> HIDE DEF c
<1>7. QED
  BY <1>1, <1>3, <1>4, <1>5, <1>6, SettleKeeps

LEMMA MemoryStays ==
  ASSUME MemoryOK, UNCHANGED memvars
  PROVE  /\ MemoryOK'
         /\ CurrentInMemory => CurrentInMemory'
         /\ RowsFit => RowsFit'
BY DEF MemoryOK, memvars, CurrentInMemory, RowsFit, IsFiles, IsRows, Pointers, Fits

(* Commands that use files, or commit them, and leave them where they are. *)
LEMMA SameFilesKeep ==
  ASSUME MemoryOK, NEW c, NEW r \in {rows, Committed(mem, rows)}, Settle(mem, c, r)
  PROVE  /\ MemoryOK' /\ mem' = mem
         /\ (mem = <<>> \/ c \in ToSet(mem)) => CurrentInMemory'
         /\ RowsFit => RowsFit'
<1>1. IsFiles(mem) /\ IsRows(rows)
  BY DEF MemoryOK
<1>2. IsRows(r) /\ (Fits(mem, rows) => r = rows \/ r = mem)
  BY <1>1, CommittedTyped
<1>3. ASSUME RowsFit PROVE Fits(mem, r) \/ (mem = <<>> /\ "sss" \notin Subprocesses)
  BY <1>1, <1>2, <1>3, FilesAreRows DEF RowsFit
<1>4. mem' = mem
  BY DEF Settle
<1>5. QED
  BY <1>1, <1>2, <1>3, <1>4, SettleKeeps

LEMMA DeleteNumbersKeeps ==
  ASSUME MemoryOK, NEW numbers \in Deletions, DeleteNumbers(numbers)
  PROVE  /\ MemoryOK'
         /\ CurrentInMemory => CurrentInMemory'
         /\ RowsFit /\ OneAtATime => RowsFit'
<1>1. numbers \in Seq(Nat \ {0})
  BY InputsAssumption
<1>2. CASE ToSet(numbers) \subseteq DOMAIN mem
  <2>1. Deleted(numbers) /\ nerr' = 0
    BY <1>2 DEF DeleteNumbers
  <2>2. OneAtATime => Len(numbers) = 1
    BY DEF OneAtATime
  <2>3. QED
    BY <1>1, <1>2, <2>1, <2>2, DeletedKeeps
<1>3. CASE ~(ToSet(numbers) \subseteq DOMAIN mem)
  BY <1>3, MemoryStays DEF DeleteNumbers, memvars
<1>4. QED
  BY <1>2, <1>3

LEMMA DeleteNamesKeeps ==
  ASSUME MemoryOK, NEW names \in DeletedNames, DeleteNames(names)
  PROVE  /\ MemoryOK'
         /\ CurrentInMemory => CurrentInMemory'
         /\ RowsFit /\ OneAtATime => RowsFit'
<1>1. names \in Seq(Names) /\ Len(names) \in Nat /\ DOMAIN names = 1..Len(names)
  BY InputsAssumption, LenProperties
<1>2. mem \in Seq(Files) /\ DOMAIN mem = 1..Len(mem) /\ IsFiles(mem)
  BY LenProperties DEF MemoryOK, IsFiles
<1>3. CASE \A i \in DOMAIN names : Matching(names[i]) # {}
  <2> DEFINE positions == [i \in 1..Len(names) |-> Position(names[i])]
  <2>1. Deleted(positions) /\ nerr' = 0
    BY <1>1, <1>3 DEF DeleteNames
  <2>2. \A i \in 1..Len(names) : Position(names[i]) \in DOMAIN mem
    BY <1>1, <1>2, <1>3, PositionIs
  <2>3. DOMAIN mem \subseteq Nat \ {0}
    BY <1>2
  <2>4. positions \in [1..Len(names) -> Nat \ {0}]
    BY <2>2, <2>3
  <2>5. \A i \in 1..Len(names) : positions[i] \in DOMAIN mem
    BY <2>2
  <2> HIDE DEF positions
  <2>6. positions \in Seq(Nat \ {0}) /\ Len(positions) = Len(names)
    BY <1>1, <2>4, IsSequence
  <2>7. ToSet(positions) \subseteq DOMAIN mem
    BY <2>5, <2>6, ToSetIs
  <2>8. OneAtATime => Len(names) = 1
    BY DEF OneAtATime
  <2>9. MemoryOK' /\ CurrentInMemory' /\ (RowsFit /\ Len(positions) = 1 => RowsFit')
    <3>1. positions \in Seq(Nat \ {0})
      BY <2>6
    <3>2. Deleted(positions)
      BY <2>1
    <3>3. QED
      BY <3>1, <3>2, <2>7, DeletedKeeps
  <2>10. QED
    BY <2>1, <2>6, <2>8, <2>9
<1>4. CASE ~(\A i \in DOMAIN names : Matching(names[i]) # {})
  <2>1. Settle(mem, LastUsed(mem, current), rows)
    BY <1>4 DEF DeleteNames
  <2>2. mem = <<>> \/ LastUsed(mem, current) \in ToSet(mem)
    BY <1>2, LastUsedIs
  <2>3. QED
    BY <2>1, <2>2, SameFilesKeep
<1>5. QED
  BY <1>3, <1>4

LEMMA AllocatedAlone ==
  ASSUME MemoryOK, NEW n \in Nat, n <= MaxFiles, NEW new \in Allocated(n)
  PROVE  IsFiles(new) /\ Len(new) = n
<1>1. Len(<<>>) = 0
  BY NoFiles
<1>2. Len(<<>>) + n <= MaxFiles
  BY <1>1
<1>3. new \in Seq(Files) /\ Len(new) = n /\ IsInjective(new)
  BY <1>2, AllocatedTyped DEF MemoryOK
<1>4. QED
  BY <1>3 DEF IsFiles

LEMMA FuncgenKeeps ==
  ASSUME MemoryOK, NEW n \in Generated, Funcgen(n)
  PROVE  /\ MemoryOK'
         /\ CurrentInMemory => CurrentInMemory'
         /\ RowsFit /\ Regular => RowsFit'
<1>1. CASE UNCHANGED memvars
  BY <1>1, MemoryStays
<1>2. CASE Generate(n)
  <2>1. PICK new \in Allocated(n) : Settle(new, LastUsed(new, current), new)
    BY <1>2 DEF Generate
  <2>2. IsFiles(new)
    BY <1>2, InputsAssumption, AllocatedAlone DEF Generate
  <2>3. IsRows(new) /\ Fits(new, new) /\ (new = <<>> \/ LastUsed(new, current) \in ToSet(new))
    BY <2>2, FilesAreRows, LastUsedIs
  <2>4. QED
    BY <2>1, <2>2, <2>3, SettleKeeps
<1>3. CASE NotGenerated
  <2>1. ~SeismogramNamed /\ Settle(<<>>, current, rows)
    BY <1>3 DEF NotGenerated
  <2>2. Regular => "sss" \notin Subprocesses
    BY <2>1 DEF Regular
  <2>3. IsRows(rows)
    BY DEF MemoryOK
  <2>4. QED
    BY <2>1, <2>2, <2>3, NoFiles, SettleKeeps
<1>4. QED
  BY <1>1, <1>2, <1>3 DEF Funcgen

LEMMA WriteKeeps ==
  ASSUME MemoryOK, Write
  PROVE  /\ MemoryOK' /\ mem' = mem
         /\ CurrentInMemory => CurrentInMemory'
         /\ RowsFit => RowsFit'
<1>1. CASE UNCHANGED memvars
  BY <1>1, MemoryStays DEF memvars
<1>2. ASSUME NEW last \in DOMAIN mem, Settle(mem, mem[last], Committed(mem, rows))
      PROVE  /\ MemoryOK' /\ mem' = mem
             /\ CurrentInMemory => CurrentInMemory'
             /\ RowsFit => RowsFit'
  <2>1. mem[last] \in ToSet(mem)
    BY DEF ToSet
  <2>2. QED
    BY <1>2, <2>1, SameFilesKeep
<1>3. QED
  BY <1>1, <1>2 DEF Write

LEMMA SortKeeps ==
  ASSUME MemoryOK, Sort
  PROVE  /\ MemoryOK'
         /\ CurrentInMemory => CurrentInMemory'
         /\ RowsFit => RowsFit'
<1>1. CASE UNCHANGED memvars
  BY <1>1, MemoryStays DEF memvars
<1>2. ASSUME NEW m \in Reorderings(mem), Settle(m, current, rows), nerr' = 0
      PROVE  /\ MemoryOK'
             /\ CurrentInMemory => CurrentInMemory'
             /\ RowsFit => RowsFit'
  <2>1. IsFiles(mem) /\ IsRows(rows) /\ mem \in Seq(Files)
    BY DEF MemoryOK, IsFiles
  <2>2. IsFiles(m) /\ Len(m) = Len(mem) /\ ToSet(m) = ToSet(mem)
    BY <2>1, ReorderingTyped
  <2>3. mem = <<>> <=> m = <<>>
    BY <2>1, <2>2, EmptySeq DEF IsFiles
  <2>4. CurrentInMemory => m = <<>> \/ current \in ToSet(m)
    BY <2>2, <2>3 DEF CurrentInMemory
  <2>5. RowsFit => Fits(m, rows) \/ (m = <<>> /\ "sss" \notin Subprocesses)
    BY <2>2, <2>3 DEF RowsFit, Fits
  <2>6. QED
    BY <1>2, <2>1, <2>2, <2>4, <2>5, SettleKeeps
<1>3. QED
  BY <1>1, <1>2 DEF Sort

LEMMA CutimKeeps ==
  ASSUME MemoryOK, NEW windows \in Cuts, Cutim(windows)
  PROVE  /\ MemoryOK'
         /\ CurrentInMemory => CurrentInMemory'
         /\ RowsFit /\ Regular => RowsFit'
<1>0. IsFiles(mem) /\ IsRows(rows) /\ windows \in Nat /\ Len(mem) \in Nat
  BY InputsAssumption, LenProperties DEF MemoryOK, IsFiles
<1>1. CASE CutRefused
  <2>1. ASSUME NEW i \in DOMAIN mem, Settle(mem, mem[i], rows)
        PROVE  MemoryOK' /\ CurrentInMemory' /\ (RowsFit => RowsFit')
    <3>1. mem[i] \in ToSet(mem)
      BY DEF ToSet
    <3>2. QED
      BY <2>1, <3>1, SameFilesKeep
  <2>2. ASSUME Settle(mem, LastUsed(mem, current), rows)
        PROVE  MemoryOK' /\ CurrentInMemory' /\ (RowsFit => RowsFit')
    <3>1. mem = <<>> \/ LastUsed(mem, current) \in ToSet(mem)
      BY <1>0, LastUsedIs
    <3>2. QED
      BY <2>2, <3>1, SameFilesKeep
  <2>3. QED
    BY <1>1, <2>1, <2>2 DEF CutRefused
<1>2. CASE Cut(windows)
  <2> DEFINE all == windows * Len(mem)
  <2>0. mem # <<>>
    BY <1>2 DEF Cut
  <2>1. PICK n \in 0..all :
          /\ n <= MaxFiles /\ (n = all \/ CutsFail)
          /\ \E new \in Allocated(n) : Settle(new, LastUsed(new, Elsewhere), rows)
          /\ Fails(n < all)
    BY <1>2 DEF Cut
  <2>2. PICK new \in Allocated(n) : Settle(new, LastUsed(new, Elsewhere), rows)
    BY <2>1
  <2>3. n \in Nat /\ all \in Nat
    BY <1>0
  <2>4. IsFiles(new) /\ Len(new) = n
    BY <2>1, <2>3, AllocatedAlone
  <2>5. new = <<>> \/ LastUsed(new, Elsewhere) \in ToSet(new)
    BY <2>4, LastUsedIs
  <2>6. ASSUME RowsFit, Regular PROVE Fits(new, rows) \/ (new = <<>> /\ "sss" \notin Subprocesses)
    <3>1. n = all
      BY <2>1, <2>6 DEF Regular, OneAtATime
    <3>2. CASE windows = 0
      <4>1. n = 0 /\ "sss" \notin Subprocesses
        BY <1>0, <2>6, <3>1, <3>2 DEF Regular
      <4>2. new = <<>>
        BY <2>4, <4>1, EmptySeq DEF IsFiles
      <4>3. QED
        BY <4>1, <4>2
    <3>3. CASE windows # 0
      <4>1. all >= Len(mem)
        <5>1. windows - 1 \in Nat /\ windows = (windows - 1) + 1
          BY <1>0, <3>3
        <5>2. all = (windows - 1) * Len(mem) + Len(mem)
          BY <1>0, <5>1
        <5>3. (windows - 1) * Len(mem) \in Nat
          BY <1>0, <5>1
        <5>4. QED
          BY <1>0, <5>2, <5>3
      <4>2. Fits(mem, rows)
        BY <2>0, <2>6 DEF RowsFit
      <4> HIDE DEF all
      <4>3. rows = NoRows \/ Len(rows) \in Nat
        BY <1>0, LenProperties DEF IsRows
      <4>4. Fits(new, rows)
        BY <1>0, <2>3, <2>4, <3>1, <4>1, <4>2, <4>3 DEF Fits
      <4>5. QED
        BY <4>4
    <3>4. QED
      BY <3>2, <3>3
  <2> HIDE DEF all
  <2>7. QED
    BY <1>0, <2>2, <2>4, <2>5, <2>6, SettleKeeps
<1>3. QED
  BY <1>1, <1>2 DEF Cutim

LEMMA MainKeeps ==
  ASSUME MemoryOK, Saved, MainCommand
  PROVE  /\ MemoryOK'
         /\ CurrentInMemory => CurrentInMemory'
         /\ RowsFit /\ Regular => RowsFit'
<1>1. ASSUME NEW list \in Lists \cup Samples, NEW more, Read(list, more)
      PROVE  /\ MemoryOK'
             /\ CurrentInMemory => CurrentInMemory'
             /\ RowsFit /\ Regular => RowsFit'
  <2>1. ReadFiles(list, more)
    BY <1>1 DEF Read
  <2>2. Readable => kecmem = "SAVE"
    BY DEF Readable, Saved
  <2>3. QED
    BY <2>1, <2>2, ReadKeeps DEF Regular
<1>2. ASSUME NEW n \in Generated, Funcgen(n)
      PROVE  /\ MemoryOK'
             /\ CurrentInMemory => CurrentInMemory'
             /\ RowsFit /\ Regular => RowsFit'
  BY <1>2, FuncgenKeeps
<1>3. ASSUME NEW windows \in Cuts, Cutim(windows)
      PROVE  /\ MemoryOK'
             /\ CurrentInMemory => CurrentInMemory'
             /\ RowsFit /\ Regular => RowsFit'
  BY <1>3, CutimKeeps
<1>4. CASE DeleteAll
  <2>1. Settle(<<>>, current, NoRows) /\ nerr' = 0
    BY <1>4 DEF DeleteAll
  <2>2. IsRows(NoRows) /\ Fits(<<>>, NoRows)
    BY DEF IsRows, Fits
  <2>3. QED
    BY <2>1, <2>2, NoFiles, SettleKeeps
<1>5. ASSUME NEW memory, Readerr(memory)
      PROVE  /\ MemoryOK'
             /\ CurrentInMemory => CurrentInMemory'
             /\ RowsFit => RowsFit'
  BY <1>5, MemoryStays DEF Readerr
<1>6. Regular => OneAtATime
  BY DEF Regular
<1>7. ASSUME \/ \E numbers \in Deletions : DeleteNumbers(numbers)
             \/ \E names \in DeletedNames : DeleteNames(names)
      PROVE  /\ MemoryOK'
             /\ CurrentInMemory => CurrentInMemory'
             /\ RowsFit /\ Regular => RowsFit'
  BY <1>6, <1>7, DeleteNumbersKeeps, DeleteNamesKeeps
<1>8. ASSUME \/ \E list \in Lists, more \in BOOLEAN : Read(list, more)
             \/ \E list \in Samples, more \in BOOLEAN : Read(list, more)
      PROVE  /\ MemoryOK'
             /\ CurrentInMemory => CurrentInMemory'
             /\ RowsFit /\ Regular => RowsFit'
  BY <1>1, <1>8
<1>9. CASE Write \/ Sort
  BY <1>9, WriteKeeps, SortKeeps
<1>10. CASE \/ \E n \in Generated : Funcgen(n)
            \/ \E memory \in MemoryActions : Readerr(memory)
  BY <1>2, <1>5, <1>10
<1>11. CASE \E windows \in Cuts : Cutim(windows)
  BY <1>3, <1>11
<1>12. QED
  BY <1>4, <1>7, <1>8, <1>9, <1>10, <1>11 DEF MainCommand

-----------------------------------------------------------------------------
(* ... and what the commands of SSS do.                                    *)

LEMMA FirstRefusedIs ==
  ASSUME MemoryOK
  PROVE  FirstRefused \in 1..(Len(mem) + 1) /\ Len(mem) \in Nat /\ DOMAIN mem = 1..Len(mem)
<1> DEFINE refused == {i \in DOMAIN mem : \/ Uneven(mem[i])
                                          \/ i > 1 /\ Differs(mem[i], header[mem[1]].delta)}
           T == refused \cup {Len(mem) + 1}
<1>1. Len(mem) \in Nat /\ DOMAIN mem = 1..Len(mem)
  BY LenProperties DEF MemoryOK, IsFiles
<1>2. refused \subseteq 1..Len(mem)
  BY <1>1
<1>3. FirstRefused = CHOOSE i \in T : \A j \in refused : i <= j
  BY DEF FirstRefused
<1> HIDE DEF refused
<1>4. T \subseteq Nat /\ T # {} /\ T \subseteq 1..(Len(mem) + 1)
  <2>1. 1..Len(mem) \subseteq 1..(Len(mem) + 1) /\ Len(mem) + 1 \in 1..(Len(mem) + 1)
    BY <1>1
  <2>2. T \subseteq 1..(Len(mem) + 1) /\ T # {}
    BY <1>2, <2>1
  <2>3. 1..(Len(mem) + 1) \subseteq Nat
    BY <1>1
  <2> HIDE DEF T
  <2>4. QED
    BY <2>2, <2>3
<1>5. \E i \in T : \A j \in T : i <= j
  <2> HIDE DEF T
  <2> QED BY <1>4, Deleting!LeastNat
<1>6. \E i \in T : \A j \in refused : i <= j
  BY <1>5
<1>7. FirstRefused \in T
  <2> HIDE DEF T
  <2> QED BY <1>3, <1>6
<1>8. QED
  BY <1>1, <1>4, <1>7

LEMMA EnterSSSKeeps ==
  ASSUME MemoryOK, EnterSSS
  PROVE  /\ MemoryOK'
         /\ CurrentInMemory'
         /\ RowsFit => RowsFit'
<1> DEFINE first == FirstRefused
           c == IF first > Len(mem) THEN LastUsed(mem, current) ELSE mem[first]
<1>1. Settle(mem, c, rows)
  BY DEF EnterSSS
<1>2. first \in 1..(Len(mem) + 1) /\ Len(mem) \in Nat /\ DOMAIN mem = 1..Len(mem)
  BY FirstRefusedIs
<1>3. IsFiles(mem)
  BY DEF MemoryOK
<1> HIDE DEF first
<1>4. mem = <<>> \/ c \in ToSet(mem)
  <2>1. CASE first > Len(mem)
    BY <1>3, <2>1, LastUsedIs
  <2>2. CASE ~(first > Len(mem))
    <3>1. first \in DOMAIN mem
      BY <1>2, <2>2
    <3>2. QED
      BY <2>2, <3>1 DEF ToSet
  <2>3. QED
    BY <2>1, <2>2
<1> HIDE DEF c
<1>5. QED
  BY <1>1, <1>4, SameFilesKeep

LEMMA DeletestackKeeps ==
  ASSUME MemoryOK, NEW numbers \in StackDeletions, Deletestack(numbers)
  PROVE  /\ MemoryOK'
         /\ RowsFit /\ OneAtATime => RowsFit'
<1>1. numbers \in Seq(Nat \ {0})
  BY StackAssumption
<1>2. CASE ToSet(numbers) \subseteq DOMAIN mem
  <2> DEFINE m == Remaining(numbers)
             r == RowsRemaining(numbers)
             c == IF current \in ToSet(mem) \ ToSet(m) THEN Null ELSE current
  <2>1. Settle(m, c, r)
    BY <1>2 DEF Deletestack
  <2>2. IsFiles(mem) /\ IsRows(rows) /\ numbers \in Seq(Nat)
    BY <1>1, SortedPositions DEF MemoryOK
  <2>3. IsFiles(m)
    BY <1>2, <2>2, RemainingTyped
  <2>4. IsRows(r)
    BY <1>1, <2>2, RowsRemainingTyped
  <2>5. ASSUME RowsFit, OneAtATime PROVE Fits(m, r)
    <3>1. Len(numbers) = 1
      BY <2>5 DEF OneAtATime
    <3>2. mem # <<>>
      <4>1. numbers[1] \in ToSet(numbers)
        BY <1>1, <3>1, ToSetIs
      <4>2. DOMAIN <<>> = {}
        BY EmptySeq
      <4>3. QED
        BY <1>2, <4>1, <4>2
    <3>3. Fits(mem, rows)
      BY <2>5, <3>2 DEF RowsFit
    <3>4. QED
      BY <1>1, <1>2, <2>2, <3>1, <3>3, OneFileDeleted
  <2> HIDE DEF m, r, c
  <2>6. QED
    BY <2>1, <2>3, <2>4, <2>5, SettleKeeps
<1>3. CASE ~(ToSet(numbers) \subseteq DOMAIN mem)
  BY <1>3, MemoryStays DEF Deletestack, memvars
<1>4. QED
  BY <1>2, <1>3

LEMMA AddFileKeeps ==
  ASSUME MemoryOK, NEW f \in Files, NEW property, AddFile(f, property)
  PROVE  /\ MemoryOK'
         /\ CurrentInMemory'
         /\ RowsFit /\ "sss" \in Subprocesses => RowsFit'
<1> DEFINE m == Append(mem, f)
<1>1. PICK r \in {rows, m} : Settle(m, f, r)
  BY DEF AddFile
<1>2. IsFiles(mem) /\ IsRows(rows) /\ Len(mem) \in Nat
  BY LenProperties DEF MemoryOK, IsFiles
<1>3. f \notin ToSet(mem) /\ Len(mem) + 1 <= MaxFiles
  BY DEF AddFile, end
<1>4. IsFiles(m) /\ Len(m) = Len(mem) + 1 /\ f \in ToSet(m)
  BY <1>2, <1>3, AppendTyped
<1> HIDE DEF m
<1>5. IsRows(r)
  BY <1>2, <1>4, FilesAreRows
<1>6. ASSUME RowsFit, "sss" \in Subprocesses PROVE Fits(m, r)
  <2>1. CASE r = m
    BY <1>4, <2>1, FilesAreRows
  <2>2. CASE r = rows
    <3>1. Fits(mem, rows)
      BY <1>6 DEF RowsFit
    <3>2. rows = NoRows \/ Len(rows) \in Nat
      BY <1>2, LenProperties DEF IsRows
    <3>3. QED
      BY <1>2, <1>4, <2>2, <3>1, <3>2 DEF Fits
  <2>3. QED
    BY <2>1, <2>2
<1>7. QED
  BY <1>1, <1>4, <1>5, <1>6, SettleKeeps

LEMMA StackKeeps ==
  ASSUME MemoryOK, StackCommand
  PROVE  /\ MemoryOK'
         /\ CurrentInMemory /\ StackDeletions = {} => CurrentInMemory'
         /\ RowsFit /\ "sss" \in Subprocesses /\ OneAtATime => RowsFit'
<1>1. ASSUME NEW p, Addstack(p)
      PROVE  /\ MemoryOK'
             /\ CurrentInMemory => CurrentInMemory'
             /\ RowsFit /\ "sss" \in Subprocesses => RowsFit'
  <2>1. CASE AddMissing(p)
    BY <2>1, MemoryStays DEF AddMissing, memvars
  <2>2. ASSUME NEW f \in OnDisk, AddFile(f, p)
        PROVE  /\ MemoryOK'
               /\ CurrentInMemory'
               /\ RowsFit /\ "sss" \in Subprocesses => RowsFit'
    <3>1. f \in Files
      BY StackAssumption
    <3>2. QED
      BY <2>2, <3>1, AddFileKeeps
  <2>3. QED
    BY <1>1, <2>1, <2>2 DEF Addstack
<1>2. CASE UNCHANGED memvars
  BY <1>2, MemoryStays
<1>3. CASE Zerostack
  <2>1. Settle(<<>>, current, NoRows)
    BY <1>3 DEF Zerostack
  <2>2. IsRows(NoRows) /\ Fits(<<>>, NoRows)
    BY DEF IsRows, Fits
  <2>3. QED
    BY <2>1, <2>2, NoFiles, SettleKeeps
<1>4. IsFiles(mem) /\ (mem = <<>> \/ LastUsed(mem, current) \in ToSet(mem))
       /\ (CurrentInMemory => mem = <<>> \/ current \in ToSet(mem))
  BY LastUsedIs DEF MemoryOK, CurrentInMemory
<1>5. CASE SumFiles
  BY <1>4, <1>5, SameFilesKeep DEF SumFiles
<1>6. CASE Settle(mem, LastUsed(mem, current), Committed(mem, rows))
  BY <1>4, <1>6, SameFilesKeep
<1>7. ASSUME NEW i, NEW p, Changestack(i, p) PROVE UNCHANGED memvars
  BY <1>7 DEF Changestack
<1>8. ASSUME NEW p, Globalstack(p) PROVE UNCHANGED memvars
  BY <1>8 DEF Globalstack
<1>9. Incrementstack => UNCHANGED memvars
  BY DEF Incrementstack
<1>10. ASSUME NEW on, Deltacheck(on) PROVE UNCHANGED memvars
  BY <1>10 DEF Deltacheck
<1>11. ASSUME NEW length, Timewindow(length) PROVE UNCHANGED memvars
  BY <1>11 DEF Timewindow
<1>12. Sumstack => SumFiles \/ UNCHANGED memvars
  BY DEF Sumstack, SumRefused
<1>13. Writestack => \/ UNCHANGED memvars
                     \/ Settle(mem, LastUsed(mem, current), Committed(mem, rows))
  BY DEF Writestack
<1>14. QED
  BY <1>1, <1>2, <1>3, <1>5, <1>6, <1>7, <1>8, <1>9, <1>10, <1>11, <1>12, <1>13,
     DeletestackKeeps DEF StackCommand
-----------------------------------------------------------------------------
(* ... and those of SPE.                                                   *)

LEMMA EnterSPEKeeps ==
  ASSUME MemoryOK, EnterSPE
  PROVE  /\ MemoryOK' /\ mem' = mem
         /\ CurrentInMemory => CurrentInMemory'
         /\ RowsFit => RowsFit'
<1> DEFINE c == IF Len(mem) = 1 THEN mem[1] ELSE current
<1>1. Settle(mem, c, rows)
  BY DEF EnterSPE
<1>2. DOMAIN mem = 1..Len(mem)
  BY LenProperties DEF MemoryOK, IsFiles
<1>3. CurrentInMemory => mem = <<>> \/ c \in ToSet(mem)
  BY <1>2 DEF CurrentInMemory, ToSet
<1> HIDE DEF c
<1>4. QED
  BY <1>1, <1>3, SameFilesKeep

LEMMA SpectralCommandKeepsMemory == SpectralCommand => UNCHANGED memvars
<1> SUFFICES ASSUME SpectralCommand PROVE UNCHANGED memvars
  OBVIOUS
<1>1. ASSUME NEW prewhiten, Cor(prewhiten) PROVE UNCHANGED memvars
  BY <1>1 DEF Cor
<1>2. ASSUME NEW method, Estimates(method) PROVE UNCHANGED memvars
  BY <1>2 DEF Estimates
<1>3. ASSUME NEW there, Written(there) PROVE UNCHANGED memvars
  BY <1>3 DEF Written
<1>4. xwhiten => UNCHANGED memvars
  BY DEF xwhiten
<1>5. Readcor => UNCHANGED memvars
  BY DEF Readcor
<1>6. QED
  BY <1>1, <1>2, <1>3, <1>4, <1>5 DEF SpectralCommand

\* What SPE's READ and DATAGEN do to memory.
LEMMA SpectralReads ==
  ASSUME NEW list, NEW more, ReadSPE(list, more) \/ DatagenSPE(list, more)
  PROVE  ReadFiles(list, more)
BY DEF ReadSPE, DatagenSPE, Read

-----------------------------------------------------------------------------
(* All of them: the invariant of the memory.                               *)

MemoryInv ==
  /\ MemoryOK /\ Saved
  /\ StackDeletions = {} => CurrentInMemory
  /\ Regular => RowsFit
  /\ comlist = "sss" => "sss" \in Subprocesses

LEMMA MemoryInvInit == Init => MemoryInv
<1> SUFFICES ASSUME Init PROVE MemoryInv
  OBVIOUS
<1>1. mem = <<>> /\ current = Null /\ rows = NoRows /\ kecmem = "SAVE" /\ comlist = "main"
  BY DEF Init, MemoryInit, FilesInit
<1>2. MemoryOK
  BY <1>1, NoFiles DEF MemoryOK, IsRows, Pointers
<1>3. QED
  BY <1>1, <1>2 DEF MemoryInv, Saved, CurrentInMemory, RowsFit, Fits

(* Only READERR changes what becomes of the memory when no file is found.  *)
LEMMA KecmemMoves ==
  ASSUME [Next]_vars PROVE kecmem' = kecmem \/ kecmem' \in MemoryActions
<1>1. MainCommand => kecmem' = kecmem \/ kecmem' \in MemoryActions
  <2>1. \A list, more : Read(list, more) => UNCHANGED kecmem
    BY DEF Read, ReadFiles
  <2>2. \A n : Funcgen(n) => UNCHANGED kecmem
    BY DEF Funcgen
  <2>3. \A numbers : DeleteNumbers(numbers) => UNCHANGED kecmem
    BY DEF DeleteNumbers
  <2>4. \A names : DeleteNames(names) => UNCHANGED kecmem
    BY DEF DeleteNames
  <2>5. \A windows : Cutim(windows) => UNCHANGED kecmem
    BY DEF Cutim
  <2>6. (DeleteAll \/ Write \/ Sort) => UNCHANGED kecmem
    BY DEF DeleteAll, Write, Sort
  <2>7. \A memory : Readerr(memory) => kecmem' = memory
    BY DEF Readerr
  <2>8. QED
    BY <2>1, <2>2, <2>3, <2>4, <2>5, <2>6, <2>7 DEF MainCommand
<1>2. SpectralStep => UNCHANGED kecmem
  <2>1. \A list, more : ReadSPE(list, more) => UNCHANGED kecmem
    BY DEF ReadSPE, ReadFiles
  <2>2. \A list, more : DatagenSPE(list, more) => UNCHANGED kecmem
    BY DEF DatagenSPE, Read, ReadFiles
  <2>3. QED
    BY <2>1, <2>2 DEF SpectralStep
<1>3. UNCHANGED vars => UNCHANGED kecmem
  BY DEF vars
<1>4. QED
  BY <1>1, <1>2, <1>3 DEF Next, Main, Stacking, StackStep, Spectra

LEMMA SavedKept ==
  ASSUME Saved, [Next]_vars PROVE Saved'
<1>1. CASE kecmem' = kecmem
  BY <1>1 DEF Saved
<1>2. CASE kecmem' \in MemoryActions
  BY <1>2, SessionAssumption DEF Saved
<1>3. QED
  BY <1>1, <1>2, KecmemMoves

LEMMA MemoryInvKept == MemoryInv /\ [Next]_vars => MemoryInv'
<1> SUFFICES ASSUME MemoryInv, [Next]_vars PROVE MemoryInv'
  OBVIOUS
<1>0. /\ MemoryOK /\ Saved
      /\ StackDeletions = {} => CurrentInMemory
      /\ Regular => RowsFit
      /\ Regular => OneAtATime
  BY DEF MemoryInv, Regular
<1>1. Saved'
  BY <1>0, SavedKept
<1>2. /\ MemoryOK'
      /\ StackDeletions = {} => CurrentInMemory'
      /\ Regular => RowsFit'
      /\ comlist' = "sss" => "sss" \in Subprocesses
  <2>1. CASE Main
    BY <1>0, <2>1, MainKeeps DEF Main
  <2>2. CASE Stacking
    BY <1>0, <2>2, EnterSSSKeeps DEF Stacking
  <2>3. CASE StackStep
    <3>1. "sss" \in Subprocesses
      BY <2>3 DEF StackStep, MemoryInv
    <3>2. CASE StackCommand
      BY <1>0, <2>3, <3>1, <3>2, StackKeeps DEF StackStep
    <3>3. CASE LeaveSSS
      BY <1>0, <3>1, <3>3, MemoryStays DEF LeaveSSS
    <3>4. QED
      BY <2>3, <3>2, <3>3 DEF StackStep
  <2>4. CASE Spectra
    BY <1>0, <2>4, EnterSPEKeeps DEF Spectra
  <2>5. CASE SpectralStep
    <3>1. comlist' # "sss"
      BY <2>5 DEF SpectralStep
    <3>2. CASE UNCHANGED memvars
      BY <1>0, <3>1, <3>2, MemoryStays
    <3>3. ASSUME NEW list \in Lists \cup Samples, NEW more, ReadFiles(list, more)
          PROVE  /\ MemoryOK'
                 /\ StackDeletions = {} => CurrentInMemory'
                 /\ Regular => RowsFit'
      <4>1. Regular => ("sss" \in Subprocesses => Readable /\ kecmem = "SAVE")
        BY <1>0 DEF Regular, Readable, Saved
      <4>2. QED
        BY <1>0, <3>3, <4>1, ReadKeeps
    <3>4. \A list \in Lists, more \in BOOLEAN : ReadSPE(list, more) =>
            list \in Lists \cup Samples /\ ReadFiles(list, more)
      BY SpectralReads
    <3>5. \A list \in Samples, more \in BOOLEAN : DatagenSPE(list, more) =>
            list \in Lists \cup Samples /\ ReadFiles(list, more)
      BY SpectralReads
    <3>6. QED
      BY <2>5, <3>1, <3>2, <3>3, <3>4, <3>5, SpectralCommandKeepsMemory DEF SpectralStep
  <2>6. CASE UNCHANGED vars
    <3>1. UNCHANGED memvars /\ UNCHANGED comlist
      BY <2>6 DEF vars
    <3>2. QED
      BY <1>0, <3>1, MemoryStays DEF MemoryInv
  <2>7. QED
    BY <2>1, <2>2, <2>3, <2>4, <2>5, <2>6 DEF Next
<1>3. QED
  BY <1>1, <1>2 DEF MemoryInv

LEMMA MemoryStaysSound == Spec => []MemoryInv
BY MemoryInvInit, MemoryInvKept, PTL DEF Spec

(* For all files, lists, cuts and deletions, and users who do not delete   *)
(* files from a stack: whatever command ended last, with or without an     *)
(* error, the current file is one of those in memory.                      *)
THEOREM CurrentStaysInMemory ==
  ASSUME StackDeletions = {}
  PROVE  Spec => []CurrentInMemory
<1>1. MemoryInv => CurrentInMemory
  BY DEF MemoryInv
<1>2. QED
  BY <1>1, MemoryStaysSound, PTL

(* Where files are deleted one at a time and no cut fails -- and, where    *)
(* they are stacked as well, no READ, FUNCGEN or cut empties the memory -- *)
(* there is no row of a file that is gone: what COMMIT writes to the       *)
(* workset are the files in memory.                                        *)
THEOREM CommitsWhatIsInMemory ==
  ASSUME Regular
  PROVE  Spec => []CommitsAgree
<1>1. MemoryInv => CommitsAgree
  <2> SUFFICES ASSUME MemoryInv, mem # <<>> PROVE Committed(mem, rows) = mem
    BY DEF CommitsAgree
  <2>1. IsFiles(mem) /\ IsRows(rows) /\ Fits(mem, rows)
    BY DEF MemoryInv, MemoryOK, RowsFit
  <2>2. QED
    BY <2>1, CommittedTyped
<1>2. QED
  BY <1>1, MemoryStaysSound, PTL

-----------------------------------------------------------------------------
(* Deletion by number.                                                     *)

LEMMA OthersRemain ==
  ASSUME IsFiles(mem), NEW numbers \in Seq(Nat \ {0}), ToSet(numbers) \subseteq DOMAIN mem
  PROVE  Remaining(numbers) = Others(numbers)
<1> DEFINE list == [m |-> mem, named |-> ToSet(numbers)]
<1>1. mem \in Seq(Files) /\ Len(mem) \in Nat /\ DOMAIN mem = 1..Len(mem)
  BY LenProperties DEF IsFiles
<1>2. Others(numbers) = KeptFrom(list)
  BY DEF Others, KeptFrom, FoldLeft, MapThenFoldSet, Max
<1>3. list.m = mem /\ list.named = ToSet(numbers)
  OBVIOUS
<1> HIDE DEF list
<1>4. DOMAIN list.m = 1..Len(mem)
  BY <1>1, <1>3
<1>5. PICK k : /\ k[0] = <<>>
               /\ \A i \in 1..Len(mem) : k[i] = KeepStep(list, k[i - 1], i)
               /\ KeptFrom(list) = k[Len(mem)]
  BY <1>1, <1>4, KeptFromIs
<1>6. IsKept(k, mem, ToSet(numbers))
  BY <1>3, <1>5 DEF IsKept, KeepStep
<1>7. numbers \in Seq(Nat)
  BY SeqMonotonic
<1>8. Remaining(numbers) = k[Len(mem)]
  BY <1>1, <1>6, <1>7, DeletionLeavesTheOthers
<1>9. QED
  BY <1>2, <1>5, <1>8

(* For all files and deletions, in any order and with numbers given more   *)
(* than once: DELETECHANNEL and DELETESTACK leave the files whose numbers  *)
(* were not given, in their order, and no others.                          *)
THEOREM DeletesWhatIsNamed == Spec => DeletesTheNamed
<1> DEFINE Deletes ==
      /\ comlist = "main" =>
           \A numbers \in Deletions : DeleteNumbers(numbers) /\ nerr' = 0 => mem' = Others(numbers)
      /\ comlist = "sss" =>
           \A numbers \in StackDeletions : Deletestack(numbers) /\ nerr' = 0 => mem' = Others(numbers)
<1>1. ASSUME MemoryInv PROVE Deletes
  <2>1. IsFiles(mem)
    BY <1>1 DEF MemoryInv, MemoryOK
  <2>2. ASSUME NEW numbers \in Deletions, DeleteNumbers(numbers), nerr' = 0
        PROVE  mem' = Others(numbers)
    <3>1. ToSet(numbers) \subseteq DOMAIN mem /\ mem' = Remaining(numbers)
      BY <2>2 DEF DeleteNumbers, Deleted, Settle
    <3>2. numbers \in Seq(Nat \ {0})
      BY InputsAssumption
    <3>3. QED
      BY <2>1, <3>1, <3>2, OthersRemain
  <2>3. ASSUME NEW numbers \in StackDeletions, Deletestack(numbers), nerr' = 0
        PROVE  mem' = Others(numbers)
    <3>1. ToSet(numbers) \subseteq DOMAIN mem /\ mem' = Remaining(numbers)
      BY <2>3 DEF Deletestack, Settle
    <3>2. numbers \in Seq(Nat \ {0})
      BY StackAssumption
    <3>3. QED
      BY <2>1, <3>1, <3>2, OthersRemain
  <2>4. QED
    BY <2>2, <2>3
<1>2. MemoryInv => [Deletes]_vars
  BY <1>1
<1>3. QED
  BY <1>2, MemoryStaysSound, PTL DEF DeletesTheNamed

-----------------------------------------------------------------------------
(* The file that SPE works on.                                             *)

LEMMA SpectralCommandKeepsFile == SpectralCommand => UNCHANGED <<spe, lfile>>
<1> SUFFICES ASSUME SpectralCommand PROVE UNCHANGED <<spe, lfile>>
  OBVIOUS
<1>1. ASSUME NEW prewhiten, Cor(prewhiten) PROVE UNCHANGED <<spe, lfile>>
  BY <1>1 DEF Cor, spevars
<1>2. ASSUME NEW method, Estimates(method) PROVE UNCHANGED <<spe, lfile>>
  BY <1>2 DEF Estimates
<1>3. ASSUME NEW there, Written(there) PROVE UNCHANGED <<spe, lfile>>
  BY <1>3 DEF Written, spevars
<1>4. xwhiten => UNCHANGED <<spe, lfile>>
  BY DEF xwhiten
<1>5. Readcor => UNCHANGED <<spe, lfile>>
  BY DEF Readcor
<1>6. QED
  BY <1>1, <1>2, <1>3, <1>4, <1>5 DEF SpectralCommand

\* The file that SPE takes is the only one.
LEMMA UseFileTakesIt == MemoryOK' /\ UseFile /\ lfile' => mem' = <<spe'>>
<1> SUFFICES ASSUME MemoryOK', UseFile, lfile' PROVE mem' = <<spe'>>
  OBVIOUS
<1>1. Accepted /\ spe' = mem'[1]
  BY DEF UseFile, NoFile
<1>2. mem' \in Seq(Files) /\ Len(mem') = 1
  BY <1>1 DEF MemoryOK, IsFiles, Accepted
<1>3. mem'[1] \in Files
  BY <1>2, ElementOfSeq
<1>4. <<mem'[1]>> \in Seq(Files) /\ Len(<<mem'[1]>>) = 1 /\ <<mem'[1]>>[1] = mem'[1]
  BY <1>3
<1>5. mem' = <<mem'[1]>>
  BY <1>2, <1>4, SeqEqual
<1>6. QED
  BY <1>1, <1>5

\* A command that leaves memory alone leaves spe in it.
LEMMA FileStays ==
  ASSUME lfile => mem = <<spe>>, mem' = mem, UNCHANGED lfile, spe' = Pointer(spe, mem')
  PROVE  lfile' => mem' = <<spe'>>
<1>1. CASE ~lfile
  BY <1>1
<1>2. CASE lfile
  <2>1. ToSet(<<spe>>) = {spe}
    BY DEF ToSet
  <2>2. spe' = spe
    BY <1>2, <2>1 DEF Pointer
  <2>3. QED
    BY <1>2, <2>2
<1>3. QED
  BY <1>1, <1>2

(* Where SPE is not left without its file by a READ that empties the       *)
(* memory and fails, nor by DATAGEN, which does not tell it that there are *)
(* others: the file that COR, WRITECOR and WRITESPE take their data and    *)
(* their header from is the one in memory.                                 *)
THEOREM SpeHasItsFile ==
  ASSUME Readable, \A list \in Samples : ~Exists(list)
  PROVE  Spec => []SpeFile
<1>1. Init => SpeFile
  BY DEF Init, SpeFile
<1>2. MemoryInv /\ MemoryInv' /\ SpeFile /\ [Next]_vars => SpeFile'
  <2> SUFFICES ASSUME MemoryInv, MemoryOK', SpeFile, [Next]_vars, comlist' = "spe", lfile'
               PROVE  mem' = <<spe'>>
    BY DEF SpeFile, MemoryInv
  <2>1. CASE Spectra
    BY <2>1, UseFileTakesIt DEF Spectra, EnterSPE
  <2>2. CASE SpectralStep
    <3>0. /\ MemoryOK /\ kecmem = "SAVE"
          /\ lfile => mem = <<spe>>
      BY <2>2 DEF MemoryInv, Saved, Readable, SpectralStep, SpeFile
    <3>1. CASE SpectralCommand
      BY <3>0, <3>1, SpectralCommandKeepsFile, SpectralCommandKeepsMemory DEF memvars
    <3>2. ASSUME NEW list \in Lists, NEW more, ReadSPE(list, more) PROVE mem' = <<spe'>>
      <4>1. CASE ReadFails(list, more)
        <5>1. mem' = mem
          BY <3>0, <3>2, <4>1, ReadKeeps DEF ReadSPE
        <5>2. UNCHANGED lfile /\ spe' = Pointer(spe, mem')
          BY <3>2, <4>1 DEF ReadSPE
        <5>3. QED
          BY <3>0, <5>1, <5>2, FileStays
      <4>2. CASE ~ReadFails(list, more)
        BY <3>2, <4>2, UseFileTakesIt DEF ReadSPE
      <4>3. QED
        BY <4>1, <4>2
    <3>3. ASSUME NEW list \in Samples, NEW more, DatagenSPE(list, more) PROVE mem' = <<spe'>>
      <4>1. ReadFails(list, more) /\ ReadFiles(list, more)
        BY <3>3 DEF ReadFails, DatagenSPE, Read
      <4>2. mem' = mem
        BY <3>0, <4>1, ReadKeeps
      <4>3. UNCHANGED lfile /\ spe' = Pointer(spe, mem')
        BY <3>3 DEF DatagenSPE
      <4>4. QED
        BY <3>0, <4>2, <4>3, FileStays
    <3>4. QED
      BY <2>2, <3>1, <3>2, <3>3 DEF SpectralStep
  <2>3. CASE UNCHANGED vars
    BY <2>3 DEF vars, memvars, spevars, SpeFile
  <2>4. QED
    BY <2>1, <2>2, <2>3 DEF Next, Main, Stacking, StackStep
<1>3. QED
  BY <1>1, <1>2, MemoryStaysSound, PTL DEF Spec
-----------------------------------------------------------------------------
(* Types: the stack.                                                       *)

\* The slots after each deletion.
SlotState(state) == /\ state.len \in Int /\ state.len <= MaxFiles
                    /\ state.slot \in [Slots -> Values]

SlotStep(sorted, state, i) ==
  IF i > 1 /\ sorted[i] = sorted[i - 1] THEN state
  ELSE [len  |-> state.len - 1,
        slot |-> [j \in Slots |-> IF j \in sorted[i]..(state.len - 2)
                                  THEN state.slot[j + 1] ELSE state.slot[j]]]

MovingSlots == INSTANCE Folding WITH op <- SlotStep

SlotsOf(sorted) ==
  LET delete(state, i) ==
        IF i > 1 /\ sorted[i] = sorted[i - 1] THEN state
        ELSE [len  |-> state.len - 1,
              slot |-> [j \in Slots |-> IF j \in sorted[i]..(state.len - 2)
                                        THEN state.slot[j + 1] ELSE state.slot[j]]]
  IN  FoldLeft(delete, [len |-> Len(mem), slot |-> slot], [i \in DOMAIN sorted |-> i])

AllSlots == [len |-> Len(mem), slot |-> slot]

LEMMA SlotsOfIs ==
  ASSUME NEW n \in Nat, NEW sorted, DOMAIN sorted = 1..n
  PROVE  \E g : /\ g[0] = AllSlots
                /\ \A i \in 1..n : g[i] = SlotStep(sorted, g[i - 1], i)
                /\ SlotsOf(sorted) = g[n]
<1> DEFINE q == [i \in 1..n |-> i]
<1>1. q = [i \in DOMAIN sorted |-> i] /\ DOMAIN q = 1..n
  OBVIOUS
<1>2. SlotsOf(sorted) = MovingSlots!Fold(sorted, n, q, AllSlots)
  BY <1>1 DEF SlotsOf, SlotStep, FoldLeft, MapThenFoldSet, Max, MovingSlots!Fold, AllSlots
<1>3. \A i \in 1..n : q[i] = i
  OBVIOUS
<1> HIDE DEF q
<1>4. PICK g : /\ MovingSlots!Iterates(g, sorted, n, q, AllSlots)
               /\ g[n] = MovingSlots!Fold(sorted, n, q, AllSlots)
  BY MovingSlots!FoldLeftIs
<1>5. g[0] = AllSlots /\ \A i \in 1..n : g[i] = SlotStep(sorted, g[i - 1], i)
  BY <1>3, <1>4 DEF MovingSlots!Iterates
<1>6. QED
  BY <1>2, <1>4, <1>5

LEMMA SlotStepTyped ==
  ASSUME NEW state, SlotState(state), NEW sorted, NEW i \in Nat, sorted[i] \in Nat \ {0}
  PROVE  SlotState(SlotStep(sorted, state, i))
<1>1. CASE i > 1 /\ sorted[i] = sorted[i - 1]
  BY <1>1 DEF SlotStep
<1>2. CASE ~(i > 1 /\ sorted[i] = sorted[i - 1])
  <2> DEFINE moved == [j \in Slots |-> IF j \in sorted[i]..(state.len - 2)
                                       THEN state.slot[j + 1] ELSE state.slot[j]]
             after == [len |-> state.len - 1, slot |-> moved]
  <2>1. state.len \in Int /\ state.len <= MaxFiles /\ MaxFiles \in Nat
        /\ state.slot \in [Slots -> Values]
    BY MaxFilesAssumption DEF SlotState
  <2>2. ASSUME NEW j \in Slots PROVE moved[j] \in Values
    <3>1. j \in sorted[i]..(state.len - 2) => j + 1 \in Slots
      BY <2>1 DEF Slots
    <3>2. QED
      BY <2>1, <3>1
  <2>3. moved \in [Slots -> Values]
    BY <2>2
  <2> HIDE DEF moved
  <2>4. after.len = state.len - 1 /\ after.slot = moved
    OBVIOUS
  <2>5. SlotStep(sorted, state, i) = after
    BY <1>2 DEF SlotStep, moved
  <2> HIDE DEF after
  <2>6. SlotState(after)
    BY <2>1, <2>3, <2>4 DEF SlotState
  <2>7. QED
    BY <2>5, <2>6
<1>3. QED
  BY <1>1, <1>2

(* DELETESTACK: no slot is read that is not there.                         *)
LEMMA SlotsMovedTyped ==
  ASSUME IsFiles(mem), slot \in [Slots -> Values], NEW positions \in Seq(Nat \ {0})
  PROVE  SlotsMoved(positions) \in [Slots -> Values]
<1> DEFINE d == InDecreasingOrder(positions)
<1>1. d \in Seq(Nat \ {0})
  BY SortedPositions
<1>2. SlotsMoved(positions) = SlotsOf(d).slot
  BY DEF SlotsMoved, SlotsOf
<1> HIDE DEF d
<1>3. /\ Len(d) \in Nat /\ DOMAIN d = 1..Len(d)
      /\ \A i \in 1..Len(d) : d[i] \in Nat \ {0}
  BY <1>1, LenProperties, ElementOfSeq
<1>4. PICK n \in Nat : n = Len(d)
  BY <1>3
<1>5. PICK g : /\ g[0] = AllSlots
               /\ \A i \in 1..n : g[i] = SlotStep(d, g[i - 1], i)
               /\ SlotsOf(d) = g[n]
  <2>1. DOMAIN d = 1..n
    BY <1>3, <1>4
  <2>2. QED
    BY <2>1, SlotsOfIs
<1> DEFINE T == {i \in Nat : i <= n => SlotState(g[i])}
<1>6. 0 \in T
  <2>1. Len(mem) \in Nat /\ Len(mem) <= MaxFiles
    BY LenProperties DEF IsFiles
  <2>2. AllSlots.len = Len(mem) /\ AllSlots.slot = slot
    BY DEF AllSlots
  <2>3. SlotState(AllSlots)
    BY <2>1, <2>2 DEF SlotState
  <2>4. QED
    BY <1>5, <2>3
<1>7. ASSUME NEW i \in Nat, i \in T PROVE i + 1 \in T
  <2> SUFFICES ASSUME i + 1 <= n PROVE SlotState(g[i + 1])
    OBVIOUS
  <2>1. i + 1 \in 1..n /\ (i + 1) - 1 = i /\ i <= n
    OBVIOUS
  <2>2. SlotState(g[i]) /\ g[i + 1] = SlotStep(d, g[i], i + 1)
    BY <1>5, <1>7, <2>1
  <2>3. d[i + 1] \in Nat \ {0}
    BY <1>3, <1>4, <2>1
  <2>4. QED
    BY <2>2, <2>3, SlotStepTyped
<1>8. Nat \subseteq T
  <2> HIDE DEF T
  <2> QED BY <1>6, <1>7, MovingSlots!Induction
<1>9. SlotState(g[n])
  BY <1>8
<1>10. QED
  BY <1>2, <1>5, <1>9 DEF SlotState
LEMMA PropertiesAreValues == Properties \subseteq Values /\ Zero \in Values
<1>1. Properties \subseteq Values /\ MaxDelay \in Nat
  BY PropertiesAssumption DEF Values
<1>2. Zero \in Values
  BY <1>1 DEF Zero, Values
<1>3. QED
  BY <1>1, <1>2

\* What is left of what was known of the files.
LEMMA GivenKeptTyped ==
  ASSUME StackTypeOK, GivenKept PROVE given' \in [Files -> Values \cup {Unset}]
BY DEF StackTypeOK, GivenKept

LEMMA IncrementedTyped ==
  ASSUME NEW p \in Values, p.delay + p.incr <= MaxDelay
  PROVE  p # Unset => Incremented(p) \in Values
<1>1. MaxDelay \in Nat /\ p.delay \in 0..MaxDelay /\ p.incr \in 0..1
  BY PropertiesAssumption DEF Values
<1> DEFINE e == p.delay + p.incr
<1>2. e \in 0..MaxDelay
  BY <1>1
<1> HIDE DEF e
<1>3. [p EXCEPT !.delay = e] \in Values
  BY <1>2 DEF Values
<1>4. QED
  BY <1>3 DEF Incremented, e

LEMMA EnterSSSTyped ==
  ASSUME MemoryOK, StackTypeOK, EnterSSS PROVE StackTypeOK' /\ nerr' \in {0, 1}
<1> DEFINE first == FirstRefused
<1>1. first \in 1..(Len(mem) + 1) /\ DOMAIN mem = 1..Len(mem) /\ Len(mem) \in Nat
  BY FirstRefusedIs
<1>2. mem # <<>> => mem[1] \in Files
  <2>1. mem \in Seq(Files)
    BY DEF MemoryOK, IsFiles
  <2>2. mem # <<>> => 1 \in 1..Len(mem)
    BY <1>1, <2>1, EmptySeq
  <2>3. QED
    BY <2>1, <2>2, ElementOfSeq
<1>3. \A f \in Files : header[f].delta \in Deltas
  BY HeaderAssumption
<1>4. slot' = SlotsGlobal(first) /\ UNCHANGED <<global, lsrc, twlim, sum, nlnsum>>
       /\ given' = [f \in Files |-> IF \E i \in 1..(first - 1) : mem[i] = f THEN global ELSE Unset]
       /\ del' = (IF first > 1 /\ mem # <<>> THEN header[mem[1]].delta ELSE del)
       /\ nerr' \in {0, 1}
  BY DEF EnterSSS, Fails
<1> HIDE DEF first
<1>5. slot' \in [Slots -> Values]
  BY <1>4 DEF StackTypeOK, SlotsGlobal
<1>6. given' \in [Files -> Values \cup {Unset}]
  BY <1>4 DEF StackTypeOK
<1>7. del' \in Deltas \cup {0}
  BY <1>2, <1>3, <1>4 DEF StackTypeOK
<1>8. QED
  BY <1>4, <1>5, <1>6, <1>7 DEF StackTypeOK

LEMMA AddstackTyped ==
  ASSUME MemoryOK, StackTypeOK, NEW p \in Values, Addstack(p)
  PROVE  StackTypeOK' /\ nerr' \in {0, 1}
<1>1. slot' = [slot EXCEPT ![end] = p] /\ UNCHANGED <<global, lsrc, twlim, sum, nlnsum>>
  BY DEF Addstack, AddMissing, AddFile
<1>2. slot' \in [Slots -> Values]
  BY <1>1 DEF StackTypeOK
<1>3. CASE AddMissing(p)
  BY <1>1, <1>2, <1>3 DEF AddMissing, StackTypeOK
<1>4. ASSUME NEW f \in OnDisk, AddFile(f, p) PROVE StackTypeOK' /\ nerr' \in {0, 1}
  <2>1. f \in Files /\ header[f].delta \in Deltas
    BY HeaderAssumption, StackAssumption
  <2>2. given' = [given EXCEPT ![f] = p] /\ del' \in {del, header[f].delta} /\ nerr' \in {0, 1}
    BY <1>4 DEF AddFile, Fails
  <2>3. given' \in [Files -> Values \cup {Unset}]
    BY <2>2 DEF StackTypeOK
  <2>4. QED
    BY <1>1, <1>2, <2>1, <2>2, <2>3 DEF StackTypeOK
<1>5. QED
  BY <1>3, <1>4 DEF Addstack

LEMMA StackTyped ==
  ASSUME MemoryOK, StackTypeOK, StackCommand \/ LeaveSSS
  PROVE  StackTypeOK' /\ nerr' \in {0, 1}
<1>1. \A p \in Properties \cup {global} : p \in Values
  BY PropertiesAreValues DEF StackTypeOK
<1>2. ASSUME NEW p \in Properties \cup {global}, Addstack(p) PROVE StackTypeOK' /\ nerr' \in {0, 1}
  BY <1>1, <1>2, AddstackTyped
<1>3. ASSUME NEW numbers \in StackDeletions, Deletestack(numbers)
      PROVE  StackTypeOK' /\ nerr' \in {0, 1}
  <2>1. numbers \in Seq(Nat \ {0}) /\ IsFiles(mem)
    BY StackAssumption DEF MemoryOK
  <2>2. slot' \in [Slots -> Values]
    BY <1>3, <2>1, SlotsMovedTyped DEF Deletestack, StackTypeOK
  <2>3. given' \in [Files -> Values \cup {Unset}]
    BY <1>3, GivenKeptTyped DEF Deletestack
  <2>4. QED
    BY <1>3, <2>2, <2>3 DEF Deletestack, StackTypeOK
<1>4. ASSUME NEW i \in Slots, NEW p \in Properties, Changestack(i, p)
      PROVE  StackTypeOK' /\ nerr' \in {0, 1}
  <2>1. slot' \in [Slots -> Values]
    BY <1>1, <1>4 DEF Changestack, StackTypeOK
  <2>2. given' \in [Files -> Values \cup {Unset}]
    BY <1>1, <1>4 DEF Changestack, StackTypeOK
  <2>3. QED
    BY <1>4, <2>1, <2>2 DEF Changestack, StackTypeOK
<1>5. ASSUME NEW p \in Properties, Globalstack(p) PROVE StackTypeOK' /\ nerr' \in {0, 1}
  BY <1>1, <1>5 DEF Globalstack, StackTypeOK
<1>6. CASE Incrementstack
  <2>1. ASSUME NEW i \in Slots, i \in DOMAIN mem PROVE Incremented(slot[i]) \in Values
    <3>1. slot[i] \in Values /\ slot[i].delay + slot[i].incr <= MaxDelay
      BY <1>6, <2>1 DEF Incrementstack, StackTypeOK
    <3>2. slot[i] = Unset => Incremented(slot[i]) = slot[i]
      BY DEF Incremented
    <3>3. QED
      BY <3>1, <3>2, IncrementedTyped
  <2>2. slot' \in [Slots -> Values]
    BY <1>6, <2>1 DEF Incrementstack, StackTypeOK
  <2>3. ASSUME NEW f \in Files PROVE Incremented(given[f]) \in Values \cup {Unset}
    <3>1. CASE given[f] = Unset
      BY <3>1 DEF Incremented
    <3>2. CASE given[f] # Unset
      <4>1. given[f] \in Values /\ given[f].delay + given[f].incr <= MaxDelay
        BY <1>6, <3>2 DEF Incrementstack, StackTypeOK
      <4>2. QED
        BY <3>2, <4>1, IncrementedTyped
    <3>3. QED
      BY <3>1, <3>2
  <2>4. given' \in [Files -> Values \cup {Unset}]
    BY <1>6, <2>3 DEF Incrementstack
  <2>5. QED
    BY <1>6, <2>2, <2>4 DEF Incrementstack, StackTypeOK
<1>7. CASE Zerostack
  <2>1. given' \in [Files -> Values \cup {Unset}]
    BY <1>7, GivenKeptTyped DEF Zerostack
  <2>2. nlnsum' \in Nat /\ sum' \in Nat
    BY <1>7 DEF Zerostack, SumReleased, StackTypeOK
  <2>3. QED
    BY <1>7, <2>1, <2>2, PropertiesAreValues DEF Zerostack, StackTypeOK
<1>8. ASSUME NEW on \in Checks, Deltacheck(on) PROVE StackTypeOK' /\ nerr' \in {0, 1}
  <2>1. lsrc' \in BOOLEAN
    BY <1>8, StackAssumption DEF Deltacheck
  <2>2. QED
    BY <1>8, <2>1 DEF Deltacheck, StackTypeOK
<1>9. ASSUME NEW length \in Windows, Timewindow(length) PROVE StackTypeOK' /\ nerr' \in {0, 1}
  BY <1>9 DEF Timewindow, StackTypeOK
<1>10. CASE Sumstack
  <2>1. CASE SumRefused
    BY <2>1 DEF SumRefused, sssvars, StackTypeOK
  <2>2. CASE SumFiles
    <3>1. del \in {1, 2} /\ twlim \in Nat
      BY <2>2, StackAssumption DEF SumFiles, Deltas, StackTypeOK
    <3>2. twlim \div del + 1 \in Nat
      BY <3>1
    <3>3. nlnsum' \in Nat /\ sum' \in Nat /\ nerr' \in {0, 1}
      BY <2>2, <3>2 DEF SumFiles, StackTypeOK
    <3>4. QED
      BY <2>2, <3>3 DEF SumFiles, StackTypeOK
  <2>3. QED
    BY <1>10, <2>1, <2>2 DEF Sumstack
<1>11. CASE Writestack
  BY <1>11 DEF Writestack, sssvars, StackTypeOK
<1>12. CASE LeaveSSS
  BY <1>12 DEF LeaveSSS, StackTypeOK
<1>13. QED
  BY <1>2, <1>3, <1>4, <1>5, <1>6, <1>7, <1>8, <1>9, <1>10, <1>11, <1>12 DEF StackCommand
-----------------------------------------------------------------------------
(* Types: the spectral estimate.                                           *)

Correlations == [of : Pointers \cup {OnFile}, whitened : 0..MaxWhitened]

EstimatesOf == [of        : Pointers \cup {OnFile},
                whitened  : 0..MaxWhitened,
                corrected : 0..(MaxWhitened + 1), method : Methods]

LEMMA SpeTypeIs ==
  SpeTypeOK <=>
    /\ spe \in Pointers
    /\ lfile \in BOOLEAN /\ lcor \in BOOLEAN /\ lspe \in BOOLEAN
    /\ samfrq \in BOOLEAN /\ nlncor \in BOOLEAN
    /\ specor = NotComputed \/ specor \in Correlations
    /\ spespe = NotComputed \/ spespe \in EstimatesOf
    /\ kpspl1 \in Methods \cup {Unset}
    /\ kermsg \in {"zeros", "blank", "message"}
    /\ nprewh \in 0..1 /\ whitened \in 0..MaxWhitened
BY DEF SpeTypeOK, Correlations, EstimatesOf

LEMMA SpeTypeNext ==
  ASSUME spe' \in Pointers,
         lfile' \in BOOLEAN, lcor' \in BOOLEAN, lspe' \in BOOLEAN,
         samfrq' \in BOOLEAN, nlncor' \in BOOLEAN,
         specor' = NotComputed \/ specor' \in Correlations,
         spespe' = NotComputed \/ spespe' \in EstimatesOf,
         kpspl1' \in Methods \cup {Unset},
         kermsg' \in {"zeros", "blank", "message"},
         nprewh' \in 0..1, whitened' \in 0..MaxWhitened
  PROVE  SpeTypeOK'
BY DEF SpeTypeOK, Correlations, EstimatesOf, Pointers, Methods, OnFile, NotComputed

LEMMA PointerTyped ==
  ASSUME NEW c \in Pointers, NEW m PROVE Pointer(c, m) \in Pointers
BY DEF Pointer, Pointers

LEMMA UseFileTyped ==
  ASSUME MemoryOK', SpeTypeOK, UseFile PROVE SpeTypeOK'
<1>1. MaxWhitened \in Nat
  BY SpeAssumption
<1>2. CASE Accepted
  <2>1. mem' \in Seq(Files) /\ 1 \in 1..Len(mem')
    BY <1>2 DEF Accepted, MemoryOK, IsFiles
  <2>2. mem'[1] \in Pointers
    BY <2>1, ElementOfSeq DEF Pointers
  <2>3. /\ spe' \in Pointers /\ lfile' = TRUE /\ lcor' = FALSE /\ lspe' = FALSE
        /\ specor' = NotComputed /\ spespe' = NotComputed
        /\ samfrq' = TRUE /\ whitened' = 0 /\ UNCHANGED <<kpspl1, kermsg, nlncor, nprewh>>
    BY <1>2, <2>2 DEF UseFile, NoResults
  <2>4. 0 \in 0..MaxWhitened
    BY <1>1
  <2>5. QED
    BY <2>3, <2>4, SpeTypeIs, SpeTypeNext
<1>3. CASE ~Accepted
  <2>1. spe' \in Pointers
    BY <1>3, PointerTyped DEF UseFile, SpeTypeOK
  <2>2. QED
    BY <1>3, <2>1, SpeTypeIs, SpeTypeNext DEF UseFile, NoFile
<1>4. QED
  BY <1>2, <1>3

LEMMA SpeTypesStay ==
  ASSUME SpeTypeOK, spe' \in Pointers,
         UNCHANGED <<lfile, lcor, lspe, specor, spespe, kpspl1, kermsg, samfrq,
                     nlncor, nprewh, whitened>>
  PROVE  SpeTypeOK'
BY SpeTypeIs, SpeTypeNext

LEMMA CorTyped ==
  ASSUME SpeTypeOK, NEW prewhiten \in BOOLEAN, Cor(prewhiten)
  PROVE  SpeTypeOK' /\ nerr' \in {0, 1}
<1>1. CASE ~lfile
  BY <1>1, SpeTypesStay, SpeTypeIs, SpeTypeNext DEF Cor, spevars
<1>2. CASE lfile
  <2> DEFINE n == IF prewhiten THEN 1 ELSE 0
  <2>1. n \in {0, 1} /\ MaxWhitened \in Nat
    BY SpeAssumption
  <2>2. \/ /\ BadOrder
           /\ lcor' = FALSE /\ UNCHANGED <<lspe, specor, nlncor>>
        \/ /\ Whiten(n)
           /\ lcor' = FALSE /\ nerr' = 1
           /\ UNCHANGED <<lspe, specor, nlncor, kermsg>>
        \/ /\ Whiten(n)
           /\ Correlate \/ BadWindows
    BY <1>2 DEF Cor
  <2>3. UNCHANGED <<spe, lfile, spespe, kpspl1, samfrq>>
    BY <1>2 DEF Cor
  <2> HIDE DEF n
  <2>4. Whiten(n) => nprewh' \in 0..1 /\ whitened' \in 0..MaxWhitened
    <3>1. ASSUME Whiten(n) PROVE whitened' \in 0..MaxWhitened
      <4>1. whitened \in Nat /\ whitened + n <= MaxWhitened /\ whitened' = whitened + n
        BY <3>1 DEF Whiten, SpeTypeOK
      <4>2. QED
        BY <2>1, <4>1
    <3>2. QED
      BY <2>1, <3>1 DEF Whiten
  <2>5. CASE BadOrder /\ lcor' = FALSE /\ UNCHANGED <<lspe, specor, nlncor>>
    <3>1. /\ nprewh' = 0 /\ kermsg' = "message" /\ nerr' = 1 /\ UNCHANGED whitened
          /\ lcor' = FALSE /\ UNCHANGED <<lspe, specor, nlncor>>
      BY <2>5 DEF BadOrder
    <3>2. 0 \in 0..1
      OBVIOUS
    <3>3. QED
      BY <2>3, <3>1, <3>2, SpeTypeIs, SpeTypeNext
  <2>6. CASE Whiten(n) /\ lcor' = FALSE /\ nerr' = 1 /\ UNCHANGED <<lspe, specor, nlncor, kermsg>>
    BY <2>3, <2>4, <2>6, SpeTypeIs, SpeTypeNext
  <2>7. CASE Whiten(n) /\ Correlate
    <3> DEFINE x == [of |-> spe, whitened |-> whitened']
    <3>1. specor' = x
      BY <2>7 DEF Correlate
    <3>2. x \in Correlations
      BY <2>4, <2>7 DEF Correlations, SpeTypeOK
    <3> HIDE DEF x
    <3>3. specor' \in Correlations'
      BY <3>1, <3>2 DEF Correlations
    <3>4. QED
      BY <2>3, <2>4, <2>7, <3>3, SpeTypeIs, SpeTypeNext DEF Correlate
  <2>8. CASE Whiten(n) /\ BadWindows
    <3>1. nlncor' \in BOOLEAN
      BY <2>8 DEF BadWindows, SpeTypeOK
    <3>2. QED
      BY <2>3, <2>4, <2>8, <3>1, SpeTypeIs, SpeTypeNext DEF BadWindows
  <2>9. QED
    BY <2>2, <2>5, <2>6, <2>7, <2>8
<1>3. QED
  BY <1>1, <1>2

LEMMA EstimateTyped ==
  ASSUME SpeTypeOK, IsCorrelation(specor), NEW method \in Methods, Estimate(method)
  PROVE  spespe' \in EstimatesOf
<1>1. specor # NotComputed
  <2>1. "of" \in DOMAIN specor
    BY DEF IsCorrelation
  <2>2. "of" \notin DOMAIN NotComputed
    BY DEF NotComputed
  <2>3. QED
    BY <2>1, <2>2
<1>2. specor \in Correlations
  BY <1>1, SpeTypeIs
<1>3. nprewh \in 0..1 /\ MaxWhitened \in Nat
  BY SpeAssumption, SpeTypeIs
<1>4. nprewh \in 0..(MaxWhitened + 1)
  BY <1>3
<1>5. specor.of \in Pointers \cup {OnFile} /\ specor.whitened \in 0..MaxWhitened
  BY <1>2 DEF Correlations
<1>6. QED
  BY <1>4, <1>5 DEF Estimate, EstimatesOf

LEMMA EstimatesTyped ==
  ASSUME SpeTypeOK, FlagsTrue, NEW method \in Methods, Estimates(method)
  PROVE  SpeTypeOK' /\ nerr' \in {0, 1}
<1>1. UNCHANGED <<spe, lfile, lcor, specor, samfrq, nlncor, nprewh, whitened>>
  BY DEF Estimates
<1>2. CASE ~lcor
  BY <1>1, <1>2, SpeTypesStay, SpeTypeIs, SpeTypeNext DEF Estimates
<1>3. CASE lcor
  <2>1. \A m \in Methods : Estimate(m) => spespe' \in EstimatesOf
    BY <1>3, EstimateTyped DEF FlagsTrue
  <2>2. CASE method = "PDS"
    <3>1. Pds
      BY <1>3, <2>2 DEF Estimates
    <3>2. CASE /\ nlncor /\ kermsg' = "blank"
               /\ Estimate("PDS") /\ Named("PDS") /\ lspe' = TRUE /\ nerr' = 0
      <4>1. spespe' \in EstimatesOf /\ kpspl1' \in Methods
        BY <2>1, <3>2 DEF Methods, Named
      <4>2. QED
        BY <1>1, <3>2, <4>1, SpeTypeIs, SpeTypeNext
    <3>3. CASE /\ kermsg' = "message" /\ nerr' = 1
               /\ IF spespe = NotComputed THEN UNCHANGED spespe
                  ELSE /\ spespe.corrected + nprewh <= MaxWhitened + 1
                       /\ spespe' = [spespe EXCEPT !.corrected = @ + nprewh]
               /\ UNCHANGED <<kpspl1, lspe>>
      <4>1. spespe' = NotComputed \/ spespe' \in EstimatesOf
        <5>1. CASE spespe = NotComputed
          BY <3>3, <5>1
        <5>2. CASE spespe # NotComputed
          <6> DEFINE e == spespe.corrected + nprewh
          <6>1. spespe \in EstimatesOf /\ nprewh \in 0..1 /\ MaxWhitened \in Nat
            BY <5>2, SpeAssumption, SpeTypeIs
          <6>2. e <= MaxWhitened + 1 /\ spespe' = [spespe EXCEPT !.corrected = e]
            BY <3>3, <5>2
          <6>3. e \in 0..(MaxWhitened + 1)
            BY <6>1, <6>2 DEF EstimatesOf
          <6> HIDE DEF e
          <6>4. QED
            BY <6>1, <6>2, <6>3 DEF EstimatesOf
        <5>3. QED
          BY <5>1, <5>2
      <4>2. QED
        BY <1>1, <3>3, <4>1, SpeTypeIs, SpeTypeNext
    <3>4. QED
      BY <3>1, <3>2, <3>3 DEF Pds
  <2>3. CASE method # "PDS"
    <3>1. Parametric(method)
      BY <1>3, <2>3 DEF Estimates
    <3>2. spespe' \in EstimatesOf
      BY <2>1, <3>1 DEF Parametric
    <3>3. kpspl1' \in {kpspl1, method} /\ lspe' \in {lspe, TRUE}
          /\ kermsg' \in {kermsg, "message"} /\ nerr' \in {0, 1}
      BY <3>1 DEF Parametric, Named
    <3>4. QED
      BY <1>1, <3>2, <3>3, SpeTypeIs, SpeTypeNext
  <2>4. QED
    BY <2>2, <2>3
<1>4. QED
  BY <1>2, <1>3

LEMMA SpectralCommandTyped ==
  ASSUME SpeTypeOK, FlagsTrue, SpectralCommand
  PROVE  SpeTypeOK' /\ nerr' \in {0, 1}
<1>1. ASSUME NEW prewhiten \in Whitenings, Cor(prewhiten) PROVE SpeTypeOK' /\ nerr' \in {0, 1}
  BY <1>1, SpeAssumption, CorTyped
<1>2. CASE xwhiten
  <2>1. UNCHANGED <<spe, lfile, lcor, lspe, specor, spespe, kpspl1, samfrq, nlncor>>
    BY <1>2 DEF xwhiten
  <2>2. /\ nprewh' \in 0..1 /\ whitened' \in 0..MaxWhitened
        /\ kermsg' \in {kermsg, "message"} /\ nerr' \in {0, 1}
    <3>1. MaxWhitened \in Nat /\ whitened \in 0..MaxWhitened /\ nprewh \in 0..1
      BY SpeAssumption, SpeTypeIs
    <3>2. CASE ~lfile
      BY <1>2, <3>1, <3>2 DEF xwhiten
    <3>3. CASE BadOrder
      BY <3>1, <3>3 DEF BadOrder
    <3>4. CASE Whiten(1) /\ Fails(kermsg # "blank") /\ UNCHANGED kermsg
      BY <3>1, <3>4 DEF Whiten, Fails
    <3>5. QED
      BY <1>2, <3>2, <3>3, <3>4 DEF xwhiten
  <2>3. QED
    BY <2>1, <2>2, SpeTypeIs, SpeTypeNext
<1>3. CASE Readcor
  <2>1. PICK read \in BOOLEAN :
          /\ lcor' = read /\ samfrq' = read /\ Fails(~read)
          /\ specor' = IF read THEN [of |-> OnFile, whitened |-> 0] ELSE specor
    BY <1>3 DEF Readcor
  <2>2. [of |-> OnFile, whitened |-> 0] \in Correlations
    BY SpeAssumption DEF Correlations
  <2>3. specor' = NotComputed \/ specor' \in Correlations
    BY <2>1, <2>2, SpeTypeIs
  <2>4. nerr' \in {0, 1}
    BY <2>1 DEF Fails
  <2>5. lcor' \in BOOLEAN /\ samfrq' \in BOOLEAN
    BY <2>1
  <2>6. QED
    BY <1>3, <2>3, <2>4, <2>5, SpeTypeIs, SpeTypeNext DEF Readcor
<1>4. ASSUME NEW there, Written(there) PROVE SpeTypeOK' /\ nerr' \in {0, 1}
  <2>1. spe' \in Pointers /\ nerr' \in {0, 1}
    BY <1>4, SpeTypeIs, SpeTypeNext DEF Written, spevars
  <2>2. QED
    BY <1>4, <2>1, SpeTypesStay DEF Written, spevars
<1>5. QED
  BY <1>1, <1>2, <1>3, <1>4, EstimatesTyped DEF SpectralCommand
-----------------------------------------------------------------------------
(* Types: all of it.                                                       *)

LEMMA StackTypesStay == StackTypeOK /\ UNCHANGED sssvars => StackTypeOK'
BY DEF StackTypeOK, sssvars

LEMMA SpeVarsStay == SpeTypeOK /\ UNCHANGED spevars => SpeTypeOK'
<1> SUFFICES ASSUME SpeTypeOK, UNCHANGED spevars PROVE SpeTypeOK'
  OBVIOUS
<1>1. spe' \in Pointers
  BY DEF spevars, SpeTypeOK
<1>2. QED
  BY <1>1, SpeTypesStay DEF spevars

LEMMA MainEnds == MainCommand => nerr' \in {0, 1}
<1>1. \A list, more : Read(list, more) => nerr' \in {0, 1}
  BY DEF Read, Fails
<1>2. \A n : Funcgen(n) => nerr' \in {0, 1}
  BY DEF Funcgen, Generate, NotGenerated
<1>3. \A numbers : DeleteNumbers(numbers) => nerr' \in {0, 1}
  BY DEF DeleteNumbers
<1>4. \A names : DeleteNames(names) => nerr' \in {0, 1}
  BY DEF DeleteNames
<1>5. \A windows : Cutim(windows) => nerr' \in {0, 1}
  BY DEF Cutim, CutRefused, Cut, Fails
<1>6. \A memory : Readerr(memory) => nerr' \in {0, 1}
  BY DEF Readerr
<1>7. (DeleteAll \/ Write \/ Sort) => nerr' \in {0, 1}
  BY DEF DeleteAll, Write, Sort
<1>8. QED
  BY <1>1, <1>2, <1>3, <1>4, <1>5, <1>6, <1>7 DEF MainCommand

LEMMA SpectralStepTyped ==
  ASSUME SpeTypeOK, FlagsTrue, MemoryOK', SpectralStep
  PROVE  SpeTypeOK' /\ nerr' \in {0, 1}
<1>1. CASE SpectralCommand
  BY <1>1, SpectralCommandTyped
<1>2. spe \in Pointers
  BY SpeTypeIs
<1>3. ASSUME NEW list, NEW more, ReadSPE(list, more) PROVE SpeTypeOK' /\ nerr' \in {0, 1}
  <2>1. CASE ReadFails(list, more)
    <3>1. spe' \in Pointers
      BY <1>2, <1>3, <2>1, PointerTyped DEF ReadSPE
    <3>2. QED
      BY <1>3, <2>1, <3>1, SpeTypesStay DEF ReadSPE
  <2>2. CASE ~ReadFails(list, more)
    BY <1>3, <2>2, UseFileTyped DEF ReadSPE, Fails
  <2>3. QED
    BY <2>1, <2>2
<1>4. ASSUME NEW list, NEW more, DatagenSPE(list, more) PROVE SpeTypeOK' /\ nerr' \in {0, 1}
  <2>1. spe' \in Pointers
    BY <1>2, <1>4, PointerTyped DEF DatagenSPE
  <2>2. nerr' \in {0, 1}
    BY <1>4 DEF DatagenSPE, Read, Fails
  <2>3. QED
    BY <1>4, <2>1, <2>2, SpeTypesStay DEF DatagenSPE
<1>5. CASE LeaveSPE
  <2>1. spe' \in Pointers
    BY <1>5 DEF LeaveSPE, Pointers
  <2>2. QED
    BY <1>5, <2>1, SpeTypeIs, SpeTypeNext DEF LeaveSPE
<1>6. QED
  BY <1>1, <1>3, <1>4, <1>5 DEF SpectralStep

(* For all files, lists, cuts, properties and mistakes: every variable has *)
(* its type.  In particular no command leaves more files than fit or a     *)
(* file twice, no command of SSS reads or writes a slot that is not there, *)
(* and no estimate is made from a correlation that was not computed.       *)
THEOREM TypeCorrect == Spec => []TypeOK
<1>1. Init => TypeOK
  <2> SUFFICES ASSUME Init PROVE TypeOK
    OBVIOUS
  <2>1. MemoryTypeOK /\ FilesTypeOK /\ comlist = "main"
    <3>1. MemoryOK
      BY MemoryInvInit DEF MemoryInv
    <3>2. QED
      BY <3>1, TypeIsMemoryOK DEF Init, MemoryInit, FilesInit, FilesTypeOK
  <2>2. StackTypeOK
    BY PropertiesAreValues DEF Init, StackInit, StackTypeOK
  <2>3. SpeTypeOK
    <3>1. 0 \in 0..MaxWhitened /\ 0 \in 0..1
      BY SpeAssumption
    <3>2. QED
      BY <3>1, SpeTypeIs DEF Init, SpeInit, Pointers
  <2>4. QED
    BY <2>1, <2>2, <2>3 DEF TypeOK
<1>2. /\ MemoryInv /\ MemoryInv' /\ (comlist = "spe" => FlagsTrue)
      /\ TypeOK /\ [Next]_vars
      => TypeOK'
  <2> SUFFICES ASSUME MemoryInv, MemoryInv', comlist = "spe" => FlagsTrue, TypeOK, [Next]_vars
               PROVE  TypeOK'
    OBVIOUS
  <2>1. MemoryOK /\ MemoryOK' /\ StackTypeOK /\ SpeTypeOK /\ nerr \in {0, 1}
        /\ comlist \in {"main"} \cup Subprocesses /\ kecmem \in {"SAVE", "DELETE"}
    BY DEF TypeOK, MemoryInv, MemoryTypeOK, FilesTypeOK
  <2>2. kecmem' \in {"SAVE", "DELETE"}
    BY <2>1, KecmemMoves, SessionAssumption
  <2>3. /\ StackTypeOK' /\ SpeTypeOK' /\ nerr' \in {0, 1}
        /\ comlist' \in {"main"} \cup Subprocesses
    <3>1. CASE Main
      BY <2>1, <3>1, MainEnds, StackTypesStay, SpeVarsStay DEF Main
    <3>2. CASE Stacking
      BY <2>1, <3>2, EnterSSSTyped, SpeVarsStay DEF Stacking
    <3>3. CASE StackStep
      BY <2>1, <3>3, StackTyped, SpeVarsStay DEF StackStep
    <3>4. CASE Spectra
      <4>1. UseFile /\ Fails(~Accepted)
        BY <3>4 DEF Spectra, EnterSPE
      <4>2. SpeTypeOK' /\ nerr' \in {0, 1}
        BY <2>1, <4>1, UseFileTyped DEF Fails
      <4>3. QED
        BY <2>1, <3>4, <4>2, StackTypesStay DEF Spectra
    <3>5. CASE SpectralStep
      <4>1. SpeTypeOK' /\ nerr' \in {0, 1}
        BY <2>1, <3>5, SpectralStepTyped DEF SpectralStep
      <4>2. QED
        BY <2>1, <3>5, <4>1, StackTypesStay DEF SpectralStep
    <3>6. CASE UNCHANGED vars
      BY <2>1, <3>6, StackTypesStay, SpeVarsStay DEF vars
    <3>7. QED
      BY <3>1, <3>2, <3>3, <3>4, <3>5, <3>6 DEF Next
  <2>4. MemoryTypeOK'
    BY <2>1, <2>3 DEF MemoryTypeOK, MemoryOK, IsFiles, IsRows, Pointers
  <2>5. QED
    BY <2>2, <2>3, <2>4 DEF TypeOK, FilesTypeOK
<1>3. QED
  BY <1>1, <1>2, MemoryStaysSound, FlagsStayTrue, PTL DEF Spec
-----------------------------------------------------------------------------
(* The properties of the files in the stack.                               *)

\* The files that are deleted are the last ones.
AtTheEnd(numbers) ==
  ToSet(numbers) \subseteq DOMAIN mem =>
    \E k \in 1..(Len(mem) + 1) : ToSet(numbers) = k..Len(mem)

\* DELETESTACK is only given those.
OnlyLastOnes ==
  comlist = "sss" =>
    \A numbers \in StackDeletions : Deletestack(numbers) => AtTheEnd(numbers)

\* All the numbers from k to n, in decreasing order.
Descends(d, l, k, n) ==
  /\ \A i \in 1..l : d[i] \in Nat
  /\ {d[i] : i \in 1..l} = k..n
  /\ \A i, j \in 1..l : i < j => d[i] >= d[j]

LEMMA NextBelow ==
  ASSUME NEW k \in Nat, NEW n \in Nat, NEW l \in Nat, NEW d, Descends(d, l, k, n),
         NEW i \in 1..l
  PROVE  /\ i = 1 => d[i] = n
         /\ i > 1 => d[i] \in {d[i - 1], d[i - 1] - 1}
<1> USE DEF Descends
<1>1. \A j \in 1..l : d[j] \in k..n
  OBVIOUS
<1>2. ASSUME i = 1 PROVE d[i] = n
  <2>1. n \in k..n
    BY <1>1
  <2>2. PICK j \in 1..l : d[j] = n
    BY <2>1
  <2>3. i = j \/ i < j
    BY <1>2
  <2>4. d[i] >= n
    BY <2>2, <2>3
  <2>5. QED
    BY <1>1, <2>4
<1>3. ASSUME i > 1, d[i] # d[i - 1], d[i] # d[i - 1] - 1 PROVE FALSE
  <2>1. i - 1 \in 1..l /\ i - 1 < i
    BY <1>3
  <2>2. d[i - 1] >= d[i]
    BY <2>1
  <2>3. d[i] + 1 \in k..n /\ d[i] + 1 < d[i - 1]
    BY <1>1, <1>3, <2>1, <2>2
  <2>4. PICK j \in 1..l : d[j] = d[i] + 1
    BY <2>3
  <2>5. CASE j < i
    <3>1. j = i - 1 \/ j < i - 1
      BY <2>5
    <3>2. d[j] >= d[i - 1]
      BY <1>1, <2>1, <3>1
    <3>3. QED
      BY <1>1, <2>1, <2>3, <2>4, <3>2
  <2>6. CASE i < j
    <3>1. d[i] >= d[j]
      BY <2>6
    <3>2. QED
      BY <1>1, <2>4, <3>1
  <2>7. CASE i = j
    BY <1>1, <2>4, <2>7
  <2>8. QED
    BY <2>5, <2>6, <2>7
<1>4. QED
  BY <1>2, <1>3

\* When the last files are deleted no slot has to move, and none does.
LEMMA SlotsStay ==
  ASSUME IsFiles(mem), slot \in [Slots -> Values],
         NEW positions \in Seq(Nat \ {0}), NEW k \in 1..(Len(mem) + 1),
         ToSet(positions) = k..Len(mem)
  PROVE  SlotsMoved(positions) = slot
<1> DEFINE d == InDecreasingOrder(positions)
<1>1. positions \in Seq(Nat) /\ d \in Seq(Nat \ {0}) /\ Len(d) = Len(positions)
      /\ ToSet(d) = k..Len(mem)
  BY SortedPositions
<1>2. \A i, j \in 1..Len(positions) : i < j => d[i] >= d[j]
  BY <1>1, DecreasingOrderIs
<1>3. SlotsMoved(positions) = SlotsOf(d).slot
  BY DEF SlotsMoved, SlotsOf
<1>4. PICK m \in Nat : m = Len(mem)
  BY LenProperties DEF IsFiles
<1> HIDE DEF d
<1>5. /\ Len(d) \in Nat /\ DOMAIN d = 1..Len(d)
      /\ \A i \in 1..Len(d) : d[i] \in Nat
  BY <1>1, LenProperties, ElementOfSeq
<1>6. PICK n \in Nat : n = Len(d)
  BY <1>5
<1>7. PICK g : /\ g[0] = AllSlots
               /\ \A i \in 1..n : g[i] = SlotStep(d, g[i - 1], i)
               /\ SlotsOf(d) = g[n]
  <2>1. DOMAIN d = 1..n
    BY <1>5, <1>6
  <2>2. QED
    BY <2>1, SlotsOfIs
<1>8. {d[i] : i \in 1..n} = k..m
  BY <1>1, <1>4, <1>6, ToSetIs
<1>9. ASSUME NEW i \in 1..n
      PROVE  /\ i = 1 => d[i] = m
             /\ i > 1 => d[i] \in {d[i - 1], d[i - 1] - 1}
  <2>1. k \in Nat
    BY <1>4
  <2>2. Descends(d, n, k, m)
    BY <1>1, <1>2, <1>5, <1>6, <1>8 DEF Descends
  <2>3. QED
    BY <2>1, <2>2, NextBelow
<1> DEFINE T == {i \in Nat : i <= n => /\ g[i].slot = slot
                                       /\ g[i].len = (IF i = 0 THEN m ELSE d[i] - 1)}
<1>10. 0 \in T
  <2>1. AllSlots.len = m /\ AllSlots.slot = slot
    BY <1>4 DEF AllSlots
  <2>2. QED
    BY <1>7, <2>1
<1>11. ASSUME NEW i \in Nat, i \in T PROVE i + 1 \in T
  <2> SUFFICES ASSUME i + 1 <= n
               PROVE  g[i + 1].slot = slot /\ g[i + 1].len = d[i + 1] - 1
    OBVIOUS
  <2>1. i + 1 \in 1..n /\ (i + 1) - 1 = i /\ i <= n /\ (i # 0 => i \in 1..n)
    OBVIOUS
  <2>2. g[i].slot = slot /\ g[i].len = (IF i = 0 THEN m ELSE d[i] - 1)
    BY <1>11, <2>1
  <2>3. g[i + 1] = SlotStep(d, g[i], i + 1)
    BY <1>7, <2>1
  <2>4. /\ i + 1 = 1 => d[i + 1] = m
        /\ i + 1 > 1 => d[i + 1] \in {d[i], d[i] - 1}
    BY <1>9, <2>1
  <2>5. CASE i + 1 > 1 /\ d[i + 1] = d[i]
    <3>1. g[i + 1] = g[i]
      BY <2>1, <2>3, <2>5 DEF SlotStep
    <3>2. QED
      BY <2>2, <2>5, <3>1
  <2>6. CASE ~(i + 1 > 1 /\ d[i + 1] = d[i])
    <3>1. d[i + 1] = g[i].len /\ d[i + 1] \in Nat
      BY <1>5, <1>6, <2>1, <2>2, <2>4, <2>6
    <3> DEFINE moved == [j \in Slots |-> IF j \in d[i + 1]..(g[i].len - 2)
                                         THEN g[i].slot[j + 1] ELSE g[i].slot[j]]
               after == [len |-> g[i].len - 1, slot |-> moved]
    <3>2. \A j \in Slots : ~(j \in d[i + 1]..(g[i].len - 2))
      BY <3>1
    <3>3. moved = slot
      BY <2>2, <3>2
    <3> HIDE DEF moved
    <3>4. after.len = g[i].len - 1 /\ after.slot = moved
      OBVIOUS
    <3>5. SlotStep(d, g[i], i + 1) = after
      BY <2>1, <2>6 DEF SlotStep, moved
    <3> HIDE DEF after
    <3>6. QED
      BY <2>3, <3>1, <3>3, <3>4, <3>5
  <2>7. QED
    BY <2>5, <2>6
<1>12. Nat \subseteq T
  <2> HIDE DEF T
  <2> QED BY <1>10, <1>11, MovingSlots!Induction
<1>13. g[n].slot = slot
  BY <1>12
<1>14. QED
  BY <1>3, <1>7, <1>13

\* ... and the files below them keep their positions.
LEMMA FilesStay ==
  ASSUME IsFiles(mem), NEW positions \in Seq(Nat \ {0}), NEW k \in 1..(Len(mem) + 1),
         ToSet(positions) = k..Len(mem)
  PROVE  /\ Len(Remaining(positions)) = k - 1
         /\ \A e \in 1..(k - 1) : Remaining(positions)[e] = mem[e]
<1>1. mem \in Seq(Files) /\ positions \in Seq(Nat)
  BY SeqMonotonic DEF IsFiles
<1>2. PICK m \in Nat : m = Len(mem) /\ DOMAIN mem = 1..m
  BY <1>1, LenProperties
<1>3. PICK c \in Nat : k = c + 1 /\ c <= m
  <2>1. k - 1 \in Nat /\ k = (k - 1) + 1 /\ k - 1 <= m
    BY <1>2
  <2>2. QED
    BY <2>1
<1> DEFINE named == ToSet(positions)
<1>4. named = k..m
  BY <1>2
<1> HIDE DEF named
<1>5. PICK keep : IsKept(keep, mem, named)
  BY <1>1, KeptExists
<1>6. ToSet(positions) \subseteq DOMAIN mem
  BY <1>2
<1>7. Remaining(positions) = keep[m]
  BY <1>1, <1>2, <1>5, <1>6, DeletionLeavesTheOthers DEF named
<1> DEFINE Stay(i) == IF i <= c THEN i ELSE c
           T == {i \in Nat : i <= m => /\ Len(keep[i]) = Stay(i)
                                       /\ \A e \in 1..Stay(i) : keep[i][e] = mem[e]}
<1>8. 0 \in T
  <2>1. keep[0] = <<>> /\ Len(keep[0]) = 0
    BY <1>5, EmptySeq DEF IsKept
  <2>2. Stay(0) = 0 /\ \A e \in 1..0 : FALSE
    BY <1>3
  <2>3. QED
    BY <2>1, <2>2
<1>9. ASSUME NEW i \in Nat, i \in T PROVE i + 1 \in T
  <2> SUFFICES ASSUME i + 1 <= m
               PROVE  /\ Len(keep[i + 1]) = Stay(i + 1)
                      /\ \A e \in 1..Stay(i + 1) : keep[i + 1][e] = mem[e]
    OBVIOUS
  <2>1. /\ Len(keep[i]) = Stay(i) /\ i <= m
        /\ \A e \in 1..Stay(i) : keep[i][e] = mem[e]
    BY <1>9
  <2>2. i + 1 \in 1..Len(mem) /\ (i + 1) - 1 = i /\ i \in 0..Len(mem)
    BY <1>2
  <2>3. keep[i + 1] = IF i + 1 \in named THEN keep[i] ELSE Append(keep[i], mem[i + 1])
    BY <1>5, <2>2 DEF IsKept
  <2>4. CASE i + 1 > c
    <3>1. i + 1 \in named /\ Stay(i + 1) = Stay(i)
      BY <1>3, <1>4, <2>2, <2>4
    <3>2. QED
      BY <2>1, <2>3, <3>1
  <2>5. CASE ~(i + 1 > c)
    <3>1. i + 1 \notin named /\ Stay(i + 1) = i + 1 /\ Stay(i) = i
      BY <1>3, <1>4, <2>5
    <3>2. keep[i] \in Seq(Files) /\ mem[i + 1] \in Files
      BY <1>1, <1>5, <2>2, KeptIs, ElementOfSeq DEF KeptOf
    <3>3. Len(keep[i]) = i /\ \A e \in 1..i : keep[i][e] = mem[e]
      BY <2>1, <3>1
    <3>4. /\ Len(keep[i + 1]) = i + 1
          /\ \A e \in 1..i : keep[i + 1][e] = keep[i][e]
          /\ keep[i + 1][i + 1] = mem[i + 1]
      BY <2>3, <3>1, <3>2, <3>3, AppendProperties
    <3>5. \A e \in 1..(i + 1) : e \in 1..i \/ e = i + 1
      OBVIOUS
    <3>6. QED
      BY <3>1, <3>3, <3>4, <3>5
  <2>6. QED
    BY <2>4, <2>5
<1>10. Nat \subseteq T
  <2> HIDE DEF T
  <2> QED BY <1>8, <1>9, Keeping!Induction
<1>11. Len(keep[m]) = Stay(m) /\ \A e \in 1..Stay(m) : keep[m][e] = mem[e]
  BY <1>10
<1>12. Stay(m) = c /\ k - 1 = c
  BY <1>3
<1>13. QED
  BY <1>7, <1>11, <1>12

\* Nothing but the properties of files in the stack matters.
Follow(m, s, of) == \A i \in DOMAIN m : of[m[i]] # Unset => s[i] = of[m[i]]

LEMMA DeletestackFollows ==
  ASSUME MemoryOK, StackTypeOK, Follow(mem, slot, given),
         NEW numbers \in StackDeletions, Deletestack(numbers), AtTheEnd(numbers)
  PROVE  Follow(mem', slot', given')
<1>1. numbers \in Seq(Nat \ {0}) /\ IsFiles(mem) /\ slot \in [Slots -> Values]
  BY StackAssumption DEF MemoryOK, StackTypeOK
<1>2. \A f \in Files : given'[f] # Unset => given'[f] = given[f]
  BY DEF Deletestack, GivenKept
<1>3. mem \in Seq(Files) /\ Len(mem) \in Nat /\ DOMAIN mem = 1..Len(mem)
      /\ \A i \in 1..Len(mem) : mem[i] \in Files
  BY <1>1, LenProperties, ElementOfSeq DEF IsFiles
<1>4. CASE ~(ToSet(numbers) \subseteq DOMAIN mem)
  <2>1. UNCHANGED <<slot, mem>>
    BY <1>4 DEF Deletestack, memvars
  <2>2. QED
    BY <1>2, <1>3, <2>1 DEF Follow
<1>5. CASE ToSet(numbers) \subseteq DOMAIN mem
  <2>1. PICK k \in 1..(Len(mem) + 1) : ToSet(numbers) = k..Len(mem)
    BY <1>5 DEF AtTheEnd
  <2>2. slot' = slot
    BY <1>1, <1>5, <2>1, SlotsStay DEF Deletestack
  <2>3. mem' = Remaining(numbers)
    BY <1>5 DEF Deletestack, Settle
  <2>4. Len(mem') = k - 1 /\ \A e \in 1..(k - 1) : mem'[e] = mem[e]
    BY <1>1, <2>1, <2>3, FilesStay
  <2>5. IsFiles(mem')
    BY <1>1, <1>5, <2>3, SortedPositions, RemainingTyped
  <2>6. DOMAIN mem' = 1..(k - 1)
    BY <2>4, <2>5, LenProperties DEF IsFiles
  <2>7. \A e \in 1..(k - 1) : e \in 1..Len(mem)
    BY <1>3
  <2>8. QED
    BY <1>2, <1>3, <2>2, <2>4, <2>6, <2>7 DEF Follow
<1>6. QED
  BY <1>4, <1>5

LEMMA EnterSSSFollows ==
  ASSUME MemoryOK, EnterSSS PROVE Follow(mem', slot', given')
<1> DEFINE first == FirstRefused
<1>1. first \in 1..(Len(mem) + 1) /\ DOMAIN mem = 1..Len(mem) /\ Len(mem) \in Nat
  BY FirstRefusedIs
<1>2. /\ mem' = mem /\ slot' = SlotsGlobal(first)
      /\ given' = [f \in Files |-> IF \E i \in 1..(first - 1) : mem[i] = f THEN global ELSE Unset]
  BY DEF EnterSSS, Settle
<1> HIDE DEF first
<1>3. \A i \in 1..Len(mem) : mem[i] \in Files
  BY ElementOfSeq DEF MemoryOK, IsFiles
<1>4. ASSUME NEW i \in 1..Len(mem), given'[mem[i]] # Unset PROVE slot'[i] = given'[mem[i]]
  <2>1. given'[mem[i]] = global /\ \E j \in 1..(first - 1) : mem[j] = mem[i]
    BY <1>2, <1>3, <1>4
  <2>2. PICK j \in 1..(first - 1) : mem[j] = mem[i]
    BY <2>1
  <2>3. j \in 1..Len(mem) /\ j < first
    BY <1>1
  <2>4. i = j
    BY <1>1, <2>2, <2>3 DEF MemoryOK, IsFiles, IsInjective
  <2>5. i \in Slots
    BY <1>1, MaxFilesAssumption DEF MemoryOK, IsFiles, Slots
  <2>6. QED
    BY <1>2, <2>1, <2>3, <2>4, <2>5 DEF SlotsGlobal
<1>5. QED
  BY <1>1, <1>2, <1>4 DEF Follow

LEMMA AddFileFollows ==
  ASSUME MemoryOK, StackTypeOK, Follow(mem, slot, given),
         NEW f \in Files, NEW p, AddFile(f, p)
  PROVE  Follow(mem', slot', given')
<1>1. mem \in Seq(Files) /\ Len(mem) \in Nat /\ DOMAIN mem = 1..Len(mem)
      /\ \A i \in 1..Len(mem) : mem[i] \in Files
  BY LenProperties, ElementOfSeq DEF MemoryOK, IsFiles
<1>2. /\ mem' = Append(mem, f) /\ f \notin ToSet(mem)
      /\ slot' = [slot EXCEPT ![Len(mem) + 1] = p]
      /\ given' = [given EXCEPT ![f] = p]
      /\ Len(mem) + 1 <= MaxFiles
  BY DEF AddFile, Settle, end
<1>3. slot \in [Slots -> Values] /\ given \in [Files -> Values \cup {Unset}]
      /\ Len(mem) + 1 \in Slots
  BY <1>1, <1>2, MaxFilesAssumption DEF StackTypeOK, Slots
<1>4. /\ mem' \in Seq(Files) /\ Len(mem') = Len(mem) + 1
      /\ \A i \in 1..Len(mem) : mem'[i] = mem[i]
      /\ mem'[Len(mem) + 1] = f
  BY <1>1, <1>2, AppendProperties
<1>5. DOMAIN mem' = 1..(Len(mem) + 1)
  BY <1>4, LenProperties
<1>6. \A i \in 1..Len(mem) : mem[i] # f
  BY <1>1, <1>2, ToSetIs
<1>7. ASSUME NEW i \in 1..Len(mem), given'[mem'[i]] # Unset PROVE slot'[i] = given'[mem'[i]]
  <2>1. mem'[i] = mem[i] /\ given'[mem[i]] = given[mem[i]]
    BY <1>1, <1>2, <1>3, <1>4, <1>6
  <2>2. slot[i] = given[mem[i]]
    BY <1>1, <1>7, <2>1 DEF Follow
  <2>3. slot'[i] = slot[i]
    <3>1. i # Len(mem) + 1
      BY <1>1
    <3>2. QED
      BY <1>2, <3>1
  <2>4. QED
    BY <2>1, <2>2, <2>3
<1>8. slot'[Len(mem) + 1] = given'[mem'[Len(mem) + 1]]
  BY <1>2, <1>3, <1>4
<1>9. \A i \in 1..(Len(mem) + 1) : i \in 1..Len(mem) \/ i = Len(mem) + 1
  BY <1>1
<1>10. QED
  BY <1>5, <1>7, <1>8, <1>9 DEF Follow

LEMMA StackFollows ==
  ASSUME MemoryOK, StackTypeOK, Follow(mem, slot, given), StackCommand,
         \A numbers \in StackDeletions : Deletestack(numbers) => AtTheEnd(numbers)
  PROVE  Follow(mem', slot', given')
<1>1. mem \in Seq(Files) /\ Len(mem) \in Nat /\ DOMAIN mem = 1..Len(mem)
      /\ \A i \in 1..Len(mem) : mem[i] \in Files
  BY LenProperties, ElementOfSeq DEF MemoryOK, IsFiles
<1>2. slot \in [Slots -> Values] /\ given \in [Files -> Values \cup {Unset}]
      /\ \A i \in 1..Len(mem) : i \in Slots
  BY <1>1, MaxFilesAssumption DEF MemoryOK, IsFiles, StackTypeOK, Slots
<1>3. CASE UNCHANGED <<mem, slot, given>>
  BY <1>3 DEF Follow
<1>4. ASSUME NEW p, Addstack(p) PROVE Follow(mem', slot', given')
  <2>1. CASE AddMissing(p)
    <3>1. UNCHANGED <<mem, given>> /\ slot' = [slot EXCEPT ![Len(mem) + 1] = p]
      BY <2>1 DEF AddMissing, memvars, end
    <3>2. \A i \in 1..Len(mem) : i # Len(mem) + 1
      BY <1>1
    <3>3. QED
      BY <1>1, <1>2, <3>1, <3>2 DEF Follow
  <2>2. ASSUME NEW f \in OnDisk, AddFile(f, p) PROVE Follow(mem', slot', given')
    <3>1. f \in Files
      BY StackAssumption
    <3>2. QED
      BY <2>2, <3>1, AddFileFollows
  <2>3. QED
    BY <1>4, <2>1, <2>2 DEF Addstack
<1>5. ASSUME NEW numbers \in StackDeletions, Deletestack(numbers)
      PROVE  Follow(mem', slot', given')
  BY <1>5, DeletestackFollows
<1>6. ASSUME NEW number \in Slots, NEW p, Changestack(number, p)
      PROVE  Follow(mem', slot', given')
  <2>1. CASE number \in DOMAIN mem
    <3>1. /\ mem' = mem /\ slot' = [slot EXCEPT ![number] = p]
          /\ given' = [given EXCEPT ![mem[number]] = p]
      BY <1>6, <2>1 DEF Changestack, memvars
    <3>2. \A i \in 1..Len(mem) : i # number => mem[i] # mem[number]
      BY <1>1, <2>1 DEF MemoryOK, IsFiles, IsInjective
    <3>3. QED
      BY <1>1, <1>2, <2>1, <3>1, <3>2 DEF Follow
  <2>2. CASE number \notin DOMAIN mem
    BY <1>3, <1>6, <2>2 DEF Changestack, memvars
  <2>3. QED
    BY <2>1, <2>2
<1>7. CASE Incrementstack
  <2>1. /\ mem' = mem
        /\ slot' = [i \in Slots |-> IF i \in DOMAIN mem THEN Incremented(slot[i]) ELSE slot[i]]
        /\ given' = [f \in Files |-> Incremented(given[f])]
    BY <1>7 DEF Incrementstack, memvars
  <2>2. ASSUME NEW i \in 1..Len(mem), given'[mem[i]] # Unset PROVE slot'[i] = given'[mem[i]]
    <3>1. given'[mem[i]] = Incremented(given[mem[i]]) /\ given[mem[i]] # Unset
      BY <1>1, <2>1, <2>2 DEF Incremented
    <3>2. slot[i] = given[mem[i]]
      BY <1>1, <3>1 DEF Follow
    <3>3. slot'[i] = Incremented(slot[i])
      BY <1>1, <1>2, <2>1
    <3>4. QED
      BY <3>1, <3>2, <3>3
  <2>3. QED
    BY <1>1, <2>1, <2>2 DEF Follow
<1>8. CASE Zerostack
  <2>1. mem' = <<>> /\ DOMAIN <<>> = {}
    BY <1>8, EmptySeq DEF Zerostack, Settle
  <2>2. QED
    BY <2>1 DEF Follow
<1>9. ASSUME NEW p, Globalstack(p) PROVE UNCHANGED <<mem, slot, given>>
  BY <1>9 DEF Globalstack, memvars
<1>10. ASSUME NEW on, Deltacheck(on) PROVE UNCHANGED <<mem, slot, given>>
  BY <1>10 DEF Deltacheck, memvars
<1>11. ASSUME NEW length, Timewindow(length) PROVE UNCHANGED <<mem, slot, given>>
  BY <1>11 DEF Timewindow, memvars
<1>12. Sumstack => UNCHANGED <<mem, slot, given>>
  BY DEF Sumstack, SumRefused, SumFiles, Settle, sssvars, memvars
<1>13. Writestack => UNCHANGED <<mem, slot, given>>
  BY DEF Writestack, Settle, sssvars, memvars
<1>14. QED
  BY <1>3, <1>4, <1>5, <1>6, <1>7, <1>8, <1>9, <1>10, <1>11, <1>12, <1>13 DEF StackCommand

(* For any number of files, and however they are added, changed,           *)
(* incremented and summed, SSS left and entered again: as long as          *)
(* DELETESTACK is given the last files of the stack only, what is found at *)
(* a file's position are the properties that the file was given.  (With a  *)
(* file deleted that is not among the last this is false: the loop of      *)
(* sss/xdeletestack.c leaves the last one behind.)                         *)
THEOREM PropertiesStayWithFiles ==
  Spec /\ [][OnlyLastOnes]_vars => []PropertiesFollowFiles
<1>1. Init => PropertiesFollowFiles
  BY DEF Init, PropertiesFollowFiles
<1>2. MemoryInv /\ TypeOK /\ PropertiesFollowFiles /\ [Next]_vars /\ [OnlyLastOnes]_vars
      => PropertiesFollowFiles'
  <2> SUFFICES ASSUME MemoryInv, TypeOK, PropertiesFollowFiles, [Next]_vars,
                      [OnlyLastOnes]_vars, comlist' = "sss"
               PROVE  Follow(mem', slot', given')
    BY DEF PropertiesFollowFiles, Follow
  <2>1. MemoryOK /\ StackTypeOK
    BY DEF MemoryInv, TypeOK
  <2>2. comlist = "sss" => Follow(mem, slot, given)
    BY DEF PropertiesFollowFiles, Follow
  <2>3. CASE Stacking
    BY <2>1, <2>3, EnterSSSFollows DEF Stacking
  <2>4. CASE StackStep
    <3>1. comlist = "sss" /\ StackCommand
      BY <2>4 DEF StackStep
    <3>2. CASE UNCHANGED vars
      BY <2>2, <3>1, <3>2 DEF vars, memvars, sssvars
    <3>3. CASE OnlyLastOnes
      BY <2>1, <2>2, <3>1, <3>3, StackFollows DEF OnlyLastOnes
    <3>4. QED
      BY <3>2, <3>3
  <2>5. CASE UNCHANGED vars
    BY <2>2, <2>5 DEF vars, memvars, sssvars
  <2>6. ~Main /\ ~Spectra /\ ~SpectralStep
    BY DEF Main, Spectra, SpectralStep
  <2>7. QED
    BY <2>3, <2>4, <2>5, <2>6 DEF Next
<1>3. QED
  BY <1>1, <1>2, MemoryStaysSound, TypeCorrect, PTL DEF Spec
=============================================================================
