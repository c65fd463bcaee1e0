-------------------------------- MODULE Spe ---------------------------------
(***************************************************************************)
(* The spectral estimation subprocess (spe/).  It works on one file, the   *)
(* one that is in memory when it is entered or when its READ returns:      *)
(* COR computes a correlation function from the file, PDS, MLM and MEM a   *)
(* spectral estimate from the correlation.  Flags say which of the three   *)
(* is there; nothing but the flags ties them together.                     *)
(*                                                                         *)
(* Arrays are told apart by what they were computed from and how often     *)
(* that had been whitened; numbers of points, orders and windows are not   *)
(* told apart, so that an estimate with a bad one is one that may fail.    *)
(***************************************************************************)
EXTENDS Files

CONSTANTS Whitenings,  \* does COR prewhiten the data?
          Mistakes,    \* may PDS be asked for a window that is too long, or
                       \* WHITEN for an order that there is not?
          MaxWhitened  \* bound: how often data are whitened

ASSUME SpeAssumption == /\ Whitenings \subseteq BOOLEAN /\ Mistakes \in BOOLEAN
                        /\ MaxWhitened \in Nat

VARIABLES spe,       \* the file: set on success, never cleared
          lfile,     \* is there one?
          lcor,      \* is there a correlation function?
          lspe,      \* is there a spectral estimate?
          specor,    \* the correlation function
          spespe,    \* the spectral estimate
          kpspl1,    \* the name of its method, for the plot
          kermsg,    \* the error message of the numerical routines
          samfrq,    \* is the sampling frequency known?
          nlncor,    \* is the length of a correlation known?
          nprewh,    \* whitenings an estimate is to be corrected for
          whitened   \* history: how often the data of spe have been whitened

spevars == <<spe, lfile, lcor, lspe, specor, spespe, kpspl1, kermsg, samfrq,
             nlncor, nprewh, whitened>>

Methods == {"PDS", "MLM", "MEM"}
OnFile  == "file"           \* a correlation that was read

\* An array of which nothing has been computed.
NotComputed == <<>>

\* kermsg is no blank string at first: its bytes are zero.
SpeInit == /\ spe = Null /\ lfile = FALSE /\ lcor = FALSE /\ lspe = FALSE
           /\ specor = NotComputed /\ spespe = NotComputed /\ kpspl1 = Unset
           /\ kermsg = "zeros" /\ samfrq = FALSE /\ nlncor = FALSE
           /\ nprewh = 0 /\ whitened = 0

SpeTypeOK ==
  /\ spe \in Pointers /\ {lfile, lcor, lspe, samfrq, nlncor} \subseteq BOOLEAN
  /\ specor = NotComputed
     \/ specor \in [of : Pointers \cup {OnFile}, whitened : 0..MaxWhitened]
  /\ spespe = NotComputed
     \/ spespe \in [of        : Pointers \cup {OnFile},
                    whitened  : 0..MaxWhitened,
                    corrected : 0..(MaxWhitened + 1), method : Methods]
  /\ kpspl1 \in Methods \cup {Unset}
  /\ kermsg \in {"zeros", "blank", "message"}
  /\ nprewh \in 0..1 /\ whitened \in 0..MaxWhitened

-----------------------------------------------------------------------------
(* The file.                                                               *)

\* Mutant: the flags keep what they said of the last file.
FlagsKept == UNCHANGED <<lcor, lspe>>

NoResults == lcor' = FALSE /\ lspe' = FALSE

\* Mutant: a refusal leaves the flag as it was.
FileKept == UNCHANGED lfile

NoFile == lfile' = FALSE

Accepted == Len(mem') = 1 /\ header[mem'[1]].even

\* xspe: the arrays are allocated anew.
UseFile ==
  /\ IF Accepted
     THEN /\ spe' = mem'[1] /\ lfile' = TRUE /\ NoResults
          /\ specor' = NotComputed /\ spespe' = NotComputed
          /\ samfrq' = TRUE /\ whitened' = 0
     ELSE /\ NoFile /\ spe' = Pointer(spe, mem')
          /\ UNCHANGED <<lcor, lspe, specor, spespe, samfrq, whitened>>
  /\ UNCHANGED <<kpspl1, kermsg, nlncor, nprewh>>

\* SPE
EnterSPE == /\ Settle(mem, IF Len(mem) = 1 THEN mem[1] ELSE current, rows)
            /\ UseFile /\ Fails(~Accepted)

\* READ: the files are read as in the main program.
ReadSPE(list, more) ==
  /\ ReadFiles(list, more)
  /\ IF ReadFails(list, more)
     THEN /\ spe' = Pointer(spe, mem') /\ nerr' = 1
          /\ UNCHANGED <<lfile, lcor, lspe, specor, spespe, kpspl1, kermsg,
                         samfrq, nlncor, nprewh, whitened>>
     ELSE UseFile /\ Fails(~Accepted)

\* DATAGEN: SPE is not told of it.
DatagenSPE(list, more) ==
  /\ Read(list, more)
  /\ spe' = Pointer(spe, mem')
  /\ UNCHANGED <<lfile, lcor, lspe, specor, spespe, kpspl1, kermsg, samfrq,
                 nlncor, nprewh, whitened>>

\* QUITSUB frees the arrays; the flags stay.  spe is not looked at until SPE
\* is entered again.
LeaveSPE == /\ spe' = Null /\ specor' = NotComputed /\ spespe' = NotComputed
            /\ nerr' = 0
            /\ UNCHANGED <<lfile, lcor, lspe, kpspl1, kermsg, samfrq, nlncor,
                           nprewh, whitened>>

-----------------------------------------------------------------------------
(* The correlation function.                                               *)

\* The data are whitened in place, whatever becomes of the command.
Whiten(n) == /\ whitened + n <= MaxWhitened
             /\ whitened' = whitened + n /\ nprewh' = n

\* An order that prewit refuses.
BadOrder == /\ nprewh' = 0 /\ kermsg' = "message" /\ nerr' = 1
            /\ UNCHANGED whitened

\* prewit has no message: one that is still there is reported.
Refused(n) == n = 1 /\ kermsg # "blank"

\* autcor clears the message and computes the correlation.
Correlate ==
  /\ samfrq /\ nlncor' = TRUE
  /\ specor' = [of |-> spe, whitened |-> whitened']
  /\ lcor' = TRUE /\ lspe' = FALSE
  /\ kermsg' = "blank" /\ nerr' = 0

\* The windows do not fit the data.
BadWindows ==
  /\ kermsg' = "message" /\ nerr' = 1 /\ lcor' = FALSE
  /\ nlncor' \in {FALSE, samfrq}
  /\ UNCHANGED <<lspe, specor>>

Cor(prewhiten) ==
  LET n == IF prewhiten THEN 1 ELSE 0
  IN  IF ~lfile THEN nerr' = 1 /\ UNCHANGED <<spevars, memvars>>
      ELSE /\ \/ /\ prewhiten /\ BadOrder
                 /\ lcor' = FALSE /\ UNCHANGED <<lspe, specor, nlncor>>
              \/ /\ Refused(n) /\ Whiten(n)
                 /\ lcor' = FALSE /\ nerr' = 1
                 /\ UNCHANGED <<lspe, specor, nlncor, kermsg>>
              \/ /\ ~Refused(n) /\ Whiten(n)
                 /\ Correlate \/ BadWindows
           /\ UNCHANGED <<spe, lfile, spespe, kpspl1, samfrq, memvars>>

\* WHITEN
xwhiten ==
  /\ IF ~lfile THEN nerr' = 1 /\ UNCHANGED <<whitened, nprewh, kermsg>>
     ELSE \/ Mistakes /\ BadOrder
          \/ Whiten(1) /\ Fails(kermsg # "blank") /\ UNCHANGED kermsg
  /\ UNCHANGED <<spe, lfile, lcor, lspe, specor, spespe, kpspl1, samfrq,
                 nlncor, memvars>>

\* Mutant: the spectral estimate is not given up.
ReadcorKeepsSpectrum ==
  /\ \E read \in BOOLEAN :
       /\ lcor' = read /\ samfrq' = read /\ Fails(~read)
       /\ specor' = IF read THEN [of |-> OnFile, whitened |-> 0] ELSE specor
  /\ UNCHANGED <<spe, lfile, lspe, spespe, kpspl1, kermsg, nlncor, nprewh,
                 whitened, memvars>>

\* READCOR: flags and frequency are gone whether or not there is a file.
Readcor ==
  /\ \E read \in BOOLEAN :
       /\ lcor' = read /\ samfrq' = read /\ Fails(~read)
       /\ specor' = IF read THEN [of |-> OnFile, whitened |-> 0] ELSE specor
  /\ lspe' = FALSE
  /\ UNCHANGED <<spe, lfile, spespe, kpspl1, kermsg, nlncor, nprewh, whitened,
                 memvars>>

-----------------------------------------------------------------------------
(* The spectral estimate.                                                  *)

\* Mutant: MLM does not say what it is.
NotNamed(method) == kpspl1' = IF method = "MLM" THEN kpspl1 ELSE method

Named(method) == kpspl1' = method

Estimate(method) ==
  spespe' = [of |-> specor.of, whitened |-> specor.whitened,
             corrected |-> nprewh, method |-> method]

\* PDS clears the message before it computes, or leaves one.  The correction
\* for whitening is made in either case.
Pds ==
  \/ /\ nlncor /\ kermsg' = "blank"
     /\ Estimate("PDS") /\ Named("PDS") /\ lspe' = TRUE /\ nerr' = 0
  \/ /\ Mistakes \/ ~nlncor
     /\ kermsg' = "message" /\ nerr' = 1
     /\ IF spespe = NotComputed THEN UNCHANGED spespe
        ELSE /\ spespe.corrected + nprewh <= MaxWhitened + 1
             /\ spespe' = [spespe EXCEPT !.corrected = @ + nprewh]
     /\ UNCHANGED <<kpspl1, lspe>>

\* MLM and MEM do not look at the message; whatever is there is reported, and
\* made longer.
Parametric(method) ==
  /\ Estimate(method)
  /\ IF kermsg = "blank" THEN Named(method) /\ lspe' = TRUE /\ nerr' = 0
                              /\ UNCHANGED kermsg
     ELSE kermsg' = "message" /\ nerr' = 1 /\ UNCHANGED <<kpspl1, lspe>>

Estimates(method) ==
  /\ IF ~lcor THEN nerr' = 1 /\ UNCHANGED <<spespe, kpspl1, kermsg, lspe>>
     ELSE IF method = "PDS" THEN Pds ELSE Parametric(method)
  /\ UNCHANGED <<spe, lfile, lcor, specor, samfrq, nlncor, nprewh, whitened,
                 memvars>>

\* WRITECOR, WRITESPE
Written(there) == /\ nerr' \in IF there THEN {0, 1} ELSE {1}
                  /\ UNCHANGED <<spevars, memvars>>

\* A command of SPE's own.
SpectralCommand ==
  \/ \E prewhiten \in Whitenings : Cor(prewhiten)
  \/ xwhiten
  \/ Readcor
  \/ \E method \in Methods : Estimates(method)
  \/ Written(lcor)
  \/ Written(lspe)
=============================================================================
