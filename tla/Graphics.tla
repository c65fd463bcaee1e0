------------------------------ MODULE Graphics ------------------------------
(***************************************************************************)
(* Graphics devices and frames: which devices are on, whether a frame is   *)
(* open, whether plots begin and end frames of their own, and the files    *)
(* that the SGF device writes, one for each frame.                         *)
(*                                                                         *)
(* The common blocks cmgdm, cmgem and cmgd2 are one record, g.  A routine  *)
(* of the graphics library is an operator from a record to the record it   *)
(* leaves; a command composes routines as the handler calls them, and is   *)
(* one step.                                                               *)
(***************************************************************************)
EXTENDS Integers, Sequences

SGF == "SGF"        \* a file for each frame
X   == "XWINDOWS"   \* the window, and the one device with a cursor
Devices == {SGF, X} \* in the order in which they are registered

Temp   == 0         \* the name of the temporary file of the PRINT option
NoName == -1        \* no file; the empty file name

CONSTANTS Default,     \* kgddef: the device opened when none is on
          DeviceLists, \* lists of names given to BEGINDEVICES
          MaxFrames,   \* bound: files of frames, f001.sgf and so on
          Cases        \* of the cases below, those that happen

ASSUME DeviceAssumption == Default \in Devices /\ DeviceLists \subseteq Seq(Devices)
ASSUME FramesAssumption == MaxFrames \in Nat

\* Cases in which what is intended does not hold; an instance names those it has.
AllCases == {"display",  \* the window cannot be opened
             "within",   \* BEGINDEVICES while a frame is open
             "reuse",    \* PRINT without SGF after a frame on file
             "print",    \* a plot with PRINT fails with its environment saved
             "both",     \* PLOTPK with both devices on
             "limits",   \* PLOTPK leaves at a bad range of times
             "stale"}    \* ENDFRAME PRINT with SGF off, or with no frame
ASSUME CasesAssumption == Cases \subseteq AllCases

Opens == IF "display" \in Cases THEN BOOLEAN ELSE {TRUE}

VARIABLE g

Environment == [lframe : BOOLEAN, lprint : BOOLEAN, lSGFtemp : BOOLEAN]
Names       == Nat \cup {NoName}

Graphic ==
  [on : SUBSET Devices, lgdon : SUBSET Devices, lactiv : BOOLEAN,
   lbegf : BOOLEAN, gem : Environment, sav : Environment, lgems : BOOLEAN,
   jfun : Names, kfilename : Names, nfnum : Nat, disk : SUBSET Nat,
   asked : SUBSET Devices, misprint : BOOLEAN, nerr : BOOLEAN]

GraphicTypeOK == g \in Graphic /\ ~g.nerr

NewEnvironment == [lframe |-> TRUE, lprint |-> FALSE, lSGFtemp |-> FALSE]

GraphicInit ==
  g = [on |-> {}, lgdon |-> {}, lactiv |-> FALSE, lbegf |-> FALSE,
       gem |-> NewEnvironment, sav |-> NewEnvironment, lgems |-> FALSE,
       jfun |-> NoName, kfilename |-> NoName, nfnum |-> 1, disk |-> {},
       asked |-> {}, misprint |-> FALSE, nerr |-> FALSE]

-----------------------------------------------------------------------------
(* The SGF device.                                                         *)

\* beginframe2: the file is created, and what was in it is lost.
FrameName(h) == IF h.gem.lSGFtemp THEN h.kfilename ELSE h.nfnum
beginframe2(h) ==
  [h EXCEPT !.jfun = FrameName(h), !.kfilename = FrameName(h),
            !.disk = @ \ {FrameName(h)}, !.nerr = FALSE]

\* Mutant: the frame number is not increased.
endframe2SameNumber(h) ==
  IF h.jfun = NoName THEN [h EXCEPT !.nerr = TRUE]
  ELSE [h EXCEPT !.disk = @ \cup {h.jfun}, !.jfun = NoName]

\* endframe2: fails when there is no file to write to.
endframe2(h) ==
  IF h.jfun = NoName THEN [h EXCEPT !.nerr = TRUE]
  ELSE [h EXCEPT !.disk = @ \cup {h.jfun}, !.jfun = NoName, !.nfnum = @ + 1]

-----------------------------------------------------------------------------
(* Devices and frames.                                                     *)

calstatus(h) == [h EXCEPT !.lactiv = h.on # {}]

\* Every device is turned off, whether a frame is open or not, and then those
\* named are turned on up to one that cannot be opened.
Begun(names, opens) ==
  {d \in Devices : \E i \in DOMAIN names :
       names[i] = d /\ \A j \in 1..i : names[j] = X => opens}
Failed(names, opens) == ~opens /\ \E i \in DOMAIN names : names[i] = X

begindevices(h, names, opens) ==
  LET b == [h EXCEPT !.on = Begun(names, opens), !.lgdon = Begun(names, opens),
                     !.nerr = Failed(names, opens)]
  IN IF b.nerr THEN b ELSE calstatus(b)

\* With no device on, the default one is opened.
OpenDefault(h, opens) ==
  IF h.lactiv THEN h
  ELSE [begindevices(h, <<Default>>, opens) EXCEPT !.asked = {Default}]

TurnedOff(h, d) ==
  IF d \in h.on THEN calstatus([h EXCEPT !.on = @ \ {d}])
  ELSE [h EXCEPT !.nerr = TRUE]

\* Mutant: the SGF device stays on.
endSGFtempStaysOn(h) ==
  calstatus([h EXCEPT !.lgdon = @ \ {SGF}, !.lbegf = FALSE, !.nerr = FALSE,
                      !.gem = NewEnvironment, !.sav = NewEnvironment,
                      !.kfilename = NoName])

\* endSGFtemp: no frame is open here, so enddevice only turns SGF off.
endSGFtemp(h) ==
  LET e == IF SGF \in h.lgdon THEN TurnedOff([h EXCEPT !.nerr = FALSE], SGF)
           ELSE [h EXCEPT !.nerr = FALSE]
  IN IF e.nerr THEN e
     ELSE calstatus([e EXCEPT !.lgdon = @ \ {SGF}, !.lbegf = FALSE,
                              !.gem = NewEnvironment,
                              !.sav = NewEnvironment, !.kfilename = NoName])

\* sgf_print and unlink, of the file that kfilename names.
Printed(h, own) ==
  IF ~h.gem.lprint THEN h
  ELSE [h EXCEPT !.disk = @ \ {h.kfilename},
                 !.misprint = @ \/ own = NoName \/ h.kfilename # own]

\* What ending the frame leaves on file, and prints.
FrameWritten(h) ==
  LET s == IF SGF \in h.on THEN endframe2([h EXCEPT !.nerr = FALSE])
           ELSE [h EXCEPT !.nerr = FALSE]
      x == IF X \in h.on THEN [s EXCEPT !.nerr = FALSE] ELSE s
      own == IF SGF \in h.on THEN h.jfun ELSE NoName
  IN Printed(x, own)

\* Mutant: the saved environment is not reset with the current one.
FlagsResetSavedStays(h) ==
  [h EXCEPT !.lbegf = FALSE, !.gem.lframe = TRUE, !.gem.lprint = FALSE]

\* Mutant: the PRINT option stays.
FlagsResetPrintStays(h) ==
  [h EXCEPT !.lbegf = FALSE, !.gem.lframe = TRUE, !.sav.lframe = TRUE]

FlagsReset(h) ==
  [h EXCEPT !.lbegf = FALSE,
            !.gem.lframe = TRUE, !.gem.lprint = FALSE,
            !.sav.lframe = TRUE, !.sav.lprint = FALSE]

FrameEnded(h) == FlagsReset(FrameWritten(h))

endframe(h) ==
  IF ~h.lbegf THEN [h EXCEPT !.nerr = FALSE]
  ELSE LET e == FrameEnded(h)
       IN IF e.gem.lSGFtemp THEN endSGFtemp(e) ELSE e

\* Mutant: the frame is not ended first.
enddeviceInFrame(h, d) == TurnedOff([h EXCEPT !.nerr = FALSE], d)

enddevice(h, d) ==
  LET e == endframe(h) IN IF e.nerr THEN e ELSE TurnedOff(e, d)

\* PRINT: SGF is turned on for this frame if it is off; beginSGFtemp takes a
\* new name only if kfilename is empty.
ForPrinting(h, opens) ==
  LET p == [h EXCEPT !.gem.lprint = TRUE]
      t == IF SGF \in p.on THEN p
           ELSE [p EXCEPT !.gem.lSGFtemp = TRUE,
                          !.kfilename = IF @ = NoName THEN Temp ELSE @]
  IN begindevices(t, IF X \in p.on THEN <<SGF, X>> ELSE <<SGF>>, opens)

FrameBegun(h) ==
  [(IF SGF \in h.on THEN beginframe2(h) ELSE h)
     EXCEPT !.lbegf = TRUE, !.nerr = FALSE]

beginframe(h, print, opens) ==
  LET d == OpenDefault(h, opens)
      e == IF d.nerr THEN d ELSE endframe(d)
  IN IF e.nerr THEN e
     ELSE FrameBegun(IF print THEN ForPrinting(e, opens) ELSE e)

plsave(h) == [h EXCEPT !.sav = h.gem, !.lgems = TRUE]
plrest(h) == IF h.lgems THEN [h EXCEPT !.gem = h.sav, !.lgems = FALSE] ELSE h
=============================================================================
