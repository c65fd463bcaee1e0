---------------------------- MODULE FramesProofs ----------------------------
(***************************************************************************)
(* Devices and frames between commands, for every default device, every    *)
(* list of devices and any number of frames.                               *)
(***************************************************************************)
EXTENDS FramesMeaning, TLAPS

USE DEF Devices, SGF, X

\* What holds between commands, and within one wherever no frame is on the way.
Core(h) ==
  /\ h \in Graphic
  /\ h.lactiv <=> h.on # {}
  /\ h.jfun # NoName <=> h.lbegf /\ SGF \in h.on
  /\ h.lbegf => h.on # {}
  /\ h.gem.lSGFtemp => /\ h.on = Devices /\ h.lbegf
                       /\ SGF \in h.lgdon /\ h.kfilename # NoName

\* The devices are the same.
SameDevices(e, h) ==
  /\ e.on = h.on /\ e.lgdon = h.lgdon /\ e.lactiv = h.lactiv
  /\ e.asked = h.asked /\ e.lgems = h.lgems

LEMMA Written ==
  ASSUME NEW h, Core(h), h.lbegf
  PROVE  /\ FrameWritten(h) \in Graphic
         /\ SameDevices(FrameWritten(h), h)
         /\ FrameWritten(h).gem = h.gem /\ FrameWritten(h).sav = h.sav
         /\ FrameWritten(h).kfilename = h.kfilename
         /\ FrameWritten(h).jfun = NoName
         /\ ~FrameWritten(h).nerr
<1> DEFINE z == [h EXCEPT !.nerr = FALSE]
           s == IF SGF \in h.on THEN endframe2(z) ELSE z
           x == IF X \in h.on THEN [s EXCEPT !.nerr = FALSE] ELSE s
           own == IF SGF \in h.on THEN h.jfun ELSE NoName
<1>1. /\ z \in Graphic /\ SameDevices(z, h) /\ ~z.nerr
      /\ z.gem = h.gem /\ z.sav = h.sav
      /\ z.kfilename = h.kfilename /\ z.jfun = h.jfun
      /\ z.disk = h.disk /\ z.nfnum = h.nfnum
  BY DEF Core, Graphic, SameDevices
<1>2. /\ s \in Graphic /\ SameDevices(s, h) /\ ~s.nerr
      /\ s.gem = h.gem /\ s.sav = h.sav
      /\ s.kfilename = h.kfilename /\ s.jfun = NoName
  <2>1. CASE SGF \in h.on
    <3> DEFINE t == [z EXCEPT !.disk = @ \cup {z.jfun}, !.jfun = NoName, !.nfnum = @ + 1]
    <3>1. s = t
      BY <1>1, <2>1 DEF endframe2, Core
    <3>2. z.jfun \in Nat /\ z.nfnum + 1 \in Nat /\ z.disk \cup {z.jfun} \in SUBSET Nat
      BY <1>1, <2>1 DEF Core, Graphic, Names
    <3>3. t \in Graphic
      BY <1>1, <3>2 DEF Graphic, Names
    <3>4. /\ SameDevices(t, h) /\ ~t.nerr
          /\ t.gem = h.gem /\ t.sav = h.sav
          /\ t.kfilename = h.kfilename /\ t.jfun = NoName
      BY <1>1 DEF Graphic, SameDevices
    <3> QED BY <3>1, <3>3, <3>4
  <2>2. CASE SGF \notin h.on
    BY <1>1, <2>2 DEF Core
  <2> QED BY <2>1, <2>2
<1>3. /\ x \in Graphic /\ SameDevices(x, h) /\ ~x.nerr
      /\ x.gem = h.gem /\ x.sav = h.sav
      /\ x.kfilename = h.kfilename /\ x.jfun = NoName
  BY <1>2 DEF Graphic, SameDevices
<1>4. FrameWritten(h) = Printed(x, own)
  BY DEF FrameWritten
<1> HIDE DEF x, own
<1>5. /\ Printed(x, own) \in Graphic /\ SameDevices(Printed(x, own), h)
      /\ Printed(x, own).gem = h.gem /\ Printed(x, own).sav = h.sav
      /\ Printed(x, own).kfilename = h.kfilename
      /\ Printed(x, own).jfun = NoName
      /\ ~Printed(x, own).nerr
  BY <1>3 DEF Printed, Graphic, SameDevices
<1> QED BY <1>4, <1>5

LEMMA Reset ==
  ASSUME NEW h, h \in Graphic
  PROVE  LET e == FlagsReset(h) IN
         /\ e \in Graphic /\ SameDevices(e, h)
         /\ ~e.lbegf
         /\ e.gem.lframe /\ e.sav.lframe /\ ~e.gem.lprint
         /\ e.gem.lSGFtemp = h.gem.lSGFtemp /\ e.sav.lSGFtemp = h.sav.lSGFtemp
         /\ e.kfilename = h.kfilename /\ e.jfun = h.jfun /\ e.nerr = h.nerr
<1> DEFINE a == [h EXCEPT !.lbegf = FALSE]
           gem == [h.gem EXCEPT !.lframe = TRUE, !.lprint = FALSE]
           sav == [h.sav EXCEPT !.lframe = TRUE, !.lprint = FALSE]
           e == [h EXCEPT !.lbegf = FALSE, !.gem = gem, !.sav = sav]
<1>1. /\ gem \in Environment /\ sav \in Environment
      /\ gem.lframe /\ sav.lframe /\ ~gem.lprint
      /\ gem.lSGFtemp = h.gem.lSGFtemp /\ sav.lSGFtemp = h.sav.lSGFtemp
  BY DEF Graphic, Environment
<1>2. FlagsReset(h) = e
  BY DEF FlagsReset, Graphic, Environment
<1> HIDE DEF gem, sav
<1>3. e \in Graphic /\ SameDevices(e, h) /\ ~e.lbegf /\ e.gem = gem /\ e.sav = sav
      /\ e.kfilename = h.kfilename /\ e.jfun = h.jfun /\ e.nerr = h.nerr
  BY <1>1 DEF Graphic, SameDevices
<1> QED BY <1>1, <1>2, <1>3

\* enddevice without a frame, and what endSGFtemp does to the devices.
LEMMA Off ==
  ASSUME NEW h, h \in Graphic, NEW d \in h.on
  PROVE  LET e == TurnedOff(h, d) IN
         /\ e \in Graphic
         /\ e.on = h.on \ {d} /\ (e.lactiv <=> e.on # {}) /\ e.nerr = h.nerr
         /\ e.lgdon = h.lgdon /\ e.lbegf = h.lbegf /\ e.gem = h.gem /\ e.sav = h.sav
         /\ e.jfun = h.jfun /\ e.kfilename = h.kfilename
         /\ e.asked = h.asked /\ e.lgems = h.lgems
  BY DEF TurnedOff, calstatus, Graphic

LEMMA TempEnded ==
  ASSUME NEW h, h \in Graphic, SGF \in h.on, SGF \in h.lgdon
  PROVE  LET e == endSGFtemp(h) IN
         /\ e \in Graphic
         /\ e.on = h.on \ {SGF} /\ (e.lactiv <=> e.on # {}) /\ ~e.nerr
         /\ ~e.lbegf /\ e.jfun = h.jfun
         /\ e.gem = NewEnvironment /\ e.sav = NewEnvironment
         /\ e.asked = h.asked /\ e.lgems = h.lgems
<1> DEFINE z == [h EXCEPT !.nerr = FALSE]
           t == TurnedOff(z, SGF)
<1>1. z \in Graphic /\ SGF \in z.on /\ SGF \in z.lgdon /\ ~z.nerr
      /\ z.on = h.on /\ z.jfun = h.jfun /\ z.asked = h.asked /\ z.lgems = h.lgems
  BY DEF Graphic
<1> HIDE DEF z
<1>2. t \in Graphic /\ t.on = h.on \ {SGF} /\ ~t.nerr
      /\ t.jfun = h.jfun /\ t.asked = h.asked /\ t.lgems = h.lgems
  BY <1>1, Off
<1> HIDE DEF t
<1> DEFINE u == [t EXCEPT !.lgdon = @ \ {SGF}, !.lbegf = FALSE,
                          !.gem = NewEnvironment,
                          !.sav = NewEnvironment, !.kfilename = NoName]
<1>3. endSGFtemp(h) = [u EXCEPT !.lactiv = u.on # {}]
  BY <1>2 DEF endSGFtemp, calstatus, z, t
<1>4. NewEnvironment \in Environment /\ NoName \in Names
  BY DEF NewEnvironment, Environment, Names
<1>5. /\ u \in Graphic /\ u.on = t.on /\ u.nerr = t.nerr
      /\ ~u.lbegf /\ u.gem = NewEnvironment /\ u.sav = NewEnvironment
      /\ u.jfun = t.jfun /\ u.asked = t.asked /\ u.lgems = t.lgems
  BY <1>2, <1>4 DEF Graphic
<1> HIDE DEF u
<1> QED BY <1>2, <1>3, <1>5 DEF Graphic

\* The devices that remain when a frame has ended.
Remain(h) == h.on \ (IF h.gem.lSGFtemp THEN {SGF} ELSE {})

\* endframe: no file is left open, the temporary device is turned off, and
\* framing resumes, also for a plot that restores its environment later.
LEMMA Ended ==
  ASSUME NEW h, Core(h), h.sav.lSGFtemp => h.gem.lSGFtemp
  PROVE  LET e == endframe(h) IN
         /\ Core(e) /\ ~e.lbegf /\ ~e.nerr
         /\ e.on = Remain(h) /\ e.asked = h.asked /\ e.lgems = h.lgems
         /\ ~e.gem.lSGFtemp /\ ~e.sav.lSGFtemp
         /\ h.lbegf => e.gem.lframe /\ e.sav.lframe
         /\ ~h.lbegf => e.gem = h.gem /\ e.sav = h.sav
<1>1. CASE ~h.lbegf
  <2> DEFINE z == [h EXCEPT !.nerr = FALSE]
  <2>1. endframe(h) = z
    BY <1>1 DEF endframe
  <2>2. /\ z \in Graphic /\ ~z.nerr /\ SameDevices(z, h) /\ z.lbegf = h.lbegf
        /\ z.gem = h.gem /\ z.sav = h.sav /\ z.jfun = h.jfun
    BY DEF Core, Graphic, SameDevices
  <2>3. ~h.gem.lSGFtemp
    BY <1>1 DEF Core
  <2> HIDE DEF z
  <2> QED BY <1>1, <2>1, <2>2, <2>3 DEF Core, SameDevices, Remain
<1>2. CASE h.lbegf
  <2> DEFINE w == FrameWritten(h)
             f == FlagsReset(w)
  <2>1. /\ w \in Graphic /\ SameDevices(w, h)
        /\ w.gem = h.gem /\ w.sav = h.sav /\ w.jfun = NoName /\ ~w.nerr
    BY <1>2, Written
  <2> HIDE DEF w
  <2>2. /\ f \in Graphic /\ SameDevices(f, h) /\ ~f.lbegf
        /\ f.gem.lframe /\ f.sav.lframe
        /\ f.gem.lSGFtemp = h.gem.lSGFtemp /\ f.sav.lSGFtemp = h.sav.lSGFtemp
        /\ f.jfun = NoName /\ ~f.nerr
    BY <2>1, Reset DEF SameDevices
  <2> HIDE DEF f
  <2>3. endframe(h) = IF h.gem.lSGFtemp THEN endSGFtemp(f) ELSE f
    BY <1>2, <2>2 DEF endframe, FrameEnded, w, f
  <2>4. CASE ~h.gem.lSGFtemp
    BY <1>2, <2>2, <2>3, <2>4 DEF Core, SameDevices, Remain
  <2>5. CASE h.gem.lSGFtemp
    <3>1. SGF \in f.on /\ SGF \in f.lgdon
      BY <2>2, <2>5 DEF Core, SameDevices
    <3> DEFINE e == endSGFtemp(f)
    <3>2. /\ e \in Graphic
          /\ e.on = f.on \ {SGF} /\ (e.lactiv <=> e.on # {}) /\ ~e.nerr
          /\ ~e.lbegf /\ e.jfun = NoName
          /\ e.gem = NewEnvironment /\ e.sav = NewEnvironment
          /\ e.asked = h.asked /\ e.lgems = h.lgems
      BY <2>2, <3>1, TempEnded DEF SameDevices
    <3>3. endframe(h) = e /\ e.on = Remain(h)
      BY <2>2, <2>3, <2>5, <3>2 DEF SameDevices, Remain
    <3> HIDE DEF e
    <3> QED BY <1>2, <3>2, <3>3 DEF Core, NewEnvironment
  <2> QED BY <2>4, <2>5
<1> QED BY <1>1, <1>2

-----------------------------------------------------------------------------
(* Frames begin.  The window opens in all that follows.                    *)

\* The state of the frame is the same.
SameFrame(e, h) ==
  /\ e.lbegf = h.lbegf /\ e.gem = h.gem /\ e.sav = h.sav
  /\ e.jfun = h.jfun /\ e.kfilename = h.kfilename /\ e.lgems = h.lgems

LEMMA DevicesBegun ==
  ASSUME NEW h, h \in Graphic, NEW names, names \in Seq(Devices)
  PROVE  LET e == begindevices(h, names, TRUE) IN
         /\ e \in Graphic /\ SameFrame(e, h) /\ e.asked = h.asked
         /\ e.on = {names[i] : i \in DOMAIN names} /\ e.lgdon = e.on
         /\ e.lactiv <=> e.on # {}
         /\ ~e.nerr
<1> DEFINE on == {names[i] : i \in DOMAIN names}
           z == [h EXCEPT !.on = on, !.lgdon = on, !.nerr = FALSE]
<1>1. on \subseteq Devices
  BY DEF Devices
<1>2. Begun(names, TRUE) = on
  BY <1>1 DEF Begun
<1>3. Failed(names, TRUE) = FALSE
  BY DEF Failed
<1> HIDE DEF on
<1>4. z \in Graphic /\ SameFrame(z, h) /\ z.asked = h.asked
      /\ z.on = on /\ z.lgdon = on /\ ~z.nerr
  BY <1>1 DEF Graphic, SameFrame
<1>5. begindevices(h, names, TRUE) = [z EXCEPT !.lactiv = z.on # {}]
  BY <1>2, <1>3, <1>4 DEF begindevices, calstatus
<1> HIDE DEF z
<1> QED BY <1>4, <1>5 DEF Graphic, SameFrame, on

\* The devices are those asked for; what endframe needs of the saved flags.
Asked(h) == Remain(h) = h.asked
SavedTemp(h) == h.sav.lSGFtemp => h.gem.lSGFtemp

LEMMA DefaultOpen ==
  ASSUME NEW h, Core(h), ~h.nerr
  PROVE  LET d == OpenDefault(h, TRUE) IN
         /\ Core(d) /\ ~d.nerr /\ d.on # {}
         /\ Asked(h) => Asked(d)
         /\ h.on # {} => d = h
         /\ d.lbegf = h.lbegf /\ d.gem = h.gem /\ d.sav = h.sav /\ d.lgems = h.lgems
<1>1. CASE h.lactiv
  BY <1>1 DEF OpenDefault, Core
<1>2. CASE ~h.lactiv
  <2> DEFINE b == begindevices(h, <<Default>>, TRUE)
             d == [b EXCEPT !.asked = {Default}]
  <2>1. Default \in Devices /\ <<Default>> \in Seq(Devices)
        /\ {<<Default>>[i] : i \in DOMAIN <<Default>>} = {Default}
    BY DeviceAssumption
  <2>2. b \in Graphic /\ SameFrame(b, h) /\ b.on = {Default} /\ b.lgdon = {Default}
        /\ b.lactiv /\ ~b.nerr
    BY <2>1, DevicesBegun DEF Core
  <2>3. OpenDefault(h, TRUE) = d
    BY <1>2 DEF OpenDefault
  <2> HIDE DEF b
  <2>4. d \in Graphic /\ SameFrame(d, h) /\ d.on = {Default} /\ d.asked = {Default}
        /\ d.lactiv /\ ~d.nerr
    BY <2>1, <2>2 DEF Graphic, SameFrame
  <2> HIDE DEF d
  <2>5. h.on = {} /\ ~h.lbegf /\ ~h.gem.lSGFtemp /\ h.jfun = NoName
    BY <1>2 DEF Core
  <2> QED BY <2>3, <2>4, <2>5 DEF Core, Asked, Remain, SameFrame
<1> QED BY <1>1, <1>2

\* PRINT: SGF is on too, and if it was not it has a file name.
LEMMA PrintReady ==
  ASSUME NEW h, Core(h), ~h.lbegf, h.on # {}
  PROVE  LET e == ForPrinting(h, TRUE) IN
         /\ e \in Graphic
         /\ e.on = h.on \cup {SGF} /\ e.lgdon = e.on /\ e.lactiv /\ ~e.nerr
         /\ ~e.lbegf /\ e.jfun = NoName
         /\ e.gem.lframe = h.gem.lframe
         /\ e.gem.lSGFtemp <=> SGF \notin h.on
         /\ e.gem.lSGFtemp => e.kfilename # NoName
         /\ e.sav = h.sav /\ e.asked = h.asked /\ e.lgems = h.lgems
<1> DEFINE gem == [h.gem EXCEPT !.lprint = TRUE,
                                !.lSGFtemp = SGF \notin h.on]
           name == IF SGF \notin h.on /\ h.kfilename = NoName THEN Temp
                   ELSE h.kfilename
           z == [h EXCEPT !.gem = gem, !.kfilename = name]
           names == IF X \in h.on THEN <<SGF, X>> ELSE <<SGF>>
<1>1. ~h.gem.lSGFtemp /\ h.jfun = NoName
  BY DEF Core
<1>2. /\ gem \in Environment /\ gem.lframe = h.gem.lframe
      /\ gem.lSGFtemp <=> SGF \notin h.on
      /\ name \in Names /\ (SGF \notin h.on => name # NoName)
  <2> h.gem \in Environment /\ h.kfilename \in Names
    BY DEF Core, Graphic
  <2>1. gem \in Environment /\ gem.lframe = h.gem.lframe
    BY DEF Environment
  <2>2. gem.lSGFtemp <=> SGF \notin h.on
    BY DEF Environment
  <2>3. name \in Names /\ (SGF \notin h.on => name # NoName)
    BY DEF Names, Temp, NoName
  <2> QED BY <2>1, <2>2, <2>3
<1>3. names \in Seq(Devices)
      /\ {names[i] : i \in DOMAIN names} = h.on \cup {SGF}
  <2>1. CASE X \in h.on
    BY <2>1 DEF Core, Graphic
  <2>2. CASE X \notin h.on
    BY <2>2 DEF Core, Graphic
  <2> QED BY <2>1, <2>2
<1>4. ForPrinting(h, TRUE) = begindevices(z, names, TRUE)
  <2> DEFINE p == [h EXCEPT !.gem.lprint = TRUE]
             t == IF SGF \in p.on THEN p
                  ELSE [p EXCEPT !.gem.lSGFtemp = TRUE,
                                 !.kfilename = IF @ = NoName THEN Temp ELSE @]
  <2>1. p.on = h.on
    BY DEF Core, Graphic
  <2>2. t = z
    <3>1. CASE SGF \in h.on
      <4>1. [h.gem EXCEPT !.lprint = TRUE] = gem
        BY <1>1, <3>1 DEF Core, Graphic, Environment
      <4> QED BY <2>1, <3>1, <4>1 DEF Core, Graphic
    <3>2. CASE SGF \notin h.on
      <4>1. [[h.gem EXCEPT !.lprint = TRUE] EXCEPT !.lSGFtemp = TRUE] = gem
        BY <3>2 DEF Core, Graphic, Environment
      <4> QED BY <2>1, <3>2, <4>1 DEF Core, Graphic
    <3> QED BY <3>1, <3>2
  <2> QED BY <2>1, <2>2 DEF ForPrinting
<1> HIDE DEF gem, name, names
<1>5. /\ z \in Graphic /\ z.lbegf = h.lbegf /\ z.gem = gem /\ z.sav = h.sav
      /\ z.jfun = h.jfun /\ z.kfilename = name
      /\ z.asked = h.asked /\ z.lgems = h.lgems
  BY <1>2 DEF Core, Graphic
<1> HIDE DEF z
<1> DEFINE e == begindevices(z, names, TRUE)
<1>6. /\ e \in Graphic /\ SameFrame(e, z) /\ e.asked = z.asked
      /\ e.on = h.on \cup {SGF} /\ e.lgdon = e.on /\ (e.lactiv <=> e.on # {})
      /\ ~e.nerr
  BY <1>3, <1>5, DevicesBegun
<1> HIDE DEF e
<1>7. e = ForPrinting(h, TRUE)
  BY <1>4 DEF e
<1> QED BY <1>1, <1>2, <1>5, <1>6, <1>7 DEF SameFrame

LEMMA FrameStarts ==
  ASSUME NEW h, h \in Graphic, h.jfun = NoName,
         h.gem.lSGFtemp => h.kfilename # NoName
  PROVE  LET e == FrameBegun(h) IN
         /\ e \in Graphic /\ SameDevices(e, h)
         /\ e.lbegf /\ ~e.nerr /\ e.gem = h.gem /\ e.sav = h.sav
         /\ e.jfun # NoName <=> SGF \in h.on
         /\ e.gem.lSGFtemp => e.kfilename # NoName
<1> DEFINE b == beginframe2(h)
           s == IF SGF \in h.on THEN b ELSE h
<1>1. FrameName(h) \in Names /\ FrameName(h) # NoName
  BY DEF FrameName, Graphic, Names, NoName
<1>2. /\ b \in Graphic /\ SameDevices(b, h) /\ b.gem = h.gem /\ b.sav = h.sav
      /\ b.jfun # NoName /\ b.kfilename # NoName
  BY <1>1 DEF beginframe2, Graphic, SameDevices
<1>3. /\ s \in Graphic /\ SameDevices(s, h) /\ s.gem = h.gem /\ s.sav = h.sav
      /\ s.jfun # NoName <=> SGF \in h.on
      /\ s.gem.lSGFtemp => s.kfilename # NoName
  BY <1>2 DEF SameDevices
<1> HIDE DEF s
<1>4. FrameBegun(h) = [s EXCEPT !.lbegf = TRUE, !.nerr = FALSE]
  BY DEF FrameBegun, s
<1> QED BY <1>3, <1>4 DEF Graphic, SameDevices

\* beginframe: whatever it finds, there is a frame when it is done.
LEMMA Started ==
  ASSUME NEW h, Core(h), SavedTemp(h), ~h.nerr, NEW print \in BOOLEAN
  PROVE  LET b == beginframe(h, print, TRUE) IN
         /\ Core(b) /\ ~b.nerr /\ b.lbegf
         /\ Asked(h) => Asked(b)
         /\ h.on # {} => Remain(b) = Remain(h) /\ b.asked = h.asked
         /\ b.lgems = h.lgems /\ ~b.sav.lSGFtemp
         /\ ~print => ~b.gem.lSGFtemp
         /\ b.gem.lframe <=> (h.lbegf \/ h.gem.lframe)
         /\ b.sav.lframe <=> (h.lbegf \/ h.sav.lframe)
<1> DEFINE d == OpenDefault(h, TRUE)
           e == endframe(d)
           p == IF print THEN ForPrinting(e, TRUE) ELSE e
           b == FrameBegun(p)
<1>1. /\ Core(d) /\ ~d.nerr /\ d.on # {} /\ SavedTemp(d)
      /\ Asked(h) => Asked(d)
      /\ h.on # {} => d = h
      /\ d.lbegf = h.lbegf /\ d.gem = h.gem /\ d.sav = h.sav /\ d.lgems = h.lgems
  BY DefaultOpen DEF SavedTemp
<1> HIDE DEF d
<1>2. /\ Core(e) /\ ~e.lbegf /\ ~e.nerr
      /\ e.on = Remain(d) /\ e.asked = d.asked /\ e.lgems = h.lgems
      /\ ~e.gem.lSGFtemp /\ ~e.sav.lSGFtemp
      /\ d.lbegf => e.gem.lframe /\ e.sav.lframe
      /\ ~d.lbegf => e.gem = d.gem /\ e.sav = d.sav
  BY <1>1, Ended DEF SavedTemp
<1>3. e.on # {} /\ e.jfun = NoName /\ e \in Graphic /\ e.lactiv
  BY <1>1, <1>2 DEF Core, Remain
<1>4. /\ e.gem.lframe <=> (h.lbegf \/ h.gem.lframe)
      /\ e.sav.lframe <=> (h.lbegf \/ h.sav.lframe)
  BY <1>1, <1>2, <1>3 DEF Core, Graphic, Environment
<1>5. beginframe(h, print, TRUE) = b
  BY <1>1, <1>2 DEF beginframe, d
<1> HIDE DEF e
<1>6. /\ p \in Graphic /\ (p.lactiv <=> p.on # {}) /\ p.on # {} /\ p.jfun = NoName
      /\ p.gem.lSGFtemp => /\ print /\ p.kfilename # NoName /\ SGF \in p.lgdon
                           /\ p.on = Devices
      /\ Remain(p) = e.on /\ p.asked = e.asked
      /\ p.gem.lframe = e.gem.lframe /\ p.sav = e.sav /\ p.lgems = e.lgems
  <2>1. CASE ~print
    BY <1>2, <1>3, <2>1 DEF Core, Remain
  <2>2. CASE print
    <3>1. /\ p \in Graphic
          /\ p.on = e.on \cup {SGF} /\ p.lgdon = p.on /\ p.lactiv
          /\ p.jfun = NoName
          /\ p.gem.lframe = e.gem.lframe
          /\ p.gem.lSGFtemp <=> SGF \notin e.on
          /\ p.gem.lSGFtemp => p.kfilename # NoName
          /\ p.sav = e.sav /\ p.asked = e.asked /\ p.lgems = e.lgems
      BY <1>2, <1>3, <2>2, PrintReady
    <3> HIDE DEF p
    <3>2. e.on \subseteq Devices
      BY <1>3 DEF Graphic
    <3> QED BY <1>3, <2>2, <3>1, <3>2 DEF Remain
  <2> QED BY <2>1, <2>2
<1> HIDE DEF p
<1>7. /\ b \in Graphic /\ SameDevices(b, p)
      /\ b.lbegf /\ ~b.nerr /\ b.gem = p.gem /\ b.sav = p.sav
      /\ b.jfun # NoName <=> SGF \in p.on
      /\ b.gem.lSGFtemp => b.kfilename # NoName
  BY <1>6, FrameStarts
<1> HIDE DEF b
<1>8. /\ Core(b) /\ Remain(b) = e.on /\ b.asked = e.asked
      /\ b.lgems = e.lgems /\ b.sav = e.sav
  BY <1>6, <1>7 DEF Core, Remain, SameDevices
<1>9. /\ b.gem.lframe <=> (h.lbegf \/ h.gem.lframe)
      /\ b.sav.lframe <=> (h.lbegf \/ h.sav.lframe)
      /\ ~print => ~b.gem.lSGFtemp
  BY <1>4, <1>6, <1>7
<1> QED BY <1>1, <1>2, <1>5, <1>7, <1>8, <1>9 DEF Asked

-----------------------------------------------------------------------------
(* The files of frames.                                                    *)

\* Files of complete frames have the numbers already given away, and the open
\* one the next; a temporary file is for printing.
Numbered(h) ==
  /\ h.nfnum >= 1
  /\ \A n \in h.disk : n >= 1 /\ n < h.nfnum
  /\ h.jfun \in {NoName, Temp, h.nfnum}
  /\ h.jfun = Temp => h.gem.lprint

\* What is to be printed is the file of the open frame.
Files(h) ==
  "stale" \notin Cases =>
    /\ ~h.misprint
    /\ h.jfun # NoName => h.kfilename = h.jfun
    /\ h.gem.lprint => h.lbegf /\ SGF \in h.on
    /\ "reuse" \notin Cases => Numbered(h)

\* What this says of the disk alone.
OnDisk(h) ==
  "stale" \notin Cases =>
    /\ ~h.misprint
    /\ "reuse" \notin Cases => h.nfnum >= 1 /\ \A n \in h.disk : n >= 1 /\ n < h.nfnum

\* No complete frame is lost on the way from h to e.
Keeps(e, h) == Cases \cap {"reuse", "stale"} = {} => h.disk \subseteq e.disk

SameFiles(e, h) == e.disk = h.disk /\ e.nfnum = h.nfnum /\ e.misprint = h.misprint

\* A name that a temporary file may take, or no need of one.
Named(h) == SGF \in h.on \/ h.kfilename \in {NoName, Temp}

LEMMA WrittenFiles ==
  ASSUME NEW h, Core(h), h.lbegf, Files(h)
  PROVE  OnDisk(FrameWritten(h)) /\ Keeps(FrameWritten(h), h)
<1> DEFINE z == [h EXCEPT !.nerr = FALSE]
           s == IF SGF \in h.on THEN endframe2(z) ELSE z
           x == IF X \in h.on THEN [s EXCEPT !.nerr = FALSE] ELSE s
           own == IF SGF \in h.on THEN h.jfun ELSE NoName
           w == Printed(x, own)
<1> SUFFICES ASSUME "stale" \notin Cases PROVE OnDisk(FrameWritten(h)) /\ Keeps(FrameWritten(h), h)
  BY DEF OnDisk, Keeps
<1>0. /\ ~h.misprint /\ (h.jfun # NoName => h.kfilename = h.jfun)
      /\ (h.gem.lprint => SGF \in h.on) /\ ("reuse" \notin Cases => Numbered(h))
      /\ h \in Graphic /\ (SGF \in h.on <=> h.jfun # NoName)
      /\ h.nfnum \in Nat /\ h.disk \in SUBSET Nat
  BY DEF Files, Core, Graphic
<1>1. /\ z.gem = h.gem /\ z.kfilename = h.kfilename /\ z.jfun = h.jfun
      /\ z.disk = h.disk /\ z.nfnum = h.nfnum /\ z.misprint = h.misprint /\ z \in Graphic
  BY <1>0 DEF Graphic
<1> HIDE DEF z
<1>2. /\ s \in Graphic
      /\ s.gem = h.gem /\ s.kfilename = h.kfilename /\ s.misprint = h.misprint
      /\ SGF \in h.on => s.disk = h.disk \cup {h.jfun} /\ s.nfnum = h.nfnum + 1
      /\ SGF \notin h.on => s.disk = h.disk /\ s.nfnum = h.nfnum
  <2>1. CASE SGF \in h.on
    <3> DEFINE t == [z EXCEPT !.disk = @ \cup {z.jfun}, !.jfun = NoName, !.nfnum = @ + 1]
    <3>1. s = t
      BY <1>0, <1>1, <2>1 DEF endframe2
    <3>2. z.jfun \in Nat /\ z.nfnum + 1 \in Nat /\ z.disk \cup {z.jfun} \in SUBSET Nat
      BY <1>0, <1>1, <2>1 DEF Graphic, Names
    <3>3. t \in Graphic
      BY <1>1, <3>2 DEF Graphic, Names
    <3>4. /\ t.gem = h.gem /\ t.kfilename = h.kfilename /\ t.misprint = h.misprint
          /\ t.disk = h.disk \cup {h.jfun} /\ t.nfnum = h.nfnum + 1
      BY <1>1 DEF Graphic
    <3> QED BY <2>1, <3>1, <3>3, <3>4
  <2>2. CASE SGF \notin h.on
    BY <1>1, <2>2
  <2> QED BY <2>1, <2>2
<1> HIDE DEF s
<1>3. /\ x \in Graphic
      /\ x.gem = h.gem /\ x.kfilename = h.kfilename /\ x.misprint = h.misprint
      /\ x.disk = s.disk /\ x.nfnum = s.nfnum
  BY <1>2 DEF Graphic
<1>4. FrameWritten(h) = w
  BY DEF FrameWritten, s, z
<1> HIDE DEF x
<1>5. CASE ~h.gem.lprint
  <2>1. w = x
    BY <1>3, <1>5 DEF Printed
  <2>2. ASSUME "reuse" \notin Cases
        PROVE  /\ x.nfnum >= 1 /\ \A n \in x.disk : n >= 1 /\ n < x.nfnum
               /\ h.disk \subseteq x.disk
    <3>1. CASE SGF \in h.on
      <4>1. h.jfun = h.nfnum
        BY <1>0, <1>5, <2>2, <3>1 DEF Numbered
      <4> QED BY <1>0, <1>2, <1>3, <2>2, <3>1, <4>1 DEF Numbered
    <3>2. CASE SGF \notin h.on
      BY <1>0, <1>2, <1>3, <2>2, <3>2 DEF Numbered
    <3> QED BY <3>1, <3>2
  <2> QED BY <1>0, <1>3, <1>4, <2>1, <2>2 DEF OnDisk, Keeps
<1>6. CASE h.gem.lprint
  <2>1. SGF \in h.on /\ own = h.jfun /\ own # NoName /\ x.kfilename = own
    BY <1>0, <1>3, <1>6
  <2>2. w = [x EXCEPT !.disk = @ \ {own}, !.misprint = @ \/ own = NoName \/ x.kfilename # own]
    BY <1>3, <1>6, <2>1 DEF Printed
  <2>3. w.disk = x.disk \ {own} /\ ~w.misprint /\ w.nfnum = x.nfnum
    BY <1>0, <1>3, <2>1, <2>2 DEF Graphic
  <2>4. ASSUME "reuse" \notin Cases
        PROVE  /\ w.nfnum >= 1 /\ \A n \in w.disk : n >= 1 /\ n < w.nfnum
               /\ h.disk \subseteq w.disk
    <3>1. own \in {Temp, h.nfnum}
      BY <1>0, <2>1, <2>4 DEF Numbered
    <3>2. own \notin h.disk
      BY <1>0, <2>4, <3>1 DEF Numbered, Temp
    <3>3. w.disk = h.disk /\ w.nfnum = h.nfnum + 1
      BY <1>2, <1>3, <2>1, <2>3, <3>2
    <3> QED BY <1>0, <2>4, <3>3 DEF Numbered
  <2> QED BY <1>4, <2>3, <2>4 DEF OnDisk, Keeps
<1> QED BY <1>5, <1>6

LEMMA ResetFiles ==
  ASSUME NEW h, h \in Graphic
  PROVE  LET e == FlagsReset(h) IN SameFiles(e, h) /\ ~e.gem.lprint /\ ~e.sav.lprint
BY DEF FlagsReset, Graphic, Environment, SameFiles

LEMMA TempEndedFiles ==
  ASSUME NEW h, h \in Graphic, SGF \in h.on, SGF \in h.lgdon
  PROVE  LET e == endSGFtemp(h) IN SameFiles(e, h) /\ e.kfilename = NoName
<1> DEFINE z == [h EXCEPT !.nerr = FALSE]
           y == [z EXCEPT !.on = @ \ {SGF}]
           t == TurnedOff(z, SGF)
<1>1. /\ z \in Graphic /\ SGF \in z.on /\ SGF \in z.lgdon /\ ~z.nerr /\ SameFiles(z, h)
  BY DEF Graphic, SameFiles
<1> HIDE DEF z
<1>2. y \in Graphic /\ SameFiles(y, z) /\ ~y.nerr
  BY <1>1 DEF Graphic, SameFiles
<1>3. t = calstatus(y)
  BY <1>1 DEF TurnedOff
<1> HIDE DEF y
<1>4. calstatus(y) \in Graphic /\ SameFiles(calstatus(y), y) /\ ~calstatus(y).nerr
  BY <1>2 DEF calstatus, Graphic, SameFiles
<1> HIDE DEF t
<1> DEFINE u == [t EXCEPT !.lgdon = @ \ {SGF}, !.lbegf = FALSE,
                          !.gem = NewEnvironment,
                          !.sav = NewEnvironment, !.kfilename = NoName]
<1>5. endSGFtemp(h) = [u EXCEPT !.lactiv = u.on # {}]
  BY <1>1, <1>3, <1>4 DEF endSGFtemp, calstatus, z, t
<1>6. NewEnvironment \in Environment /\ NoName \in Names
  BY DEF NewEnvironment, Environment, Names
<1>7. u \in Graphic /\ SameFiles(u, t) /\ u.kfilename = NoName
  BY <1>3, <1>4, <1>6 DEF Graphic, SameFiles
<1> HIDE DEF u
<1>8. SameFiles([u EXCEPT !.lactiv = u.on # {}], u)
      /\ [u EXCEPT !.lactiv = u.on # {}].kfilename = NoName
  BY <1>7 DEF Graphic, SameFiles
<1> QED BY <1>1, <1>2, <1>3, <1>4, <1>5, <1>7, <1>8 DEF SameFiles

\* endframe: its file is on disk, or printed and removed.
LEMMA EndedFiles ==
  ASSUME NEW h, Core(h), SavedTemp(h), Files(h)
  PROVE  LET e == endframe(h) IN
         /\ Files(e) /\ Keeps(e, h)
         /\ Named(h) => Named(e)
         /\ e.sav.lprint => h.sav.lprint /\ ~h.lbegf
         /\ "stale" \notin Cases => ~e.gem.lprint
<1>1. CASE ~h.lbegf
  <2> DEFINE z == [h EXCEPT !.nerr = FALSE]
  <2>1. endframe(h) = z
    BY <1>1 DEF endframe
  <2>2. /\ SameFrame(z, h) /\ SameDevices(z, h) /\ SameFiles(z, h)
    BY DEF Core, Graphic, SameDevices, SameFrame, SameFiles
  <2> HIDE DEF z
  <2>3. "stale" \notin Cases => ~h.gem.lprint
    BY <1>1 DEF Files
  <2>4. Files(z) /\ Keeps(z, h) /\ (Named(h) => Named(z))
    BY <2>2 DEF Files, Numbered, Keeps, Named, SameFiles, SameFrame, SameDevices
  <2> QED BY <1>1, <2>1, <2>2, <2>3, <2>4 DEF SameFrame
<1>2. CASE h.lbegf
  <2> DEFINE w == FrameWritten(h)
             f == FlagsReset(w)
  <2>1. /\ w \in Graphic /\ SameDevices(w, h) /\ w.gem = h.gem
        /\ w.kfilename = h.kfilename /\ w.jfun = NoName
        /\ OnDisk(w) /\ Keeps(w, h)
    BY <1>2, Written, WrittenFiles
  <2> HIDE DEF w
  <2>2. /\ f \in Graphic /\ SameDevices(f, h)
        /\ f.gem.lSGFtemp = h.gem.lSGFtemp
        /\ f.jfun = NoName /\ f.kfilename = h.kfilename
        /\ SameFiles(f, w) /\ ~f.gem.lprint /\ ~f.sav.lprint
    BY <2>1, Reset, ResetFiles DEF SameDevices
  <2> HIDE DEF f
  <2>3. endframe(h) = IF h.gem.lSGFtemp THEN endSGFtemp(f) ELSE f
    BY <1>2, <2>2 DEF endframe, FrameEnded, w, f
  <2>4. Files(f) /\ Keeps(f, h)
    BY <2>1, <2>2 DEF Files, Numbered, OnDisk, Keeps, SameFiles, NoName, Temp
  <2>5. CASE ~h.gem.lSGFtemp
    BY <2>2, <2>3, <2>4, <2>5 DEF Named, SameDevices
  <2>6. CASE h.gem.lSGFtemp
    <3> DEFINE e == endSGFtemp(f)
    <3>1. SGF \in f.on /\ SGF \in f.lgdon
      BY <2>2, <2>6 DEF Core, SameDevices
    <3>2. /\ e.jfun = NoName /\ e.gem = NewEnvironment /\ e.sav = NewEnvironment
          /\ SameFiles(e, f) /\ e.kfilename = NoName
      BY <2>2, <3>1, TempEnded, TempEndedFiles
    <3>3. endframe(h) = e
      BY <2>3, <2>6
    <3> HIDE DEF e
    <3>4. ~e.gem.lprint /\ ~e.sav.lprint
      BY <3>2 DEF NewEnvironment
    <3>5. Files(e) /\ Keeps(e, h)
      BY <2>4, <3>2, <3>4 DEF Files, Numbered, Keeps, SameFiles, NoName, Temp
    <3> QED BY <3>2, <3>3, <3>4, <3>5 DEF Named
  <2> QED BY <2>5, <2>6
<1> QED BY <1>1, <1>2

\* Turning devices on writes no file.
LEMMA DevicesBegunFiles ==
  ASSUME NEW h, h \in Graphic, NEW names, names \in Seq(Devices)
  PROVE  SameFiles(begindevices(h, names, TRUE), h)
<1> DEFINE z == [h EXCEPT !.on = Begun(names, TRUE), !.lgdon = Begun(names, TRUE),
                          !.nerr = Failed(names, TRUE)]
<1>1. z \in Graphic /\ SameFiles(z, h)
  BY DEF Begun, Failed, Graphic, SameFiles
<1>2. begindevices(h, names, TRUE) \in {z, calstatus(z)}
  BY DEF begindevices
<1> HIDE DEF z
<1>3. SameFiles(calstatus(z), z)
  BY <1>1 DEF calstatus, Graphic, SameFiles
<1> QED BY <1>1, <1>2, <1>3 DEF SameFiles

LEMMA DefaultFiles ==
  ASSUME NEW h, Core(h), ~h.nerr, Files(h)
  PROVE  LET d == OpenDefault(h, TRUE) IN
         Files(d) /\ Keeps(d, h) /\ (Named(h) => Named(d))
<1>1. CASE h.lactiv
  BY <1>1 DEF OpenDefault, Keeps
<1>2. CASE ~h.lactiv
  <2> DEFINE b == begindevices(h, <<Default>>, TRUE)
             d == [b EXCEPT !.asked = {Default}]
  <2>1. Default \in Devices /\ <<Default>> \in Seq(Devices)
    BY DeviceAssumption
  <2>2. b \in Graphic /\ SameFrame(b, h) /\ SameFiles(b, h)
    BY <2>1, DevicesBegun, DevicesBegunFiles DEF Core
  <2>3. OpenDefault(h, TRUE) = d
    BY <1>2 DEF OpenDefault
  <2> HIDE DEF b
  <2>4. SameFrame(d, h) /\ SameFiles(d, h)
    BY <2>1, <2>2 DEF Graphic, SameFrame, SameFiles
  <2> HIDE DEF d
  <2>5. h.on = {} /\ ~h.lbegf
    BY <1>2 DEF Core
  <2>6. Files(d) /\ Keeps(d, h)
    BY <2>4, <2>5 DEF Files, Numbered, Keeps, SameFrame, SameFiles
  <2>7. Named(h) => Named(d)
    BY <2>4, <2>5 DEF Named, SameFrame
  <2> QED BY <2>3, <2>6, <2>7
<1> QED BY <1>1, <1>2

LEMMA PrintFiles ==
  ASSUME NEW h, Core(h), ~h.lbegf, h.on # {}
  PROVE  LET e == ForPrinting(h, TRUE) IN
         /\ SameFiles(e, h) /\ e.gem.lprint
         /\ Named(h) /\ SGF \notin h.on => e.kfilename = Temp
<1> DEFINE p == [h EXCEPT !.gem = [h.gem EXCEPT !.lprint = TRUE]]
           name == IF h.kfilename = NoName THEN Temp ELSE h.kfilename
           gem == [p.gem EXCEPT !.lSGFtemp = TRUE]
           t == IF SGF \in p.on THEN p ELSE [p EXCEPT !.gem = gem, !.kfilename = name]
           names == IF X \in p.on THEN <<SGF, X>> ELSE <<SGF>>
<1>1. /\ p \in Graphic /\ p.gem.lprint /\ SameFiles(p, h) /\ p.on = h.on
      /\ p.kfilename = h.kfilename
  BY DEF Core, Graphic, Environment, SameFiles
<1>2. ForPrinting(h, TRUE) = begindevices(t, names, TRUE)
  BY DEF ForPrinting, Core, Graphic
<1> HIDE DEF p
<1>3. gem \in Environment /\ gem.lprint /\ name \in Names
  BY <1>1 DEF Graphic, Environment, Names, Temp
<1>4. Named(h) /\ SGF \notin h.on => name = Temp
  BY DEF Named
<1> HIDE DEF gem, name
<1>5. /\ t \in Graphic /\ t.gem.lprint /\ SameFiles(t, h)
      /\ Named(h) /\ SGF \notin h.on => t.kfilename = Temp
  BY <1>1, <1>3, <1>4 DEF Graphic, SameFiles
<1> HIDE DEF t
<1>6. names \in Seq(Devices)
  <2>1. <<SGF, X>> \in Seq(Devices) /\ <<SGF>> \in Seq(Devices)
    OBVIOUS
  <2> QED BY <2>1
<1> HIDE DEF names
<1>7. SameFrame(begindevices(t, names, TRUE), t) /\ SameFiles(begindevices(t, names, TRUE), t)
  BY <1>5, <1>6, DevicesBegun, DevicesBegunFiles
<1> QED BY <1>2, <1>5, <1>7 DEF SameFrame, SameFiles

\* The file of a new frame replaces none: its name is the next number, or that
\* of the temporary file, which is removed when it is printed.
LEMMA NewFile ==
  ASSUME NEW h, h \in Graphic, h.jfun = NoName, OnDisk(h),
         h.gem.lSGFtemp => h.gem.lprint /\ h.kfilename # NoName,
         "reuse" \notin Cases /\ "stale" \notin Cases /\ h.gem.lSGFtemp => h.kfilename = Temp,
         "stale" \notin Cases /\ h.gem.lprint => SGF \in h.on
  PROVE  LET e == FrameBegun(h) IN
         /\ Files(e) /\ Keeps(e, h)
         /\ "stale" \notin Cases /\ "reuse" \notin Cases /\ ~h.gem.lSGFtemp => e.jfun # Temp
<1> DEFINE n == FrameName(h)
           b == [h EXCEPT !.jfun = n, !.kfilename = n, !.disk = @ \ {n}, !.nerr = FALSE]
           s == IF SGF \in h.on THEN b ELSE h
           e == [s EXCEPT !.lbegf = TRUE, !.nerr = FALSE]
<1>0. h.nfnum \in Nat /\ h.disk \in SUBSET Nat
  BY DEF Graphic
<1>1. n \in Names /\ (~h.gem.lSGFtemp => n = h.nfnum) /\ (h.gem.lSGFtemp => n = h.kfilename)
  BY DEF FrameName, Graphic, Names
<1>2. FrameBegun(h) = e
  BY DEF FrameBegun, beginframe2
<1> HIDE DEF n
<1>3. /\ b \in Graphic /\ b.jfun = n /\ b.kfilename = n /\ b.disk = h.disk \ {n}
      /\ b.nfnum = h.nfnum /\ b.misprint = h.misprint /\ b.gem = h.gem /\ b.on = h.on
  BY <1>1 DEF Graphic
<1> HIDE DEF b
<1>4. /\ e.jfun = s.jfun /\ e.kfilename = s.kfilename /\ e.disk = s.disk /\ e.nfnum = s.nfnum
      /\ e.misprint = s.misprint /\ e.gem = s.gem /\ e.on = s.on /\ e.lbegf
  BY <1>3 DEF Graphic
<1> HIDE DEF e
<1>5. CASE SGF \notin h.on
  <2>1. s = h
    BY <1>5
  <2> QED BY <1>2, <1>4, <1>5, <2>1 DEF Files, Numbered, OnDisk, Keeps, NoName, Temp
<1>6. CASE SGF \in h.on
  <2>1. s = b
    BY <1>6
  <2>2. ASSUME "stale" \notin Cases, "reuse" \notin Cases
        PROVE  /\ n \in {Temp, h.nfnum} /\ (n = Temp => h.gem.lprint)
               /\ n \notin h.disk /\ h.nfnum # Temp
    BY <1>0, <1>1, <2>2 DEF OnDisk, Temp
  <2>3. "stale" \notin Cases /\ "reuse" \notin Cases => e.disk = h.disk
    BY <1>3, <1>4, <2>1, <2>2
  <2>4. Keeps(e, h)
    BY <2>3 DEF Keeps
  <2>5. Files(e)
    BY <1>3, <1>4, <1>6, <2>1, <2>2, <2>3 DEF Files, Numbered, OnDisk
  <2>6. ASSUME ~h.gem.lSGFtemp, "stale" \notin Cases, "reuse" \notin Cases PROVE e.jfun # Temp
    BY <1>1, <1>3, <1>4, <2>1, <2>2, <2>6
  <2> QED BY <1>2, <2>4, <2>5, <2>6
<1> QED BY <1>5, <1>6

\* beginframe, with a name for what is to be printed.
LEMMA StartedFiles ==
  ASSUME NEW h, Core(h), SavedTemp(h), ~h.nerr, NEW print \in BOOLEAN, Files(h),
         "stale" \notin Cases /\ "reuse" \notin Cases /\ print => Named(h)
  PROVE  LET b == beginframe(h, print, TRUE) IN
         /\ Files(b) /\ Keeps(b, h)
         /\ b.sav.lprint => h.sav.lprint /\ ~h.lbegf
         /\ print => SGF \in b.on
         /\ "stale" \notin Cases /\ "reuse" \notin Cases /\ ~print => b.jfun # Temp
<1> DEFINE d == OpenDefault(h, TRUE)
           e == endframe(d)
           p == IF print THEN ForPrinting(e, TRUE) ELSE e
           b == FrameBegun(p)
<1>1. /\ Core(d) /\ ~d.nerr /\ d.on # {} /\ SavedTemp(d)
      /\ d.lbegf = h.lbegf /\ d.sav = h.sav
      /\ Files(d) /\ Keeps(d, h) /\ (Named(h) => Named(d))
  <2>1. /\ Core(d) /\ ~d.nerr /\ d.on # {} /\ d.lbegf = h.lbegf /\ d.sav = h.sav
        /\ d.gem = h.gem
    BY DefaultOpen
  <2>2. Files(d) /\ Keeps(d, h) /\ (Named(h) => Named(d))
    BY DefaultFiles
  <2> QED BY <2>1, <2>2 DEF SavedTemp
<1> HIDE DEF d
<1>2. /\ Core(e) /\ ~e.lbegf /\ ~e.nerr /\ e.on = Remain(d)
      /\ ~e.gem.lSGFtemp /\ ~e.sav.lSGFtemp
      /\ Files(e) /\ Keeps(e, d) /\ (Named(d) => Named(e))
      /\ e.sav.lprint => d.sav.lprint /\ ~d.lbegf
      /\ "stale" \notin Cases => ~e.gem.lprint
  BY <1>1, Ended, EndedFiles DEF SavedTemp
<1>3. e.on # {} /\ e.jfun = NoName /\ e \in Graphic
  BY <1>1, <1>2 DEF Core, Remain
<1>4. beginframe(h, print, TRUE) = b
  BY <1>1, <1>2 DEF beginframe, d
<1> HIDE DEF e
<1>5. OnDisk(e)
  BY <1>2 DEF Files, OnDisk, Numbered
<1>6. /\ p \in Graphic /\ p.jfun = NoName /\ OnDisk(p) /\ Keeps(p, e) /\ p.sav = e.sav
      /\ p.gem.lSGFtemp => print /\ p.gem.lprint /\ p.kfilename # NoName
      /\ "stale" \notin Cases /\ "reuse" \notin Cases /\ p.gem.lSGFtemp => p.kfilename = Temp
      /\ "stale" \notin Cases /\ p.gem.lprint => SGF \in p.on
      /\ print => SGF \in p.on
  <2>1. CASE ~print
    BY <1>2, <1>3, <1>5, <2>1 DEF Keeps
  <2>2. CASE print
    <3>1. /\ p \in Graphic /\ p.on = e.on \cup {SGF} /\ p.jfun = NoName
          /\ p.gem.lSGFtemp <=> SGF \notin e.on
          /\ p.gem.lSGFtemp => p.kfilename # NoName
          /\ p.sav = e.sav
      BY <1>2, <1>3, <2>2, PrintReady
    <3>2. /\ SameFiles(p, e) /\ p.gem.lprint
          /\ Named(e) /\ SGF \notin e.on => p.kfilename = Temp
      BY <1>2, <1>3, <2>2, PrintFiles
    <3> HIDE DEF p
    <3>3. OnDisk(p) /\ Keeps(p, e)
      BY <1>5, <3>2 DEF OnDisk, Keeps, SameFiles
    <3> QED BY <1>1, <1>2, <2>2, <3>1, <3>2, <3>3
  <2> QED BY <2>1, <2>2
<1> HIDE DEF p
<1>7. /\ b.sav = p.sav /\ b.on = p.on /\ Files(b) /\ Keeps(b, p)
      /\ "stale" \notin Cases /\ "reuse" \notin Cases /\ ~p.gem.lSGFtemp => b.jfun # Temp
  <2>1. /\ p.gem.lSGFtemp => p.kfilename # NoName
        /\ p.gem.lSGFtemp => p.gem.lprint /\ p.kfilename # NoName
        /\ "reuse" \notin Cases /\ "stale" \notin Cases /\ p.gem.lSGFtemp => p.kfilename = Temp
    BY <1>6
  <2>2. b.sav = p.sav /\ b.on = p.on
    BY <1>6, <2>1, FrameStarts DEF SameDevices
  <2>3. "stale" \notin Cases /\ p.gem.lprint => SGF \in p.on
    BY <1>6
  <2>4. p \in Graphic /\ p.jfun = NoName /\ OnDisk(p)
    BY <1>6
  <2>5. /\ Files(b) /\ Keeps(b, p)
        /\ "stale" \notin Cases /\ "reuse" \notin Cases /\ ~p.gem.lSGFtemp => b.jfun # Temp
    BY <2>1, <2>3, <2>4, NewFile
  <2> QED BY <2>2, <2>5
<1> HIDE DEF b
<1>8. Keeps(b, h)
  BY <1>1, <1>2, <1>6, <1>7 DEF Keeps
<1> QED BY <1>1, <1>2, <1>4, <1>6, <1>7, <1>8

\* Neither setting a flag of the environment nor saving it writes a file.
LEMMA FramingFiles ==
  ASSUME NEW h, Core(h), NEW v \in BOOLEAN
  PROVE  LET e == [h EXCEPT !.gem.lframe = v] IN
         /\ SameFiles(e, h) /\ e.jfun = h.jfun /\ e.kfilename = h.kfilename
         /\ e.gem.lprint = h.gem.lprint
         /\ Files(h) => Files(e)
<1> DEFINE gem == [h.gem EXCEPT !.lframe = v]
           e == [h EXCEPT !.gem = gem]
<1>1. gem.lprint = h.gem.lprint
  BY DEF Core, Graphic, Environment
<1>2. [h EXCEPT !.gem.lframe = v] = e
  BY DEF Core, Graphic
<1> HIDE DEF gem
<1>3. /\ SameFiles(e, h) /\ e.jfun = h.jfun /\ e.kfilename = h.kfilename
      /\ e.gem.lprint = h.gem.lprint /\ e.lbegf = h.lbegf /\ e.on = h.on
  BY <1>1 DEF Core, Graphic, SameFiles
<1> HIDE DEF e
<1> QED BY <1>2, <1>3 DEF Files, Numbered, SameFiles

LEMMA SavedFiles ==
  ASSUME NEW h, Core(h), Files(h)
  PROVE  LET s == plsave(h) IN
         /\ Files(s) /\ SameFiles(s, h) /\ s.sav.lprint = s.gem.lprint
         /\ Named(h) => Named(s)
<1> DEFINE s == [h EXCEPT !.sav = h.gem, !.lgems = TRUE]
<1>1. plsave(h) = s
  BY DEF plsave
<1>2. /\ SameFiles(s, h) /\ s.sav = h.gem /\ s.gem = h.gem /\ s.lbegf = h.lbegf
      /\ s.on = h.on /\ s.jfun = h.jfun /\ s.kfilename = h.kfilename
  BY DEF Core, Graphic, SameFiles
<1> HIDE DEF s
<1> QED BY <1>1, <1>2 DEF Files, Numbered, Named, SameFiles

\* Nor does restoring it, if the frame is not one to be printed any more.
LEMMA RestoredFiles ==
  ASSUME NEW h, Core(h), h.lgems, Files(h),
         "stale" \notin Cases /\ h.sav.lprint => h.gem.lprint,
         "stale" \notin Cases /\ "reuse" \notin Cases /\ h.jfun = Temp => h.sav.lprint
  PROVE  LET r == plrest(h) IN Files(r) /\ SameFiles(r, h)
<1> DEFINE r == [h EXCEPT !.gem = h.sav, !.lgems = FALSE]
<1>1. plrest(h) = r
  BY DEF plrest
<1>2. /\ SameFiles(r, h) /\ r.gem = h.sav /\ r.lbegf = h.lbegf
      /\ r.on = h.on /\ r.jfun = h.jfun /\ r.kfilename = h.kfilename
  BY DEF Core, Graphic, SameFiles
<1> HIDE DEF r
<1> QED BY <1>1, <1>2 DEF Files, Numbered, SameFiles

-----------------------------------------------------------------------------
(* Commands.                                                               *)

\* No mishap but those that neither leave a frame nor change the devices.
Orderly == Cases \subseteq {"reuse", "stale"}

\* What every command leaves.
Good(h) == /\ Core(h) /\ Asked(h) /\ SavedTemp(h) /\ Files(h)
           /\ ~h.gem.lframe => h.lbegf
           /\ ~h.lgems

Inv == /\ Good(g) /\ ~g.nerr
       /\ xp \in [busy : BOOLEAN, lprint : BOOLEAN, lframs : BOOLEAN]
       /\ xp.busy /\ ~xp.lframs => g.lbegf
       /\ xp.busy /\ xp.lprint /\ "reuse" \notin Cases => Named(g)

LEMMA Windows ==
  ASSUME Orderly PROVE Opens = {TRUE}
  BY DEF Orderly, Opens

LEMMA LeftGood ==
  ASSUME NEW h, Good(h), Leaves(h)
  PROVE  /\ Good(g') /\ ~g'.nerr /\ g'.lbegf = h.lbegf
         /\ Keeps(g', h) /\ (Named(h) => Named(g'))
<1> DEFINE e == [h EXCEPT !.nerr = FALSE]
<1>1. /\ e \in Graphic /\ SameFrame(e, h) /\ SameDevices(e, h) /\ ~e.nerr /\ SameFiles(e, h)
  BY DEF Good, Core, Graphic, SameFrame, SameDevices, SameFiles
<1>2. g' = e
  BY DEF Leaves
<1> HIDE DEF e
<1>3. Files(e) /\ Keeps(e, h) /\ (Named(h) => Named(e))
  BY <1>1 DEF Good, Files, Numbered, Keeps, Named, SameFrame, SameDevices, SameFiles
<1> QED BY <1>1, <1>2, <1>3
        DEF Good, Core, Asked, SavedTemp, Remain, SameFrame, SameDevices

LEMMA FramingSet ==
  ASSUME NEW h, Core(h), NEW v \in BOOLEAN
  PROVE  LET e == [h EXCEPT !.gem.lframe = v] IN
         /\ Core(e) /\ SameDevices(e, h) /\ e.lbegf = h.lbegf /\ e.sav = h.sav
         /\ e.gem.lSGFtemp = h.gem.lSGFtemp /\ e.gem.lframe = v /\ e.nerr = h.nerr
<1> DEFINE gem == [h.gem EXCEPT !.lframe = v]
           e == [h EXCEPT !.gem = gem]
<1>1. gem \in Environment /\ gem.lSGFtemp = h.gem.lSGFtemp /\ gem.lframe = v
  BY DEF Core, Graphic, Environment
<1>2. [h EXCEPT !.gem.lframe = v] = e
  BY DEF Core, Graphic
<1> HIDE DEF gem
<1>3. /\ e \in Graphic /\ SameDevices(e, h) /\ e.lbegf = h.lbegf /\ e.sav = h.sav
      /\ e.gem = gem /\ e.nerr = h.nerr /\ e.jfun = h.jfun /\ e.kfilename = h.kfilename
  BY <1>1 DEF Core, Graphic, SameDevices
<1> HIDE DEF e
<1> QED BY <1>1, <1>2, <1>3 DEF Core, SameDevices

LEMMA BeginDevicesGood ==
  ASSUME Orderly, Inv, NEW names \in DeviceLists, BeginDevices(names, TRUE)
  PROVE  Good(g') /\ ~g'.nerr /\ Keeps(g', g)
<1> DEFINE b == begindevices(g, names, TRUE)
           on == {names[i] : i \in DOMAIN names}
           e == [b EXCEPT !.asked = on]
<1>1. ~g.lbegf /\ Leaves(e)
  BY DEF Orderly, BeginDevices
<1>2. names \in Seq(Devices)
  BY DeviceAssumption
<1>3. /\ b \in Graphic /\ SameFrame(b, g) /\ b.on = on /\ b.lgdon = b.on
      /\ b.lactiv <=> b.on # {}
      /\ SameFiles(b, g)
  BY <1>2, DevicesBegun, DevicesBegunFiles DEF Inv, Good, Core
<1> HIDE DEF b
<1>4. on \subseteq Devices
  BY <1>2
<1> HIDE DEF on
<1>5. /\ e \in Graphic /\ SameFrame(e, g) /\ e.on = on /\ e.asked = on
      /\ e.lactiv <=> e.on # {}
      /\ SameFiles(e, g)
  BY <1>3, <1>4 DEF Graphic, SameFrame, SameFiles
<1> HIDE DEF e
<1>6. Files(e) /\ Keeps(e, g)
  BY <1>1, <1>5 DEF Inv, Good, Core, Files, Numbered, Keeps, SameFrame, SameFiles
<1>7. Good(e)
  BY <1>1, <1>5, <1>6 DEF Inv, Good, Core, Asked, SavedTemp, Remain, SameFrame
<1> QED BY <1>1, <1>6, <1>7, LeftGood DEF Keeps

LEMMA EndDevicesGood ==
  ASSUME Inv, NEW d \in Devices, EndDevices(d)
  PROVE  Good(g') /\ ~g'.nerr /\ Keeps(g', g)
<1> DEFINE f == endframe(g)
           t == TurnedOff(f, d)
           e == [t EXCEPT !.asked = @ \ {d}]
<1>1. /\ Core(f) /\ ~f.lbegf /\ ~f.nerr
      /\ f.on = g.asked /\ f.asked = g.asked /\ ~f.lgems
      /\ ~f.gem.lSGFtemp /\ ~f.sav.lSGFtemp /\ f.gem.lframe
      /\ Files(f) /\ Keeps(f, g)
  BY Ended, EndedFiles DEF Inv, Good, Asked, SavedTemp
<1> HIDE DEF f
<1>2. Leaves(e)
  BY <1>1 DEF EndDevices, enddevice, f
<1>3. /\ t \in Graphic /\ (t.lactiv <=> t.on # {})
      /\ t.on = f.on \ {d} /\ t.asked = f.asked /\ ~t.lgems
      /\ ~t.lbegf /\ t.jfun = NoName /\ t.gem = f.gem /\ t.sav = f.sav
      /\ SameFiles(t, f)
  <2>1. CASE d \in f.on
    <3>1. SameFiles(t, f)
      BY <1>1, <2>1 DEF Core, TurnedOff, calstatus, Graphic, SameFiles
    <3> QED BY <1>1, <2>1, <3>1, Off DEF Core
  <2>2. CASE d \notin f.on
    BY <1>1, <2>2 DEF Core, TurnedOff, Graphic, SameFiles
  <2> QED BY <2>1, <2>2
<1> HIDE DEF t
<1>4. /\ e \in Graphic /\ (e.lactiv <=> e.on # {})
      /\ e.on = t.on /\ e.asked = t.asked \ {d} /\ ~e.lgems
      /\ ~e.lbegf /\ e.jfun = NoName /\ e.gem = f.gem /\ e.sav = f.sav
      /\ SameFiles(e, t)
  BY <1>3 DEF Graphic, SameFiles
<1> HIDE DEF e
<1>5. Files(e) /\ Keeps(e, g)
  BY <1>1, <1>3, <1>4 DEF Files, Numbered, Keeps, SameFiles, NoName, Temp
<1>6. Good(e)
  BY <1>1, <1>3, <1>4, <1>5 DEF Good, Core, Asked, SavedTemp, Remain
<1> QED BY <1>2, <1>5, <1>6, LeftGood DEF Keeps

LEMMA BeginFrameGood ==
  ASSUME Inv, NEW print \in BOOLEAN, BeginFrame(print, TRUE)
  PROVE  Good(g') /\ ~g'.nerr /\ Keeps(g', g)
<1> DEFINE b == beginframe(g, print, TRUE)
           e == [b EXCEPT !.gem.lframe = FALSE]
<1>1. /\ Core(b) /\ ~b.nerr /\ b.lbegf /\ Asked(b) /\ ~b.lgems /\ ~b.sav.lSGFtemp
      /\ Files(b) /\ Keeps(b, g)
  <2>1. Core(g) /\ Asked(g) /\ SavedTemp(g) /\ ~g.nerr /\ ~g.lgems /\ Files(g)
    BY DEF Inv, Good
  <2>2. /\ Core(b) /\ ~b.nerr /\ b.lbegf /\ Asked(b)
        /\ b.lgems = g.lgems /\ ~b.sav.lSGFtemp
    BY <2>1, Started
  <2>3. "stale" \notin Cases /\ "reuse" \notin Cases /\ print => Named(g)
    BY DEF BeginFrame, Printable, Named
  <2>4. Files(b) /\ Keeps(b, g)
    BY <2>1, <2>3, StartedFiles
  <2> QED BY <2>1, <2>2, <2>4
<1> HIDE DEF b
<1>2. /\ Core(e) /\ SameDevices(e, b) /\ e.lbegf /\ e.sav = b.sav
      /\ e.gem.lSGFtemp = b.gem.lSGFtemp /\ SameFiles(e, b) /\ Files(e)
  BY <1>1, FramingSet, FramingFiles
<1>3. Leaves(e)
  BY <1>1 DEF BeginFrame, b
<1> HIDE DEF e
<1>4. Good(e) /\ Keeps(e, g)
  BY <1>1, <1>2 DEF Good, Asked, SavedTemp, Remain, SameDevices, Keeps, SameFiles
<1> QED BY <1>3, <1>4, LeftGood DEF Keeps

LEMMA EndFrameGood ==
  ASSUME Inv, NEW print \in BOOLEAN, EndFrame(print)
  PROVE  Good(g') /\ ~g'.nerr /\ Keeps(g', g)
<1> DEFINE p == IF print /\ SGF \in g.lgdon THEN [g EXCEPT !.gem.lprint = TRUE] ELSE g
           f == endframe(p)
           e == [f EXCEPT !.gem.lframe = TRUE]
<1>1. Core(p) /\ Asked(p) /\ SavedTemp(p) /\ ~p.lgems /\ Files(p) /\ Keeps(p, g)
  <2> DEFINE gem == [g.gem EXCEPT !.lprint = TRUE]
             q == [g EXCEPT !.gem = gem]
  <2>1. gem \in Environment /\ gem.lSGFtemp = g.gem.lSGFtemp
    BY DEF Inv, Good, Core, Graphic, Environment
  <2>2. [g EXCEPT !.gem.lprint = TRUE] = q
    BY DEF Inv, Good, Core, Graphic
  <2> HIDE DEF gem
  <2>3. /\ q \in Graphic /\ SameDevices(q, g) /\ q.lbegf = g.lbegf /\ q.sav = g.sav
        /\ q.gem = gem /\ q.jfun = g.jfun /\ q.kfilename = g.kfilename /\ SameFiles(q, g)
    BY <2>1 DEF Inv, Good, Core, Graphic, SameDevices, SameFiles
  <2> HIDE DEF q
  <2>4. Core(q) /\ Asked(q) /\ SavedTemp(q) /\ ~q.lgems
    BY <2>1, <2>3 DEF Inv, Good, Core, Asked, SavedTemp, Remain, SameDevices
  <2>5. Keeps(q, g) /\ Keeps(g, g)
    BY <2>3 DEF Keeps, SameFiles
  <2>6. CASE print /\ SGF \in g.lgdon
    <3>1. "stale" \in Cases \/ (g.lbegf /\ SGF \in g.on)
      BY <2>6 DEF EndFrame
    <3>2. gem.lprint
      BY DEF gem, Inv, Good, Core, Graphic, Environment
    <3>3. Files(q)
      BY <2>3, <3>1, <3>2 DEF Inv, Good, Files, Numbered, SameDevices, SameFiles
    <3> QED BY <2>2, <2>4, <2>5, <2>6, <3>3
  <2>7. CASE ~(print /\ SGF \in g.lgdon)
    BY <2>5, <2>7 DEF Inv, Good
  <2> QED BY <2>6, <2>7
<1> HIDE DEF p
<1>2. /\ Core(f) /\ ~f.lbegf /\ ~f.nerr /\ f.on = Remain(p) /\ f.asked = p.asked
      /\ ~f.lgems /\ ~f.gem.lSGFtemp /\ ~f.sav.lSGFtemp
      /\ Files(f) /\ Keeps(f, p)
  BY <1>1, Ended, EndedFiles DEF SavedTemp
<1>3. Leaves(e)
  BY <1>2 DEF EndFrame, p
<1> HIDE DEF f
<1>4. /\ Core(e) /\ SameDevices(e, f) /\ ~e.lbegf /\ e.sav = f.sav
      /\ ~e.gem.lSGFtemp /\ e.gem.lframe /\ SameFiles(e, f) /\ Files(e)
  BY <1>2, FramingSet, FramingFiles
<1> HIDE DEF e
<1>5. Good(e)
  BY <1>1, <1>2, <1>4 DEF Good, Asked, SavedTemp, Remain, SameDevices
<1>6. Keeps(e, g)
  BY <1>1, <1>2, <1>4 DEF Keeps, SameFiles
<1> QED BY <1>3, <1>5, <1>6, LeftGood DEF Keeps

LEMMA StartPlotGood ==
  ASSUME Inv, NEW print \in BOOLEAN, StartPlot(print, TRUE)
  PROVE  Inv' /\ Keeps(g', g)
<1> DEFINE d == OpenDefault(g, TRUE)
<1>1. /\ Good(d) /\ ~d.nerr /\ d.lbegf = g.lbegf /\ d.gem = g.gem
      /\ Keeps(d, g) /\ (Named(g) => Named(d))
  <2>1. /\ Core(g) /\ Asked(g) /\ SavedTemp(g) /\ ~g.nerr /\ ~g.lgems
        /\ ~g.gem.lframe => g.lbegf
        /\ Files(g)
    BY DEF Inv, Good
  <2>2. /\ Core(d) /\ Asked(d) /\ ~d.nerr
        /\ d.lbegf = g.lbegf /\ d.gem = g.gem /\ d.sav = g.sav /\ d.lgems = g.lgems
    BY <2>1, DefaultOpen
  <2>3. Files(d) /\ Keeps(d, g) /\ (Named(g) => Named(d))
    BY <2>1, DefaultFiles
  <2> HIDE DEF d
  <2> QED BY <2>1, <2>2, <2>3 DEF Good, SavedTemp
<1>2. Leaves(d) /\ xp' = [busy |-> TRUE, lprint |-> Prints(print), lframs |-> g.gem.lframe]
  BY <1>1 DEF StartPlot
<1> HIDE DEF d
<1>3. /\ Good(g') /\ ~g'.nerr /\ g'.lbegf = d.lbegf
      /\ Keeps(g', g) /\ (Named(g) => Named(g'))
  BY <1>1, <1>2, LeftGood DEF Keeps
<1>4. Prints(print) \in BOOLEAN /\ g.gem.lframe \in BOOLEAN
  BY DEF Prints, Inv, Good, Core, Graphic, Environment
<1>5. xp' \in [busy : BOOLEAN, lprint : BOOLEAN, lframs : BOOLEAN]
      /\ xp'.lframs = g.gem.lframe /\ xp'.lprint = Prints(print)
  BY <1>2, <1>4
<1>6. Prints(print) /\ "reuse" \notin Cases => Named(g)
  BY DEF StartPlot, Printable, Named
<1> QED BY <1>1, <1>3, <1>5, <1>6 DEF Inv, Good

LEMMA PlotFileGood ==
  ASSUME Inv, NEW fails \in BOOLEAN, NEW last \in BOOLEAN, PlotFile(TRUE, fails, last)
  PROVE  Inv' /\ Keeps(g', g)
<1> DEFINE b == IF xp.lframs THEN beginframe(g, xp.lprint, TRUE) ELSE g
           p == Unframed(b)
           e == IF xp.lframs THEN endframe(p) ELSE p
           left == IF fails THEN b ELSE e
           ends == fails \/ last
           h == IF ends THEN [left EXCEPT !.gem.lframe = xp.lframs] ELSE left
<1>1. /\ Core(g) /\ Asked(g) /\ SavedTemp(g) /\ ~g.nerr /\ ~g.lgems
      /\ xp \in [busy : BOOLEAN, lprint : BOOLEAN, lframs : BOOLEAN]
      /\ ~xp.lframs => g.lbegf
      /\ Files(g)
      /\ xp.lprint /\ "reuse" \notin Cases => Named(g)
  BY DEF Inv, Good, PlotFile
<1>2. /\ Core(b) /\ Asked(b) /\ SavedTemp(b) /\ ~b.nerr /\ b.lbegf /\ ~b.lgems
      /\ Files(b) /\ Keeps(b, g)
      /\ xp.lprint /\ "reuse" \notin Cases => Named(b)
  <2>1. CASE xp.lframs
    <3>0. xp.lprint \in BOOLEAN
      BY <1>1
    <3> DEFINE c == beginframe(g, xp.lprint, TRUE)
    <3>1. /\ Core(c) /\ Asked(c) /\ ~c.nerr /\ c.lbegf /\ ~c.sav.lSGFtemp
          /\ c.lgems = g.lgems
      BY <1>1, <3>0, Started
    <3>2. /\ Files(c) /\ Keeps(c, g)
          /\ xp.lprint => SGF \in c.on
      BY <1>1, <3>0, StartedFiles
    <3> HIDE DEF c
    <3>3. b = c
      BY <2>1 DEF c
    <3> QED BY <1>1, <3>1, <3>2, <3>3 DEF SavedTemp, Named
  <2>2. CASE ~xp.lframs
    BY <1>1, <2>2 DEF Keeps
  <2> QED BY <2>1, <2>2
<1> HIDE DEF b
<1>3. /\ Core(p) /\ Asked(p) /\ SavedTemp(p) /\ p.lbegf /\ ~p.lgems
      /\ Files(p) /\ Keeps(p, g)
      /\ xp.lprint /\ "reuse" \notin Cases => Named(p)
  <2>1. /\ Core(p) /\ SameDevices(p, b) /\ p.lbegf = b.lbegf /\ p.sav = b.sav
        /\ p.gem.lSGFtemp = b.gem.lSGFtemp
    BY <1>2, FramingSet DEF Unframed
  <2>2. /\ SameFiles(p, b) /\ p.kfilename = b.kfilename
        /\ Files(p)
    BY <1>2, FramingFiles DEF Unframed
  <2> HIDE DEF p
  <2>3. Keeps(p, g) /\ (Named(b) => Named(p))
    BY <1>2, <2>1, <2>2 DEF Keeps, Named, SameFiles, SameDevices
  <2> QED BY <1>2, <2>1, <2>2, <2>3 DEF Asked, SavedTemp, Remain, SameDevices
<1> HIDE DEF p
<1>4. /\ Core(e) /\ Asked(e) /\ SavedTemp(e) /\ ~e.lgems
      /\ xp.lframs => e.gem.lframe
      /\ ~xp.lframs => e.lbegf
      /\ Files(e) /\ Keeps(e, g)
      /\ xp.lprint /\ "reuse" \notin Cases => Named(e)
  <2>1. CASE xp.lframs
    <3> DEFINE f == endframe(p)
    <3>1. /\ Core(f) /\ ~f.lbegf /\ f.on = Remain(p) /\ f.asked = p.asked
          /\ f.lgems = p.lgems /\ ~f.gem.lSGFtemp /\ ~f.sav.lSGFtemp /\ f.gem.lframe
      BY <1>3, Ended DEF SavedTemp
    <3>2. Files(f) /\ Keeps(f, p) /\ (Named(p) => Named(f))
      BY <1>3, EndedFiles
    <3> HIDE DEF f
    <3>3. e = f
      BY <2>1 DEF f
    <3>4. Keeps(f, g)
      BY <1>3, <3>2 DEF Keeps
    <3> QED BY <1>3, <2>1, <3>1, <3>2, <3>3, <3>4 DEF Asked, SavedTemp, Remain
  <2>2. CASE ~xp.lframs
    BY <1>3, <2>2
  <2> QED BY <2>1, <2>2
<1>5. /\ Leaves(h)
      /\ xp' = IF ends THEN Idle ELSE xp
  BY <1>2 DEF PlotFile, p, b
<1> HIDE DEF e
<1>6. /\ Core(left) /\ Asked(left) /\ SavedTemp(left) /\ ~left.lgems
      /\ ~xp.lframs => left.lbegf
      /\ xp.lframs /\ ~fails => left.gem.lframe
      /\ Files(left) /\ Keeps(left, g)
      /\ xp.lprint /\ "reuse" \notin Cases => Named(left)
  BY <1>2, <1>4
<1> HIDE DEF left
<1>7. /\ Good(h) /\ (~xp.lframs => h.lbegf)
      /\ Keeps(h, g) /\ (xp.lprint /\ "reuse" \notin Cases => Named(h))
  <2>1. CASE ~ends
    BY <1>6, <2>1 DEF Good
  <2>2. CASE ends
    <3> DEFINE k == [left EXCEPT !.gem.lframe = xp.lframs]
    <3>0. xp.lframs \in BOOLEAN
      BY <1>1
    <3>1. /\ Core(k) /\ SameDevices(k, left) /\ k.lbegf = left.lbegf
          /\ k.sav = left.sav /\ k.gem.lSGFtemp = left.gem.lSGFtemp
          /\ k.gem.lframe = xp.lframs
      BY <1>6, <3>0, FramingSet
    <3>2. SameFiles(k, left) /\ k.kfilename = left.kfilename /\ Files(k)
      BY <1>6, <3>0, FramingFiles
    <3> HIDE DEF k
    <3>3. h = k
      BY <2>2 DEF k
    <3>4. Keeps(k, g) /\ (Named(left) => Named(k))
      BY <1>6, <3>1, <3>2 DEF Keeps, Named, SameFiles, SameDevices
    <3> QED BY <1>6, <3>1, <3>2, <3>3, <3>4
            DEF Good, Asked, SavedTemp, Remain, SameDevices
  <2> QED BY <2>1, <2>2
<1> HIDE DEF h, ends
<1>8. /\ Good(g') /\ ~g'.nerr /\ g'.lbegf = h.lbegf
      /\ Keeps(g', g) /\ (Named(h) => Named(g'))
  BY <1>5, <1>7, LeftGood DEF Keeps
<1>9. /\ xp' \in [busy : BOOLEAN, lprint : BOOLEAN, lframs : BOOLEAN]
      /\ xp'.busy => xp'.lframs = xp.lframs /\ xp'.lprint = xp.lprint
  BY <1>1, <1>5 DEF Idle
<1> QED BY <1>7, <1>8, <1>9 DEF Inv

\* The environment is saved, and restored.
LEMMA Saved ==
  ASSUME NEW h, Core(h)
  PROVE  LET s == plsave(h) IN
         /\ Core(s) /\ SavedTemp(s) /\ s.lgems /\ s.sav = h.gem /\ s.gem = h.gem
         /\ s.lbegf = h.lbegf /\ s.nerr = h.nerr
         /\ s.on = h.on /\ s.asked = h.asked /\ s.lgdon = h.lgdon
<1> DEFINE s == [h EXCEPT !.sav = h.gem, !.lgems = TRUE]
<1>1. plsave(h) = s
  BY DEF plsave
<1>2. /\ s \in Graphic /\ s.lgems /\ s.sav = h.gem /\ s.gem = h.gem
      /\ s.lbegf = h.lbegf /\ s.nerr = h.nerr /\ s.lactiv = h.lactiv
      /\ s.on = h.on /\ s.asked = h.asked /\ s.lgdon = h.lgdon
      /\ s.jfun = h.jfun /\ s.kfilename = h.kfilename
  BY DEF Core, Graphic
<1> HIDE DEF s
<1> QED BY <1>1, <1>2 DEF Core, SavedTemp

LEMMA Restored ==
  ASSUME NEW h, Core(h), h.lgems,
         h.sav.lSGFtemp <=> h.gem.lSGFtemp
  PROVE  LET r == plrest(h) IN
         /\ Core(r) /\ SavedTemp(r) /\ ~r.lgems /\ r.gem = h.sav
         /\ r.lbegf = h.lbegf /\ r.nerr = h.nerr /\ Remain(r) = Remain(h)
         /\ r.on = h.on /\ r.asked = h.asked
<1> DEFINE r == [h EXCEPT !.gem = h.sav, !.lgems = FALSE]
<1>1. plrest(h) = r
  BY DEF plrest
<1>2. /\ r \in Graphic /\ ~r.lgems /\ r.sav = h.sav /\ r.gem = h.sav
      /\ r.lbegf = h.lbegf /\ r.nerr = h.nerr /\ r.lactiv = h.lactiv
      /\ r.on = h.on /\ r.asked = h.asked /\ r.lgdon = h.lgdon
      /\ r.jfun = h.jfun /\ r.kfilename = h.kfilename
  BY DEF Core, Graphic
<1> HIDE DEF r
<1> QED BY <1>1, <1>2 DEF Core, SavedTemp, Remain

LEMMA PlotSavedGood ==
  ASSUME Orderly, Inv, NEW print \in BOOLEAN, NEW fails \in BOOLEAN,
         PlotSaved(print, TRUE, fails)
  PROVE  Good(g') /\ ~g'.nerr /\ Keeps(g', g)
<1> DEFINE d == OpenDefault(g, TRUE)
           s == plsave(d)
           b == IF s.gem.lframe THEN beginframe(s, Prints(print), TRUE) ELSE s
           e == IF ~b.nerr /\ ~fails /\ b.gem.lframe THEN endframe(b) ELSE b
           r == plrest(e)
<1>1. /\ Core(d) /\ Asked(d) /\ ~d.nerr /\ (~d.gem.lframe => d.lbegf)
      /\ Files(d) /\ Keeps(d, g)
      /\ Prints(print) /\ "reuse" \notin Cases => Named(d)
  <2>1. /\ Core(g) /\ Asked(g) /\ ~g.nerr /\ (~g.gem.lframe => g.lbegf) /\ Files(g)
    BY DEF Inv, Good
  <2>2. Prints(print) /\ "reuse" \notin Cases => Named(g)
    BY DEF PlotSaved, Printable, Named
  <2>3. Files(d) /\ Keeps(d, g) /\ (Named(g) => Named(d))
    BY <2>1, DefaultFiles
  <2>4. /\ Core(d) /\ Asked(d) /\ ~d.nerr /\ (~d.gem.lframe => d.lbegf)
    BY <2>1, DefaultOpen
  <2> QED BY <2>2, <2>3, <2>4
<1>2. Leaves(r) /\ (Prints(print) => ~fails)
  BY <1>1 DEF PlotSaved, Orderly
<1> HIDE DEF d
<1>3. /\ Core(s) /\ Asked(s) /\ SavedTemp(s) /\ s.lgems /\ s.sav = s.gem /\ ~s.nerr
      /\ (~s.gem.lframe => s.lbegf)
      /\ Files(s) /\ Keeps(s, g)
      /\ Prints(print) /\ "reuse" \notin Cases => Named(s)
  <2>1. /\ Core(s) /\ SavedTemp(s) /\ s.lgems /\ s.sav = d.gem /\ s.gem = d.gem
        /\ s.lbegf = d.lbegf /\ s.nerr = d.nerr /\ s.on = d.on /\ s.asked = d.asked
    BY <1>1, Saved
  <2>2. Files(s) /\ SameFiles(s, d) /\ (Named(d) => Named(s))
    BY <1>1, SavedFiles
  <2> HIDE DEF s
  <2>3. Keeps(s, g)
    BY <1>1, <2>2 DEF Keeps, SameFiles
  <2> QED BY <1>1, <2>1, <2>2, <2>3 DEF Asked, Remain
<1> HIDE DEF s
<1>4. /\ Core(e) /\ Asked(e) /\ e.lgems
      /\ e.sav.lSGFtemp <=> e.gem.lSGFtemp
      /\ ~e.sav.lframe => e.lbegf
      /\ Files(e) /\ Keeps(e, g)
      /\ "stale" \notin Cases /\ e.sav.lprint => e.gem.lprint
      /\ "stale" \notin Cases /\ "reuse" \notin Cases /\ e.jfun = Temp => e.sav.lprint
  <2>1. CASE ~s.gem.lframe
    <3>1. "stale" \notin Cases /\ "reuse" \notin Cases /\ s.jfun = Temp => s.gem.lprint
      BY <1>3 DEF Files, Numbered
    <3> QED BY <1>3, <2>1, <3>1
  <2>2. CASE s.gem.lframe
    <3> DEFINE c == beginframe(s, Prints(print), TRUE)
               f == endframe(c)
    <3>0. Prints(print) \in BOOLEAN
      BY DEF Prints, Inv, Good, Core, Graphic
    <3>1. /\ Core(c) /\ Asked(c) /\ ~c.nerr /\ c.lbegf /\ ~c.sav.lSGFtemp
          /\ c.lgems = s.lgems /\ (~Prints(print) => ~c.gem.lSGFtemp)
          /\ (c.gem.lframe <=> (s.lbegf \/ s.gem.lframe))
      BY <1>3, <3>0, Started
    <3>2. b = c
      BY <2>2
    <3>6. /\ Files(c) /\ Keeps(c, s) /\ (c.sav.lprint => s.sav.lprint /\ ~s.lbegf)
          /\ "stale" \notin Cases /\ "reuse" \notin Cases /\ ~Prints(print) => c.jfun # Temp
      BY <1>3, <3>0, StartedFiles
    <3>7. "stale" \notin Cases => ~c.sav.lprint
      BY <1>3, <3>6 DEF Files
    <3> HIDE DEF c, b
    <3>3. /\ Core(f) /\ ~f.lbegf /\ f.on = Remain(c) /\ f.asked = c.asked
          /\ f.lgems = c.lgems /\ ~f.gem.lSGFtemp /\ ~f.sav.lSGFtemp /\ f.sav.lframe
      BY <3>1, Ended DEF SavedTemp
    <3>8. Files(f) /\ Keeps(f, c) /\ ~f.sav.lprint
      BY <3>1, <3>6, EndedFiles DEF SavedTemp
    <3> HIDE DEF f
    <3>9. Keeps(c, g) /\ Keeps(f, g)
      BY <1>3, <3>6, <3>8 DEF Keeps
    <3>10. f.jfun # Temp
      BY <3>3 DEF Core, NoName, Temp
    <3>4. CASE fails
      <4>1. e = c
        BY <3>2, <3>4
      <4>2. ~Prints(print)
        BY <1>2, <3>4
      <4> QED BY <1>3, <3>1, <3>6, <3>7, <3>9, <4>1, <4>2
    <3>5. CASE ~fails
      <4>1. e = f
        BY <2>2, <3>1, <3>2, <3>5 DEF f
      <4> QED BY <1>3, <3>1, <3>3, <3>8, <3>9, <3>10, <4>1 DEF Asked, Remain
    <3> QED BY <3>4, <3>5
  <2> QED BY <2>1, <2>2
<1> HIDE DEF e
<1>5. /\ Core(r) /\ SavedTemp(r) /\ ~r.lgems /\ r.gem = e.sav
      /\ r.lbegf = e.lbegf /\ Remain(r) = Remain(e) /\ r.asked = e.asked
  BY <1>4, Restored
<1>6. Files(r) /\ SameFiles(r, e)
  BY <1>4, RestoredFiles
<1> HIDE DEF r
<1>7. Good(r) /\ Keeps(r, g)
  BY <1>4, <1>5, <1>6 DEF Good, Asked, Keeps, SameFiles
<1> QED BY <1>2, <1>7, LeftGood DEF Keeps

LEMMA PlotNothingGood ==
  ASSUME Inv, PlotNothing
  PROVE  Good(g') /\ ~g'.nerr /\ Keeps(g', g)
<1>1. Good(g) /\ plrest(g) = g
  BY DEF Inv, Good, plrest
<1> QED BY <1>1, LeftGood DEF PlotNothing, Keeps

\* endframe where the devices were changed in the middle of the frame, so that
\* SGF has no file: it fails, but the frame ends.
LEMMA EndedWithoutFile ==
  ASSUME NEW h, h \in Graphic, h.on = {SGF}, h.lactiv, h.jfun = NoName,
         ~h.gem.lSGFtemp, ~h.sav.lSGFtemp, OnDisk(h),
         "stale" \notin Cases => ~h.gem.lprint
  PROVE  LET e == endframe(h) IN
         /\ Core(e) /\ ~e.lbegf /\ SameDevices(e, h)
         /\ ~e.gem.lSGFtemp /\ ~e.sav.lSGFtemp
         /\ h.lbegf => e.gem.lframe
         /\ ~h.lbegf => e.gem = h.gem
         /\ Files(e) /\ Keeps(e, h)
<1>1. CASE ~h.lbegf
  <2> DEFINE z == [h EXCEPT !.nerr = FALSE]
  <2>1. endframe(h) = z
    BY <1>1 DEF endframe
  <2>2. /\ z \in Graphic /\ SameDevices(z, h) /\ z.lbegf = h.lbegf
        /\ z.gem = h.gem /\ z.sav = h.sav /\ z.jfun = h.jfun /\ SameFiles(z, h)
    BY DEF Graphic, SameDevices, SameFiles
  <2> HIDE DEF z
  <2>3. Files(z) /\ Keeps(z, h)
    BY <2>2 DEF Files, Numbered, OnDisk, Keeps, SameFiles, NoName, Temp
  <2> QED BY <1>1, <2>1, <2>2, <2>3 DEF Core, SameDevices
<1>2. CASE h.lbegf
  <2> DEFINE z == [h EXCEPT !.nerr = FALSE]
             t == [z EXCEPT !.nerr = TRUE]
             w == Printed(t, NoName)
             f == FlagsReset(w)
  <2>1. /\ z \in Graphic /\ SameDevices(z, h)
        /\ z.gem = h.gem /\ z.sav = h.sav /\ z.jfun = NoName /\ SameFiles(z, h)
    BY DEF Graphic, SameDevices, SameFiles
  <2> HIDE DEF z
  <2>2. /\ t \in Graphic /\ SameDevices(t, h)
        /\ t.gem = h.gem /\ t.sav = h.sav /\ t.jfun = NoName /\ SameFiles(t, h)
    BY <2>1 DEF Graphic, SameDevices, SameFiles
  <2>3. FrameWritten(h) = w
    <3>1. endframe2(z) = t
      BY <2>1 DEF endframe2
    <3> QED BY <3>1 DEF FrameWritten, z
  <2> HIDE DEF t
  <2>4. /\ w \in Graphic /\ SameDevices(w, h)
        /\ w.gem = h.gem /\ w.sav = h.sav /\ w.jfun = NoName
    BY <2>2 DEF Printed, Graphic, SameDevices
  <2>8. "stale" \notin Cases => SameFiles(w, h)
    BY <2>2 DEF Printed, SameFiles
  <2> HIDE DEF w
  <2>5. /\ f \in Graphic /\ SameDevices(f, h) /\ ~f.lbegf /\ f.gem.lframe
        /\ ~f.gem.lSGFtemp /\ ~f.sav.lSGFtemp /\ f.jfun = NoName
        /\ SameFiles(f, w) /\ ~f.gem.lprint
    BY <2>4, Reset, ResetFiles DEF SameDevices
  <2>6. FrameEnded(h) = f
    BY <2>3 DEF FrameEnded
  <2> HIDE DEF f
  <2>7. endframe(h) = f
    BY <1>2, <2>5, <2>6 DEF endframe
  <2>9. Files(f) /\ Keeps(f, h)
    BY <2>5, <2>8 DEF Files, Numbered, OnDisk, Keeps, SameFiles, NoName, Temp
  <2> QED BY <1>2, <2>5, <2>7, <2>9 DEF Core, SameDevices
<1> QED BY <1>1, <1>2

\* cursoron: only the window is on, and with another device off the frame of
\* that device has ended.
LEMMA CursorOn ==
  ASSUME NEW h, Core(h), SavedTemp(h), ~h.nerr, h.on # {}, h.on # Devices, Files(h),
         h.sav.lprint = h.gem.lprint
  PROVE  LET c == cursoron(h, TRUE) IN
         /\ Core(c) /\ SavedTemp(c) /\ ~c.nerr /\ c.on = {X}
         /\ c.asked = h.asked /\ c.lgems = h.lgems
         /\ h.lbegf \/ h.sav.lframe => c.lbegf \/ c.sav.lframe
         /\ Files(c) /\ Keeps(c, h)
         /\ "stale" \notin Cases => ~c.sav.lprint
<1>1. CASE SGF \notin h.on
  <2>1. h.on = {X}
    BY <1>1 DEF Core, Graphic
  <2>2. cursoron(h, TRUE) = h
    BY <2>1 DEF cursoron
  <2>3. "stale" \notin Cases => ~h.sav.lprint
    BY <1>1 DEF Files
  <2> QED BY <2>1, <2>2, <2>3 DEF Keeps
<1>2. CASE SGF \in h.on
  <2> DEFINE f == endframe(h)
             t == TurnedOff(f, SGF)
             c == begindevices(t, <<X>>, TRUE)
  <2>1. h.on = {SGF} /\ ~h.gem.lSGFtemp /\ Remain(h) = {SGF}
    BY <1>2 DEF Core, Graphic, Remain
  <2>2. /\ Core(f) /\ ~f.lbegf /\ ~f.nerr /\ f.on = {SGF}
        /\ f.asked = h.asked /\ f.lgems = h.lgems
        /\ ~f.gem.lSGFtemp /\ ~f.sav.lSGFtemp
        /\ (h.lbegf => f.sav.lframe) /\ (~h.lbegf => f.sav = h.sav)
    BY <2>1, Ended DEF SavedTemp
  <2>8. /\ Files(f) /\ Keeps(f, h) /\ ("stale" \notin Cases => ~f.gem.lprint)
        /\ "stale" \notin Cases => ~f.sav.lprint
    <3>1. /\ Files(f) /\ Keeps(f, h) /\ ("stale" \notin Cases => ~f.gem.lprint)
          /\ f.sav.lprint => h.sav.lprint /\ ~h.lbegf
      BY EndedFiles
    <3>2. "stale" \notin Cases /\ h.gem.lprint => h.lbegf
      BY DEF Files
    <3> QED BY <3>1, <3>2
  <2>3. enddevice(h, SGF) = t
    BY <2>2 DEF enddevice
  <2> HIDE DEF f
  <2>4. /\ t \in Graphic /\ t.on = {} /\ ~t.nerr /\ ~t.lbegf /\ t.jfun = NoName
        /\ t.gem = f.gem /\ t.sav = f.sav /\ t.asked = f.asked /\ t.lgems = f.lgems
    BY <2>2, Off DEF Core
  <2>9. SameFiles(t, f)
    BY <2>2 DEF Core, TurnedOff, calstatus, Graphic, SameFiles
  <2>5. cursoron(h, TRUE) = c
    BY <1>2, <2>3, <2>4 DEF cursoron
  <2> HIDE DEF t
  <2>6. <<X>> \in Seq(Devices) /\ {<<X>>[i] : i \in DOMAIN <<X>>} = {X}
    OBVIOUS
  <2>7. /\ c \in Graphic /\ SameFrame(c, t) /\ c.asked = t.asked
        /\ c.on = {X} /\ c.lactiv /\ ~c.nerr /\ SameFiles(c, t)
    BY <2>4, <2>6, DevicesBegun, DevicesBegunFiles
  <2> HIDE DEF c
  <2>10. Files(c) /\ Keeps(c, h)
    BY <2>4, <2>7, <2>8, <2>9
       DEF Files, Numbered, Keeps, SameFiles, SameFrame, NoName, Temp
  <2> QED BY <2>2, <2>4, <2>5, <2>7, <2>8, <2>10 DEF Core, SavedTemp, SameFrame
<1> QED BY <1>1, <1>2

LEMMA PlotPickGood ==
  ASSUME Orderly, Inv, NEW outcome \in {"picked", "failed", "limits"},
         PlotPick(TRUE, outcome)
  PROVE  Good(g') /\ ~g'.nerr /\ Keeps(g', g)
<1> DEFINE d == OpenDefault(g, TRUE)
           s == plsave(d)
           c == Unframed(cursoron(s, TRUE))
           b == beginframe(c, FALSE, TRUE)
           e == IF outcome = "picked" THEN endframe(b) ELSE b
           r == plrest(e)
           o == cursoroff(r, SGF \in d.on, X \notin d.on, TRUE)
<1>1. /\ Core(d) /\ Asked(d) /\ ~d.nerr /\ (~d.gem.lframe => d.lbegf) /\ d.on # {}
      /\ Files(d) /\ Keeps(d, g)
  <2>1. /\ Core(g) /\ Asked(g) /\ ~g.nerr /\ (~g.gem.lframe => g.lbegf) /\ Files(g)
    BY DEF Inv, Good
  <2>2. Files(d) /\ Keeps(d, g)
    BY <2>1, DefaultFiles
  <2> QED BY <2>1, <2>2, DefaultOpen
<1>2. d.on # Devices /\ outcome # "limits"
  BY DEF PlotPick, Orderly
<1>3. Leaves(IF b.nerr THEN b ELSE o)
  BY <1>1, <1>2 DEF PlotPick
<1> HIDE DEF d
<1>4. ~d.gem.lSGFtemp /\ d.asked = d.on
  BY <1>1, <1>2 DEF Core, Asked, Remain
<1>5. /\ Core(s) /\ SavedTemp(s) /\ s.lgems /\ ~s.nerr
      /\ (s.lbegf \/ s.sav.lframe) /\ s.on = d.on /\ s.asked = d.on
      /\ Files(s) /\ Keeps(s, g) /\ s.sav.lprint = s.gem.lprint
  <2>1. /\ Core(s) /\ SavedTemp(s) /\ s.lgems /\ ~s.nerr
        /\ (s.lbegf \/ s.sav.lframe) /\ s.on = d.on /\ s.asked = d.on
    BY <1>1, <1>4, Saved
  <2>2. Files(s) /\ SameFiles(s, d) /\ s.sav.lprint = s.gem.lprint
    BY <1>1, SavedFiles
  <2>3. Keeps(s, g)
    BY <1>1, <2>2 DEF Keeps, SameFiles
  <2> QED BY <2>1, <2>2, <2>3
<1> HIDE DEF s
<1>6. /\ Core(c) /\ SavedTemp(c) /\ ~c.nerr /\ c.on = {X} /\ c.asked = d.on /\ c.lgems
      /\ c.lbegf \/ c.sav.lframe
      /\ Files(c) /\ Keeps(c, g) /\ ("stale" \notin Cases => ~c.sav.lprint)
  <2> DEFINE k == cursoron(s, TRUE)
  <2>1. /\ Core(k) /\ SavedTemp(k) /\ ~k.nerr /\ k.on = {X} /\ k.asked = d.on /\ k.lgems
        /\ k.lbegf \/ k.sav.lframe
        /\ Files(k) /\ Keeps(k, s) /\ ("stale" \notin Cases => ~k.sav.lprint)
    BY <1>1, <1>2, <1>5, CursorOn
  <2> HIDE DEF k
  <2>2. /\ Core(c) /\ SameDevices(c, k) /\ c.lbegf = k.lbegf /\ c.sav = k.sav
        /\ c.gem.lSGFtemp = k.gem.lSGFtemp /\ c.nerr = k.nerr
    BY <2>1, FramingSet DEF Unframed, k
  <2>3. Files(c) /\ SameFiles(c, k)
    BY <2>1, FramingFiles DEF Unframed, k
  <2> HIDE DEF c
  <2>4. Keeps(c, g)
    BY <1>5, <2>1, <2>3 DEF Keeps, SameFiles
  <2> QED BY <2>1, <2>2, <2>3, <2>4 DEF SavedTemp, SameDevices
<1> HIDE DEF c
<1>7. /\ Core(b) /\ ~b.nerr /\ b.lbegf /\ Remain(b) = {X} /\ b.asked = d.on
      /\ b.lgems /\ ~b.sav.lSGFtemp /\ ~b.gem.lSGFtemp /\ b.sav.lframe
      /\ Files(b) /\ Keeps(b, g) /\ ("stale" \notin Cases => ~b.sav.lprint)
      /\ b.jfun = NoName
  <2>1. ~c.gem.lSGFtemp
    BY <1>6 DEF Core
  <2>2. FALSE \in BOOLEAN
    OBVIOUS
  <2>3. /\ Core(b) /\ ~b.nerr /\ b.lbegf /\ b.lgems = c.lgems
        /\ ~b.sav.lSGFtemp /\ ~b.gem.lSGFtemp
        /\ Remain(b) = Remain(c) /\ b.asked = c.asked
        /\ (b.sav.lframe <=> (c.lbegf \/ c.sav.lframe))
    BY <1>6, <2>2, Started
  <2>4. Files(b) /\ Keeps(b, c) /\ (b.sav.lprint => c.sav.lprint)
    BY <1>6, <2>2, StartedFiles
  <2> HIDE DEF b
  <2>5. Keeps(b, g)
    BY <1>6, <2>4 DEF Keeps
  <2>6. Remain(b) = {X} /\ b.on = {X}
    BY <1>6, <2>1, <2>3 DEF Remain
  <2>7. b.jfun = NoName
    BY <2>3, <2>6 DEF Core
  <2> QED BY <1>6, <2>1, <2>3, <2>4, <2>5, <2>6, <2>7
<1>8. Leaves(o)
  BY <1>3, <1>7
<1> HIDE DEF b
<1>9. /\ Core(e) /\ e.on = {X} /\ e.asked = d.on /\ e.lgems
      /\ ~e.sav.lSGFtemp /\ ~e.gem.lSGFtemp /\ e.sav.lframe
      /\ Files(e) /\ Keeps(e, g) /\ ("stale" \notin Cases => ~e.sav.lprint)
      /\ e.jfun = NoName
  <2>1. CASE outcome = "picked"
    <3> DEFINE f == endframe(b)
    <3>1. /\ Core(f) /\ f.on = Remain(b) /\ f.asked = b.asked /\ f.lgems = b.lgems
          /\ ~f.gem.lSGFtemp /\ ~f.sav.lSGFtemp /\ f.sav.lframe
      BY <1>7, Ended DEF SavedTemp
    <3>2. Files(f) /\ Keeps(f, b) /\ (f.sav.lprint => b.sav.lprint)
      BY <1>7, EndedFiles DEF SavedTemp
    <3> HIDE DEF f
    <3>3. e = f
      BY <2>1 DEF f
    <3>4. Keeps(f, g)
      BY <1>7, <3>2 DEF Keeps
    <3>5. f.on = {X} /\ f.jfun = NoName
      BY <1>7, <3>1 DEF Core
    <3> QED BY <1>7, <3>1, <3>2, <3>3, <3>4, <3>5
  <2>2. CASE outcome # "picked"
    BY <1>7, <2>2 DEF Remain
  <2> QED BY <2>1, <2>2
<1> HIDE DEF e
<1>10. /\ Core(r) /\ SavedTemp(r) /\ ~r.lgems /\ r.gem = e.sav
       /\ r.on = {X} /\ r.asked = d.on
       /\ Files(r) /\ Keeps(r, g)
  <2>1. /\ Core(r) /\ SavedTemp(r) /\ ~r.lgems /\ r.gem = e.sav
        /\ r.on = {X} /\ r.asked = d.on
    BY <1>9, Restored
  <2>2. e.jfun # Temp
    BY <1>9 DEF NoName, Temp
  <2>3. Files(r) /\ SameFiles(r, e)
    BY <1>9, <2>2, RestoredFiles
  <2>4. Keeps(r, g)
    BY <1>9, <2>3 DEF Keeps, SameFiles
  <2> QED BY <2>1, <2>3, <2>4
<1> HIDE DEF r
<1>11. CASE SGF \notin d.on
  <2>1. d.on = {X} /\ o = r
    BY <1>1, <1>11 DEF Core, Graphic, cursoroff
  <2>2. Good(r)
    BY <1>9, <1>10, <2>1 DEF Good, Asked, Remain
  <2> QED BY <1>8, <1>10, <2>1, <2>2, LeftGood DEF Keeps
<1>12. CASE SGF \in d.on
  <2> DEFINE w == begindevices(r, <<SGF>>, TRUE)
             f == endframe(w)
             t == TurnedOff(f, X)
  <2>1. d.on = {SGF}
    BY <1>1, <1>2, <1>12 DEF Core, Graphic
  <2>2. o = enddevice(w, X)
    BY <2>1 DEF cursoroff
  <2>3. <<SGF>> \in Seq(Devices) /\ {<<SGF>>[i] : i \in DOMAIN <<SGF>>} = {SGF}
    OBVIOUS
  <2>4. /\ w \in Graphic /\ SameFrame(w, r) /\ w.asked = r.asked
        /\ w.on = {SGF} /\ w.lactiv /\ SameFiles(w, r)
    BY <1>10, <2>3, DevicesBegun, DevicesBegunFiles DEF Core
  <2> HIDE DEF w
  <2>5. /\ w.jfun = NoName /\ ~w.gem.lSGFtemp /\ ~w.sav.lSGFtemp /\ w.gem.lframe
        /\ ~w.lgems /\ w.asked = {SGF}
    BY <1>9, <1>10, <2>1, <2>4 DEF Core, SavedTemp, SameFrame
  <2>10. /\ OnDisk(w) /\ Keeps(w, g)
         /\ "stale" \notin Cases => ~w.gem.lprint
    BY <1>9, <1>10, <2>4 DEF Files, Numbered, OnDisk, Keeps, SameFrame, SameFiles
  <2>6. /\ Core(f) /\ ~f.lbegf /\ SameDevices(f, w)
        /\ ~f.gem.lSGFtemp /\ ~f.sav.lSGFtemp /\ f.gem.lframe
        /\ Files(f) /\ Keeps(f, w)
    BY <2>4, <2>5, <2>10, EndedWithoutFile
  <2> HIDE DEF f
  <2>7. /\ t \in Graphic /\ SameDevices(t, f) /\ SameFrame(t, f) /\ SameFiles(t, f)
    <3> DEFINE q == [f EXCEPT !.nerr = TRUE]
    <3>1. X \notin f.on /\ f \in Graphic
      BY <2>4, <2>6 DEF Core, SameDevices
    <3>2. t = q
      BY <3>1 DEF TurnedOff
    <3>3. /\ q \in Graphic /\ SameDevices(q, f) /\ SameFrame(q, f) /\ SameFiles(q, f)
      BY <3>1 DEF Graphic, SameDevices, SameFrame, SameFiles
    <3> QED BY <3>2, <3>3
  <2> HIDE DEF t
  <2>8. Good(f) /\ Good(t) /\ f \in Graphic /\ Keeps(f, g) /\ Keeps(t, g)
    <3>1. Files(t) /\ Keeps(t, g) /\ Keeps(f, g)
      BY <2>6, <2>7, <2>10 DEF Files, Numbered, Keeps, SameFiles, SameFrame, SameDevices
    <3> QED BY <2>4, <2>5, <2>6, <2>7, <3>1
            DEF Good, Core, Asked, SavedTemp, Remain, SameDevices, SameFrame
  <2>9. o = f \/ o = t
    BY <2>2 DEF enddevice, f, t
  <2>11. CASE o = f
    BY <1>8, <2>8, <2>11, LeftGood DEF Keeps
  <2>12. CASE o = t
    BY <1>8, <2>8, <2>12, LeftGood DEF Keeps
  <2> QED BY <2>9, <2>11, <2>12
<1> QED BY <1>11, <1>12

LEMMA CommandGood ==
  ASSUME Orderly, Inv, Command
  PROVE  Good(g') /\ ~g'.nerr /\ Keeps(g', g)
<1> USE Windows
<1>1. ASSUME NEW names \in DeviceLists, BeginDevices(names, TRUE) PROVE Good(g') /\ ~g'.nerr /\ Keeps(g', g)
  BY <1>1, BeginDevicesGood
<1>2. ASSUME NEW d \in Devices, EndDevices(d) PROVE Good(g') /\ ~g'.nerr /\ Keeps(g', g)
  BY <1>2, EndDevicesGood
<1>3. ASSUME NEW print \in BOOLEAN, BeginFrame(print, TRUE) PROVE Good(g') /\ ~g'.nerr /\ Keeps(g', g)
  BY <1>3, BeginFrameGood
<1>4. ASSUME NEW print \in BOOLEAN, EndFrame(print) PROVE Good(g') /\ ~g'.nerr /\ Keeps(g', g)
  BY <1>4, EndFrameGood
<1>5. ASSUME NEW print \in BOOLEAN, NEW fails \in BOOLEAN, PlotSaved(print, TRUE, fails)
      PROVE  Good(g') /\ ~g'.nerr /\ Keeps(g', g)
  BY <1>5, PlotSavedGood
<1>6. ASSUME NEW outcome \in {"picked", "failed", "limits"}, PlotPick(TRUE, outcome)
      PROVE  Good(g') /\ ~g'.nerr /\ Keeps(g', g)
  BY <1>6, PlotPickGood
<1> QED BY <1>1, <1>2, <1>3, <1>4, <1>5, <1>6, PlotNothingGood DEF Command

LEMMA InvNext ==
  ASSUME Orderly, Inv, [Next]_vars
  PROVE  Inv' /\ Keeps(g', g)
<1> USE Windows
<1>1. CASE ~xp.busy /\ Command /\ UNCHANGED xp
  BY <1>1, CommandGood DEF Inv
<1>2. ASSUME NEW print \in BOOLEAN, StartPlot(print, TRUE) PROVE Inv' /\ Keeps(g', g)
  BY <1>2, StartPlotGood
<1>3. ASSUME NEW fails \in BOOLEAN, NEW last \in BOOLEAN, PlotFile(TRUE, fails, last)
      PROVE  Inv' /\ Keeps(g', g)
  BY <1>3, PlotFileGood
<1>4. CASE UNCHANGED vars
  BY <1>4 DEF vars, Inv, Keeps
<1> QED BY <1>1, <1>2, <1>3, <1>4 DEF Next

LEMMA InvInit == Init => Inv
<1> SUFFICES ASSUME Init PROVE Inv
  OBVIOUS
<1>1. NewEnvironment \in Environment /\ NewEnvironment.lframe /\ ~NewEnvironment.lSGFtemp
  BY DEF NewEnvironment, Environment
<1>2. /\ g \in Graphic /\ g.on = {} /\ ~g.lactiv /\ ~g.lbegf /\ g.asked = {}
      /\ g.gem = NewEnvironment /\ g.sav = NewEnvironment /\ ~g.lgems /\ ~g.nerr
      /\ g.jfun = NoName /\ g.nfnum = 1 /\ g.disk = {} /\ ~g.misprint
  BY <1>1 DEF Init, GraphicInit, Graphic, Names, NoName
<1>3. Files(g)
  BY <1>2 DEF Files, Numbered, NewEnvironment, NoName, Temp
<1> QED BY <1>1, <1>2, <1>3 DEF Init, Idle, Inv, Good, Core, Asked, SavedTemp, Remain

LEMMA AlwaysInv ==
  ASSUME Orderly
  PROVE  Spec => []Inv
BY InvInit, InvNext, PTL DEF Spec

-----------------------------------------------------------------------------
(* For every default device, all lists of devices and any number of files, *)
(* when the window opens, no device is begun in a frame, no plot with      *)
(* PRINT fails after it has saved its environment, PLOTPK has one device   *)
(* on and leaves by way of cursoroff:                                      *)

(* types are kept, and no error is left behind for the next command;       *)
THEOREM TypesKept ==
  ASSUME Orderly
  PROVE  Spec => []TypeOK
<1>1. Inv => TypeOK
  BY DEF Inv, Good, Core, TypeOK, GraphicTypeOK
<1> QED BY <1>1, AlwaysInv, PTL

(* a frame on the SGF device has a file, and no file is open without a     *)
(* frame (gd2/beginframe2.c, gd2/endframe2.c);                             *)
THEOREM FilesWithFrames ==
  ASSUME Orderly
  PROVE  Spec => []FramesHaveFiles
<1>1. Inv => FramesHaveFiles
  BY DEF Inv, Good, Core, FramesHaveFiles
<1> QED BY <1>1, AlwaysInv, PTL

(* where plots do not begin frames of their own there is one, however the  *)
(* plots before ended (gem/xbeginframe.c, pl/plrest.c);                    *)
THEOREM FramingAlwaysResumes ==
  ASSUME Orderly
  PROVE  Spec => []FramingResumes
<1>1. Inv => FramingResumes
  BY DEF Inv, Good, FramingResumes
<1> QED BY <1>1, AlwaysInv, PTL

(* the devices that are on are those asked for, and SGF while a frame that *)
(* is to be printed is open (gd2/endSGFtemp.c, gdm/cursoroff.c).           *)
THEOREM DevicesStayAsAsked ==
  ASSUME Orderly
  PROVE  Spec => []DevicesAsAsked
<1>1. Inv => DevicesAsAsked
  BY DEF Inv, Good, Asked, Remain, DevicesAsAsked
<1> QED BY <1>1, AlwaysInv, PTL

(* Where PRINT is not given to ENDFRAME without a frame on the SGF device, *)
(* nor with the device off, what is printed and then removed is the file   *)
(* of the frame that is ended: the name in common between the devices has  *)
(* not become that of another file since (gdm/endframe.c).                 *)
THEOREM PrintsOwnFrame ==
  ASSUME Orderly, "stale" \notin Cases
  PROVE  Spec => []PrintsItsFrame
<1>1. Inv => PrintsItsFrame
  BY DEF Inv, Good, Files, PrintsItsFrame
<1> QED BY <1>1, AlwaysInv, PTL

(* Where moreover PRINT without the SGF device follows no frame on file,   *)
(* no step takes a complete frame away: the numbers of new files have not  *)
(* been given to any, and what is removed was never counted                *)
(* (gd2/beginframe2.c, gd2/endframe2.c, gd2/endSGFtemp.c).                 *)
THEOREM FramesOnFileStay ==
  ASSUME Cases = {}
  PROVE  Spec => FramesStay
<1>0. Orderly
  BY DEF Orderly
<1>1. Inv /\ [Next]_vars => [g.disk \subseteq g'.disk]_vars
  BY <1>0, InvNext DEF Keeps
<1>2. Spec => []Inv
  BY <1>0, AlwaysInv
<1> QED BY <1>1, <1>2, PTL DEF Spec, FramesStay
=============================================================================
