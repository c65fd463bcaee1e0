------------------------------- MODULE Plots --------------------------------
(***************************************************************************)
(* A session of graphics commands: those that turn devices on and off and  *)
(* begin and end frames, and three ways of plotting - PLOT, which keeps    *)
(* one flag of the environment itself; PLOT2, which saves and restores all *)
(* of it; and PLOTPK, which also changes the devices.                      *)
(***************************************************************************)
EXTENDS Graphics

VARIABLE xp       \* what PLOT remembers between two files

Idle     == [busy |-> FALSE, lprint |-> FALSE, lframs |-> FALSE]
TypeOK == /\ GraphicTypeOK
          /\ xp \in [busy : BOOLEAN, lprint : BOOLEAN, lframs : BOOLEAN]

\* Mutant: the error is there still when the next command starts.
LeavesError(h) == /\ h.nfnum <= MaxFrames
                  /\ g' = h

\* A command leaves h; its error goes to the caller.
Leaves(h) == /\ h.nfnum <= MaxFrames
             /\ g' = [h EXCEPT !.nerr = FALSE]

Unframed(h) == [h EXCEPT !.gem.lframe = FALSE]

\* BEGINDEVICES.
BeginDevices(names, opens) ==
  /\ g.lbegf => "within" \in Cases
  /\ Leaves([begindevices(g, names, opens)
               EXCEPT !.asked = {names[i] : i \in DOMAIN names}])

\* ENDDEVICES.
EndDevices(d) == Leaves([enddevice(g, d) EXCEPT !.asked = @ \ {d}])

\* A name that PRINT may take: none, or that of a temporary file.
Printable(print) ==
  print => \/ "reuse" \in Cases
           \/ SGF \in g.on
           \/ g.kfilename \in {NoName, Temp}

\* BEGINFRAME, with PRINT or without.
BeginFrame(print, opens) ==
  LET b == beginframe(g, print, opens)
  IN /\ Printable(print)
     /\ Leaves(IF b.nerr THEN b ELSE [b EXCEPT !.gem.lframe = FALSE])

\* ENDFRAME: lgdon, which ENDDEVICES does not clear, says whether SGF is on.
EndFrame(print) ==
  LET p == IF print /\ SGF \in g.lgdon THEN [g EXCEPT !.gem.lprint = TRUE] ELSE g
      e == endframe(p)
  IN /\ print => "stale" \in Cases \/ (g.lbegf /\ SGF \in g.on) \/ SGF \notin g.lgdon
     /\ Leaves(IF e.nerr THEN e ELSE [e EXCEPT !.gem.lframe = TRUE])

\* With a frame open PRINT is only warned about.
Prints(print) == print /\ ~g.lbegf

-----------------------------------------------------------------------------
(* PLOT: a frame for each file, unless framing is off.  What it needs to   *)
(* know from file to file is in xp; the frame of a file that cannot be     *)
(* plotted is left open.                                                   *)

StartPlot(print, opens) ==
  LET d == OpenDefault(g, opens)
  IN /\ Printable(Prints(print))
     /\ Leaves(d)
     /\ xp' = IF d.nerr THEN Idle
              ELSE [busy |-> TRUE, lprint |-> Prints(print), lframs |-> g.gem.lframe]

PlotFile(opens, fails, last) ==
  LET b == IF xp.lframs THEN beginframe(g, xp.lprint, opens) ELSE g
      p == Unframed(b)
      e == IF xp.lframs THEN endframe(p) ELSE p
      ends == b.nerr \/ fails \/ last
      left == IF b.nerr \/ fails THEN b ELSE e
  IN /\ xp.busy
     /\ Leaves(IF ends THEN [left EXCEPT !.gem.lframe = xp.lframs] ELSE left)
     /\ xp' = IF ends THEN Idle ELSE xp

-----------------------------------------------------------------------------
(* PLOT2, as other plots do: the environment is saved before the frame is  *)
(* begun, and restored however the plot ends.  Without files there is an   *)
(* error before it is saved.                                               *)

PlotSaved(print, opens, fails) ==
  LET d == OpenDefault(g, opens)
      s == plsave(d)
      b == IF s.gem.lframe THEN beginframe(s, Prints(print), opens) ELSE s
      e == IF ~b.nerr /\ ~fails /\ b.gem.lframe THEN endframe(b) ELSE b
  IN /\ Printable(Prints(print))
     /\ Prints(print) /\ fails => "print" \in Cases
     /\ Leaves(plrest(IF d.nerr THEN d ELSE e))

PlotNothing == Leaves(plrest(g))

-----------------------------------------------------------------------------
(* PLOTPK.  cursoron turns SGF off and the window on, cursoroff reverses   *)
(* it with begindevice, which turns every other device off.                *)

cursoron(h, opens) ==
  LET e == IF SGF \in h.on THEN enddevice(h, SGF) ELSE h
  IN IF X \in e.on THEN e ELSE begindevices(e, <<X>>, opens)

\* The flags that cursoron left: SGF was on, the window was off.
cursoroff(h, sgfwason, xwasoff, opens) ==
  LET s == IF sgfwason THEN begindevices(h, <<SGF>>, opens) ELSE h
  IN IF xwasoff THEN enddevice(s, X) ELSE s

PlotPick(opens, outcome) ==
  LET d == OpenDefault(g, opens)
      c == Unframed(cursoron(plsave(d), opens))
      b == beginframe(c, FALSE, opens)
      e == IF outcome = "picked" THEN endframe(b) ELSE b
  IN /\ d.on = Devices => "both" \in Cases
     /\ outcome = "limits" => "limits" \in Cases
     /\ Leaves(IF d.nerr THEN d
               ELSE IF outcome = "limits" THEN c
               ELSE IF b.nerr THEN b
               ELSE cursoroff(plrest(e), SGF \in d.on, X \notin d.on, opens))

-----------------------------------------------------------------------------
Command ==
  \/ \E names \in DeviceLists, opens \in Opens : BeginDevices(names, opens)
  \/ \E d \in Devices : EndDevices(d)
  \/ \E print \in BOOLEAN, opens \in Opens : BeginFrame(print, opens)
  \/ \E print \in BOOLEAN : EndFrame(print)
  \/ \E print, fails \in BOOLEAN, opens \in Opens : PlotSaved(print, opens, fails)
  \/ PlotNothing
  \/ \E opens \in Opens, outcome \in {"picked", "failed", "limits"} :
       PlotPick(opens, outcome)

Next ==
  \/ ~xp.busy /\ Command /\ UNCHANGED xp
  \/ \E print \in BOOLEAN, opens \in Opens : ~xp.busy /\ StartPlot(print, opens)
  \/ \E fails, last \in BOOLEAN, opens \in Opens : PlotFile(opens, fails, last)

vars == <<g, xp>>

Init == GraphicInit /\ xp = Idle

Spec == Init /\ [][Next]_vars
=============================================================================
