--------------------------- MODULE FramesMeaning ----------------------------
(***************************************************************************)
(* What frames and devices are for: a plot goes to the devices that the    *)
(* user asked for, into a frame of its own unless the user began one, and  *)
(* a frame on file stays there.                                            *)
(***************************************************************************)
EXTENDS Plots

(* Between commands a file is open on the SGF device exactly while there   *)
(* is a frame and the device is on: no file is left unfinished, and the    *)
(* next plot in the frame has one (gd2/beginframe2.c, gd2/endframe2.c).    *)
FramesHaveFiles == g.jfun # NoName <=> g.lbegf /\ SGF \in g.on

(* Framing is off only while a frame is open: however plots fail, a plot   *)
(* made without one begins one (gem/xbeginframe.c, pl/plrest.c).           *)
FramingResumes == ~g.gem.lframe => g.lbegf

(* The devices that are on are those the user turned on, and for a frame   *)
(* that is to be printed the SGF device: whatever a command turns on or    *)
(* off for its own use it turns back (gd2/endSGFtemp.c, gdm/cursoroff.c).  *)
DevicesAsAsked ==
  g.on \ (IF g.gem.lSGFtemp THEN {SGF} ELSE {}) = g.asked

(* A file that is printed, and then removed, is that of the frame that is  *)
(* ended (gdm/endframe.c).                                                 *)
PrintsItsFrame == ~g.misprint

(* A frame that is complete on file stays there, whatever is plotted and   *)
(* printed later: frame numbers are not used twice (gd2/endframe2.c).      *)
FramesStay == [][g.disk \subseteq g'.disk]_vars
=============================================================================
