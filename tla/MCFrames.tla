------------------------------ MODULE MCFrames ------------------------------
(***************************************************************************)
(* Instances of Plots for TLC.                                             *)
(***************************************************************************)
EXTENDS FramesMeaning

EachDevice == {<<SGF>>, <<X>>, <<SGF, X>>}
=============================================================================
