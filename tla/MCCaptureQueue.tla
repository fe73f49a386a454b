--------------------------- MODULE MCCaptureQueue ---------------------------
(***************************************************************************)
(* Instances of CaptureQueue for TLC.  A ring of four slots with two laps  *)
(* per word: with nine pushes a cursor passes its wrap, the ring overflows *)
(* on either side of it, and drains of up to two messages interleave with  *)
(* both.                                                                   *)
(***************************************************************************)
EXTENDS CaptureQueue
=============================================================================
