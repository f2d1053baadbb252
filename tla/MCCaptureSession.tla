-------------------------- MODULE MCCaptureSession --------------------------
(***************************************************************************)
(* CaptureSession on two event nodes for TLC.                              *)
(***************************************************************************)
EXTENDS CaptureSession, TLC

CONSTANTS s1, s2

MCSources == {s1, s2}
OneSource == {s1}
Symmetry == Permutations(MCSources)
=============================================================================
