--------------------------- MODULE MCCaptureEdDSA ---------------------------
(***************************************************************************)
(* CaptureEdDSA for TLC: five data pages (one more than the locator       *)
(* window of ElemsFromBack = 4 faults, so the scan starts past position 1) *)
(* and two victim iterations (so that the snapshots of iteration 1 are     *)
(* laid out against those of iteration 0).                                 *)
(***************************************************************************)
EXTENDS CaptureEdDSA, TLC

CONSTANTS d1, d2, d3, d4, d5

MCDataPages == {d1, d2, d3, d4, d5}

(***************************************************************************)
(* The liveness run checks without symmetry (not sound for liveness), on   *)
(* four data pages: still one full locator window.                         *)
(***************************************************************************)
MCLiveDataPages == {d1, d2, d3, d4}

\* Data pages are interchangeable: no definition names one of them.
MCSymmetry == Permutations(MCDataPages)

=============================================================================
