----------------------------- MODULE MCGralloc -----------------------------
(* Small instances of Gralloc for TLC.                                     *)
EXTENDS Gralloc, TLC

CONSTANTS t1, t2, h1, h2, b1, b2, b3

MCThreads == {t1, t2}
MCHandles == {h1, h2}
MCBos     == {b1, b2, b3}

(* A CPU reader, a GPU reader, and a user that both the CPU and GPU write. *)
MCUsages ==
  {{"SW_READ"}, {"HW_TEXTURE"}, {"SW_WRITE", "HW_RENDER"}}

(* Smaller sets for the refinement and the liveness runs.                  *)
MCOneHandle == {h1}
MCFewBos    == {b1, b2}
MCFewUsages == {{"SW_READ"}, {"HW_RENDER"}}

MCSymmetry ==
  Permutations(MCThreads) \cup Permutations(MCHandles) \cup Permutations(MCBos)
=============================================================================
