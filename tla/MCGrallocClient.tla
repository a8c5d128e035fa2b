--------------------------- MODULE MCGrallocClient ---------------------------
(* A small instance of GrallocClient for TLC.                              *)
EXTENDS GrallocClient, TLC

CONSTANTS t1, t2, h1, h2, b1, b2

MCThreads == {t1, t2}
MCHandles == {h1, h2}
MCBos     == {b1, b2}
MCUsages  == {{"SW_READ"}, {"HW_TEXTURE"}, {"SW_WRITE", "HW_RENDER"}}

MCSymmetry ==
  Permutations(MCThreads) \cup Permutations(MCHandles) \cup Permutations(MCBos)
=============================================================================
