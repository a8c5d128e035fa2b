----------------------------- MODULE MCAudioHal -----------------------------
(* Small instances of AudioHal for TLC.                                    *)
EXTENDS AudioHal, TLC

CONSTANTS t1, t2, s1, s2, p1, p2, speaker

MCThreads   == {t1, t2}
MCStreams   == {s1, s2}
MCOneStream == {s1}
MCPcms      == {p1, p2}
MCRoutes    == {speaker}
MCOnePcm    == {p1}
MCNoRoutes  == {}
MCOneFrame  == {1}
MCFrames    == {1, 2}

MCSymmetry ==
  Permutations(MCThreads) \cup Permutations(MCStreams) \cup Permutations(MCPcms)
=============================================================================
