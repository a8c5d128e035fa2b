----------------------------- MODULE MCPowerHal -----------------------------
(* A small instance of PowerHal for TLC.                                   *)
EXTENDS PowerHal, TLC

CONSTANTS c1, c2

MCClients  == {c1, c2}
MCSymmetry == Permutations(MCClients)
=============================================================================
