--------------------------- MODULE MCGrallocShare ---------------------------
(* A small instance of GrallocShare for TLC.                               *)
EXTENDS GrallocShare, TLC

CONSTANTS a, c, m1

MCClients == {c}
MCMems    == {m1}
MCPads    == {0, 1}

MCUsages == {SwReadRarely, SwWriteOften, {"RENDER"}, {"FB"}, {"CURSOR", "WRITE_1"}}

MCDescriptions ==
  {d \in [width : {2, 3}, height : {2, 3}, format : Formats, usage : MCUsages] :
     d.width # d.height \/ d.format = "YV12"}

MCFdMayFail ==
  {[width |-> 3, height |-> 3, format |-> "YV12", usage |-> SwReadRarely],
   [width |-> 2, height |-> 3, format |-> "RGB_888", usage |-> SwWriteOften]}

MCLockUsages == {SwReadRarely, SwWriteRarely}
=============================================================================
