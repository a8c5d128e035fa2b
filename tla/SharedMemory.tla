---------------------------- MODULE SharedMemory ----------------------------
(***************************************************************************)
(* What module GrallocShare promises of memory shared between processes,   *)
(* without handles, descriptors and buffer objects: it is made once and    *)
(* stays as it was made while a process holds it or has it coming; it is   *)
(* gone at the moment the last one leaves, by giving it up or by dying,    *)
(* and not a step earlier or later.                                        *)
(***************************************************************************)
CONSTANTS Procs, Mems, NULL

VARIABLES
  made,    \* what each piece of memory was made as, or NULL
  holds,   \* per piece of memory: the processes that hold it
  coming   \* per piece of memory: the processes a message brings it to

vars == <<made, holds, coming>>

Init ==
  /\ made = [m \in Mems |-> NULL]
  /\ holds = [m \in Mems |-> {}] /\ coming = [m \in Mems |-> {}]

HoldsNothing(p) == \A m \in Mems : p \notin holds[m]

(* It is not said here what memory can be made as.                         *)
Make(p, m) ==
  /\ HoldsNothing(p) /\ made[m] = NULL
  /\ made' = [made EXCEPT ![m] = made'[m]] /\ made'[m] # NULL
  /\ holds' = [holds EXCEPT ![m] = {p}]
  /\ UNCHANGED coming

Pass(p, q, m) ==
  /\ p \in holds[m]
  /\ coming' = [coming EXCEPT ![m] = @ \cup {q}]
  /\ UNCHANGED <<made, holds>>

Arrive(q, m) ==
  /\ HoldsNothing(q) /\ q \in coming[m]
  /\ holds' = [holds EXCEPT ![m] = @ \cup {q}]
  /\ coming' = [coming EXCEPT ![m] = @ \ {q}]
  /\ UNCHANGED made

(* Memory that was left by its last process is gone.                       *)
Left == made' = [m \in Mems |-> IF holds'[m] \cup coming'[m] = {} THEN NULL ELSE made[m]]

GiveUp(p) ==
  /\ holds' = [m \in Mems |-> holds[m] \ {p}]
  /\ UNCHANGED coming
  /\ Left

Die(p) ==
  /\ holds' = [m \in Mems |-> holds[m] \ {p}]
  /\ coming' = [m \in Mems |-> coming[m] \ {p}]
  /\ Left

Next ==
  \E p \in Procs :
    \/ GiveUp(p) \/ Die(p)
    \/ \E m \in Mems :
         Make(p, m) \/ Arrive(p, m) \/ \E q \in Procs : Pass(p, q, m)

Spec == Init /\ [][Next]_vars
=============================================================================
