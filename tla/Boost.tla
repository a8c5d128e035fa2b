------------------------------- MODULE Boost --------------------------------
(***************************************************************************)
(* What the power HAL promises of the schedtune boost, without threads,    *)
(* mutex or semaphore: a hint raises the boost unless it is on, and then   *)
(* moves its deadline, which never moves back; the boost is taken back     *)
(* when the deadline has passed, and never between the two halves of a     *)
(* hint.  A write to the sysfs file may leave it as it was.                *)
(***************************************************************************)
EXTENDS Naturals

CONSTANT BoostTime

VARIABLES
  level,    \* what the sysfs file holds
  base,     \* what the process takes for the normal value
  due,      \* deadline of the boost, 0 for none
  raising,  \* a hint has seen to the boost and not yet moved the deadline
  clock

vars == <<level, base, due, raising, clock>>

Init ==
  /\ level = "normal" /\ base = "default"
  /\ due = 0 /\ raising = FALSE /\ clock = 1

(* A hint that finds the boost on leaves the file alone.                   *)
Raise ==
  /\ ~raising /\ raising' = TRUE
  /\ level' \in IF due = 0 THEN {level, "interactive"} ELSE {level}
  /\ UNCHANGED <<base, due, clock>>

(* The deadline is BoostTime after a moment of the past, at which the hint *)
(* was served, and moves forward or stays.                                 *)
Extend ==
  /\ raising /\ raising' = FALSE
  /\ due' \in BoostTime + 1 .. BoostTime + clock /\ due <= due'
  /\ UNCHANGED <<level, base, clock>>

Lower ==
  /\ ~raising /\ due <= clock
  /\ due' = 0 /\ level' \in {level, base}
  /\ UNCHANGED <<base, raising, clock>>

(* A process starts with what it finds in the file, or with the default,   *)
(* and loses its deadline when it dies, but the file stays as it is.       *)
Start ==
  /\ due = 0 /\ ~raising
  /\ base' \in {level, "default"}
  /\ UNCHANGED <<level, due, raising, clock>>

Die ==
  /\ base' = "default" /\ due' = 0 /\ raising' = FALSE
  /\ UNCHANGED <<level, clock>>

Tick == clock' = clock + 1 /\ UNCHANGED <<level, base, due, raising>>

Next == Raise \/ Extend \/ Lower \/ Start \/ Die \/ Tick

Spec == Init /\ [][Next]_vars
=============================================================================
