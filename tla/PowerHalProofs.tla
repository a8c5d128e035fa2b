--------------------------- MODULE PowerHalProofs ---------------------------
(***************************************************************************)
(* Proofs of the safety properties of PowerHal for any number of clients,  *)
(* any boost time, any horizon and any number of deaths of the process.    *)
(*                                                                         *)
(* None of them is inductive alone.  MutexInv says who holds the mutex,    *)
(* TimeInv how the times that were read relate to the clock and the        *)
(* deadline to the last hint served, PostInv what a hint has done between  *)
(* its post and its deadline.                                              *)
(***************************************************************************)
EXTENDS PowerHal, TLAPS

Posted == \E c \in Clients : hint[c].pc = "set"

MutexInv ==
  /\ \A c \in Clients : hint[c].pc \in {"boost", "set", "unlock"} => lock = c
  /\ thread.pc = "check" => lock = Thread
  /\ phase # "running" =>
       /\ thread.pc = "none" /\ \A c \in Clients : hint[c].pc = "idle"
       /\ deboost_time = 0 /\ sem = 0 /\ lastWrite = "none"

TimeInv ==
  /\ thread.now <= now
  /\ \A c \in Clients : hint[c].pc \in {"boost", "set"} => hint[c].now \in 1..now
  /\ deboost_time # 0 => deboost_time = lastHint + BoostTime
  /\ deboost_time = 0 => lastHint = 0 \/ lastHint + BoostTime <= now

PostInv ==
  /\ Posted => sem > 0 \/ InPass
  /\ Posted \/ deboost_time # 0 => lastWrite # "none"
  /\ Posted /\ lastWrite = "done" => boost = "interactive"
  /\ ~Posted /\ lastWrite = "done"
       => boost = (IF deboost_time # 0 THEN "interactive" ELSE norm)

IInv == TypeOK /\ MutexInv /\ TimeInv /\ PostInv /\ WakeupNotLost /\ TokensBounded
-----------------------------------------------------------------------------
(* The module before power_open.                                           *)
LEMMA InitIInv == Init => IInv
<1> SUFFICES ASSUME Init PROVE IInv
  OBVIOUS
<1> USE PowerAssumption DEF Init
<1>1. TypeOK
  <2>1. fd \in BOOLEAN
    OBVIOUS
  <2>0. deaths \in 0..MaxDeaths
    OBVIOUS
  <2>2. hint \in [Clients -> [pc : HintSteps, now : Nat]]
    BY DEF HintSteps
  <2>3. thread \in [pc : ThreadSteps, now : Nat, wake : Nat]
    BY DEF ThreadSteps
  <2> QED BY <2>0, <2>1, <2>2, <2>3 DEF TypeOK, Levels
<1>2. MutexInv /\ TimeInv
  BY DEF MutexInv, TimeInv
<1>3. PostInv /\ WakeupNotLost /\ TokensBounded
  BY DEF PostInv, Posted, WakeupNotLost, TokensBounded, InPass
<1> QED BY <1>1, <1>2, <1>3 DEF IInv

(* power_open gives a zeroed module.                                       *)
LEMMA PowerOpenStep ==
  ASSUME IInv, PowerOpen
  PROVE  IInv'
<1> USE PowerAssumption DEF IInv, PowerOpen, setupVars, fileVars
<1>1. TypeOK'
  BY DEF TypeOK, HintSteps, ThreadSteps, Levels, TimeInv
<1>2. MutexInv'
  BY DEF MutexInv, TypeOK
<1>3. TimeInv'
  BY DEF TimeInv, TypeOK, MutexInv
<1>4. PostInv'
  BY DEF PostInv, Posted, InPass, TypeOK, MutexInv, TimeInv, WakeupNotLost
<1>5. WakeupNotLost'
  BY DEF WakeupNotLost, InPass, TypeOK, PostInv, Posted
<1>6. TokensBounded'
  BY DEF TokensBounded, InPass, TypeOK, MutexInv, TimeInv
<1> QED BY <1>1, <1>2, <1>3, <1>4, <1>5, <1>6

(* init starts from no deadline and one token.                             *)
LEMMA PowerInitStep ==
  ASSUME IInv, PowerInit
  PROVE  IInv'
<1> USE PowerAssumption DEF IInv, PowerInit, FirstToken, setupVars, fileVars
<1>1. TypeOK'
  BY DEF TypeOK, HintSteps, ThreadSteps, Levels, TimeInv
<1>2. MutexInv'
  BY DEF MutexInv, TypeOK
<1>3. TimeInv'
  BY DEF TimeInv, TypeOK, MutexInv
<1>4. PostInv'
  BY DEF PostInv, Posted, InPass, TypeOK, MutexInv, TimeInv, WakeupNotLost
<1>5. WakeupNotLost'
  BY DEF WakeupNotLost, InPass, TypeOK, PostInv, Posted
<1>6. TokensBounded'
  BY DEF TokensBounded, InPass, TypeOK, MutexInv, TimeInv
<1> QED BY <1>1, <1>2, <1>3, <1>4, <1>5, <1>6

(* A call that has not taken the mutex yet changes nothing.                *)
LEMMA HintCallStep ==
  ASSUME IInv, NEW c \in Clients, HintCall(c)
  PROVE  IInv'
<1> USE PowerAssumption DEF IInv, HintCall, HintGoto, setupVars, fileVars
<1>1. TypeOK'
  BY DEF TypeOK, HintSteps, ThreadSteps, Levels, TimeInv
<1>2. MutexInv'
  BY DEF MutexInv, TypeOK
<1>3. TimeInv'
  BY DEF TimeInv, TypeOK, MutexInv
<1>4. PostInv'
  BY DEF PostInv, Posted, InPass, TypeOK, MutexInv, TimeInv, WakeupNotLost
<1>5. WakeupNotLost'
  BY DEF WakeupNotLost, InPass, TypeOK, PostInv, Posted
<1>6. TokensBounded'
  BY DEF TokensBounded, InPass, TypeOK, MutexInv, TimeInv
<1> QED BY <1>1, <1>2, <1>3, <1>4, <1>5, <1>6

(* The time a hint reads is not in the future.                             *)
LEMMA HintLockStep ==
  ASSUME IInv, NEW c \in Clients, HintLock(c)
  PROVE  IInv'
<1> USE PowerAssumption DEF IInv, HintLock, HintGoto, Lock, setupVars, fileVars
<1>1. TypeOK'
  BY DEF TypeOK, HintSteps, ThreadSteps, Levels, TimeInv
<1>2. MutexInv'
  BY DEF MutexInv, TypeOK
<1>3. TimeInv'
  BY DEF TimeInv, TypeOK, MutexInv
<1>4. PostInv'
  BY DEF PostInv, Posted, InPass, TypeOK, MutexInv, TimeInv, WakeupNotLost
<1>5. WakeupNotLost'
  BY DEF WakeupNotLost, InPass, TypeOK, PostInv, Posted
<1>6. TokensBounded'
  BY DEF TokensBounded, InPass, TypeOK, MutexInv, TimeInv
<1> QED BY <1>1, <1>2, <1>3, <1>4, <1>5, <1>6

(* The first hint of a boost posts while no other token is due.            *)
LEMMA HintBoostStep ==
  ASSUME IInv, NEW c \in Clients, HintBoost(c)
  PROVE  IInv'
<1> USE PowerAssumption DEF IInv, HintBoost, HintGoto, NotBoosted, SysfsBoost, setupVars, fileVars
<1>1. TypeOK'
  <2>1. boost' \in Levels /\ lastWrite' \in {"none", "done", "failed"} /\ sem' \in Nat
    BY DEF TypeOK, Levels
  <2>2. hint' \in [Clients -> [pc : HintSteps, now : Nat]]
    BY DEF TypeOK, HintSteps
  <2> QED BY <2>1, <2>2 DEF TypeOK
<1>2. MutexInv'
  BY DEF MutexInv, TypeOK
<1>3. TimeInv'
  BY DEF TimeInv, TypeOK, MutexInv
<1>4. PostInv'
  BY DEF PostInv, Posted, InPass, TypeOK, MutexInv, TimeInv, WakeupNotLost
<1>5. WakeupNotLost'
  BY DEF WakeupNotLost, InPass, TypeOK, PostInv, Posted
<1>6. TokensBounded'
  BY DEF TokensBounded, InPass, TypeOK, MutexInv, TimeInv
<1> QED BY <1>1, <1>2, <1>3, <1>4, <1>5, <1>6

(* The post has happened by the time the deadline is set.                  *)
LEMMA HintSetDeadlineStep ==
  ASSUME IInv, NEW c \in Clients, HintSetDeadline(c)
  PROVE  IInv'
<1> USE PowerAssumption DEF IInv, HintSetDeadline, HintGoto, setupVars, fileVars
<1>1. TypeOK'
  BY DEF TypeOK, HintSteps, ThreadSteps, Levels, TimeInv
<1>2. MutexInv'
  BY DEF MutexInv, TypeOK
<1>3. TimeInv'
  BY DEF TimeInv, TypeOK, MutexInv
<1>4. PostInv'
  BY DEF PostInv, Posted, InPass, TypeOK, MutexInv, TimeInv, WakeupNotLost
<1>5. WakeupNotLost'
  BY DEF WakeupNotLost, InPass, TypeOK, PostInv, Posted
<1>6. TokensBounded'
  <2>1. Posted /\ sem + (IF InPass THEN 1 ELSE 0) <= 2
    BY DEF TokensBounded, Posted, TypeOK, InPass
  <2>2. deboost_time' # 0
    <3>1. hint[c].now \in 1..now /\ now \in Nat
      BY DEF TimeInv, TypeOK
    <3>2. deboost_time' = hint[c].now + BoostTime
      OBVIOUS
    <3> QED BY ONLY <3>1, <3>2, PowerAssumption
  <2> QED BY <2>1, <2>2 DEF TokensBounded, InPass
<1> QED BY <1>1, <1>2, <1>3, <1>4, <1>5, <1>6

(* The holder gives the mutex back.                                        *)
LEMMA HintUnlockStep ==
  ASSUME IInv, NEW c \in Clients, HintUnlock(c)
  PROVE  IInv'
<1> USE PowerAssumption DEF IInv, HintUnlock, HintGoto, Unlock, setupVars, fileVars
<1>1. TypeOK'
  BY DEF TypeOK, HintSteps, ThreadSteps, Levels, TimeInv
<1>2. MutexInv'
  BY DEF MutexInv, TypeOK
<1>3. TimeInv'
  BY DEF TimeInv, TypeOK, MutexInv
<1>4. PostInv'
  BY DEF PostInv, Posted, InPass, TypeOK, MutexInv, TimeInv, WakeupNotLost
<1>5. WakeupNotLost'
  BY DEF WakeupNotLost, InPass, TypeOK, PostInv, Posted
<1>6. TokensBounded'
  BY DEF TokensBounded, InPass, TypeOK, MutexInv, TimeInv
<1> QED BY <1>1, <1>2, <1>3, <1>4, <1>5, <1>6

(* A token becomes a pass.                                                 *)
LEMMA SemWaitStep ==
  ASSUME IInv, SemWait
  PROVE  IInv'
<1> USE PowerAssumption DEF IInv, SemWait, SemTake, setupVars, fileVars
<1>1. TypeOK'
  BY DEF TypeOK, HintSteps, ThreadSteps, Levels, TimeInv
<1>2. MutexInv'
  BY DEF MutexInv, TypeOK
<1>3. TimeInv'
  BY DEF TimeInv, TypeOK, MutexInv
<1>4. PostInv'
  BY DEF PostInv, Posted, InPass, TypeOK, MutexInv, TimeInv, WakeupNotLost
<1>5. WakeupNotLost'
  BY DEF WakeupNotLost, InPass, TypeOK, PostInv, Posted
<1>6. TokensBounded'
  BY DEF TokensBounded, InPass, TypeOK, MutexInv, TimeInv
<1> QED BY <1>1, <1>2, <1>3, <1>4, <1>5, <1>6

(* The time the thread reads is not in the future.                         *)
LEMMA DeboostLockStep ==
  ASSUME IInv, DeboostLock
  PROVE  IInv'
<1> USE PowerAssumption DEF IInv, DeboostLock, Lock, setupVars, fileVars
<1>1. TypeOK'
  BY DEF TypeOK, HintSteps, ThreadSteps, Levels, TimeInv
<1>2. MutexInv'
  BY DEF MutexInv, TypeOK
<1>3. TimeInv'
  BY DEF TimeInv, TypeOK, MutexInv
<1>4. PostInv'
  BY DEF PostInv, Posted, InPass, TypeOK, MutexInv, TimeInv, WakeupNotLost
<1>5. WakeupNotLost'
  BY DEF WakeupNotLost, InPass, TypeOK, PostInv, Posted
<1>6. TokensBounded'
  BY DEF TokensBounded, InPass, TypeOK, MutexInv, TimeInv
<1> QED BY <1>1, <1>2, <1>3, <1>4, <1>5, <1>6

(* The rest of the boost is not negative.                                  *)
LEMMA DeboostSleepStep ==
  ASSUME IInv, DeboostSleep
  PROVE  IInv'
<1> USE PowerAssumption DEF IInv, DeboostSleep, ToSleep, Unlock, Expired, setupVars, fileVars
<1>1. TypeOK'
  <2>1. now + deboost_time - thread.now \in Nat
    BY DEF TypeOK
  <2> QED BY <2>1 DEF TypeOK, ThreadSteps
<1>2. MutexInv'
  BY DEF MutexInv, TypeOK
<1>3. TimeInv'
  BY DEF TimeInv, TypeOK, MutexInv
<1>4. PostInv'
  BY DEF PostInv, Posted, InPass, TypeOK, MutexInv, TimeInv, WakeupNotLost
<1>5. WakeupNotLost'
  BY DEF WakeupNotLost, InPass, TypeOK, PostInv, Posted
<1>6. TokensBounded'
  BY DEF TokensBounded, InPass, TypeOK, MutexInv, TimeInv
<1> QED BY <1>1, <1>2, <1>3, <1>4, <1>5, <1>6

(* However the sleep ends, the pass goes on.                               *)
LEMMA SleepStep ==
  ASSUME IInv, SleepOver \/ SleepInterrupted
  PROVE  IInv'
<1> USE PowerAssumption DEF IInv, SleepOver, SleepInterrupted, AfterSleep, setupVars, fileVars
<1>1. TypeOK'
  BY DEF TypeOK, HintSteps, ThreadSteps, Levels, TimeInv
<1>2. MutexInv'
  BY DEF MutexInv, TypeOK
<1>3. TimeInv'
  BY DEF TimeInv, TypeOK, MutexInv
<1>4. PostInv'
  BY DEF PostInv, Posted, InPass, TypeOK, MutexInv, TimeInv, WakeupNotLost
<1>5. WakeupNotLost'
  BY DEF WakeupNotLost, InPass, TypeOK, PostInv, Posted
<1>6. TokensBounded'
  BY DEF TokensBounded, InPass, TypeOK, MutexInv, TimeInv
<1> QED BY <1>1, <1>2, <1>3, <1>4, <1>5, <1>6

(* The pass ends with the deadline it served, and no hint is half done then. *)
LEMMA DeboostStep ==
  ASSUME IInv, Deboost
  PROVE  IInv'
<1> USE PowerAssumption DEF IInv, Deboost, Expired, SysfsBoost, NoDeadline, Unlock, setupVars, fileVars
<1>1. TypeOK'
  BY DEF TypeOK, HintSteps, ThreadSteps, Levels, TimeInv
<1>2. MutexInv'
  BY DEF MutexInv, TypeOK
<1>3. TimeInv'
  BY DEF TimeInv, TypeOK, MutexInv
<1>4. PostInv'
  BY DEF PostInv, Posted, InPass, TypeOK, MutexInv, TimeInv, WakeupNotLost
<1>5. WakeupNotLost'
  BY DEF WakeupNotLost, InPass, TypeOK, PostInv, Posted
<1>6. TokensBounded'
  BY DEF TokensBounded, InPass, TypeOK, MutexInv, TimeInv
<1> QED BY <1>1, <1>2, <1>3, <1>4, <1>5, <1>6

(* Time only makes a boost more overdue.                                   *)
LEMMA TickStep ==
  ASSUME IInv, Tick
  PROVE  IInv'
<1> USE PowerAssumption DEF IInv, Tick, setupVars, fileVars
<1>1. TypeOK'
  BY DEF TypeOK, HintSteps, ThreadSteps, Levels, TimeInv
<1>2. MutexInv'
  BY DEF MutexInv, TypeOK
<1>3. TimeInv'
  BY DEF TimeInv, TypeOK, MutexInv
<1>4. PostInv'
  BY DEF PostInv, Posted, InPass, TypeOK, MutexInv, TimeInv, WakeupNotLost
<1>5. WakeupNotLost'
  BY DEF WakeupNotLost, InPass, TypeOK, PostInv, Posted
<1>6. TokensBounded'
  BY DEF TokensBounded, InPass, TypeOK, MutexInv, TimeInv
<1> QED BY <1>1, <1>2, <1>3, <1>4, <1>5, <1>6

(* What starts again has the shape of the module as it was first loaded.   *)
LEMMA DieStep ==
  ASSUME IInv, Die
  PROVE  IInv'
<1> USE PowerAssumption DEF IInv, Die, setupVars, fileVars
<1>1. TypeOK'
  <2>1. fd' \in BOOLEAN
    OBVIOUS
  <2>2. hint' \in [Clients -> [pc : HintSteps, now : Nat]]
    BY DEF HintSteps
  <2>3. thread' \in [pc : ThreadSteps, now : Nat, wake : Nat]
    BY DEF ThreadSteps
  <2>4. deaths' \in 0..MaxDeaths
    BY DEF TypeOK
  <2> QED BY <2>1, <2>2, <2>3, <2>4 DEF TypeOK, Levels
<1>2. MutexInv'
  BY DEF MutexInv, TypeOK
<1>3. TimeInv'
  BY DEF TimeInv, TypeOK, MutexInv
<1>4. PostInv'
  BY DEF PostInv, Posted, InPass, TypeOK, MutexInv, TimeInv, WakeupNotLost
<1>5. WakeupNotLost'
  BY DEF WakeupNotLost, InPass, TypeOK, PostInv, Posted
<1>6. TokensBounded'
  BY DEF TokensBounded, InPass, TypeOK, MutexInv, TimeInv
<1> QED BY <1>1, <1>2, <1>3, <1>4, <1>5, <1>6
-----------------------------------------------------------------------------
(* Every step preserves the invariant.                                     *)
LEMMA NextIInv == IInv /\ [Next]_vars => IInv'
<1> SUFFICES ASSUME IInv, [Next]_vars PROVE IInv'
  OBVIOUS
<1>1. CASE UNCHANGED vars
  BY <1>1 DEF vars, setupVars, fileVars, IInv, TypeOK, MutexInv, TimeInv, PostInv, Posted,
     WakeupNotLost, TokensBounded, InPass
<1>2. CASE PowerOpen \/ PowerInit \/ Die \/ Tick
  BY <1>2, PowerOpenStep, PowerInitStep, DieStep, TickStep
<1>3. CASE \E c \in Clients : HintCall(c) \/ HintLock(c) \/ HintStep(c)
  BY <1>3, HintCallStep, HintLockStep, HintBoostStep, HintSetDeadlineStep, HintUnlockStep
     DEF HintStep
<1>4. CASE ThreadStep \/ SleepInterrupted
  BY <1>4, SemWaitStep, DeboostLockStep, DeboostSleepStep, SleepStep, DeboostStep DEF ThreadStep
<1> QED BY <1>1, <1>2, <1>3, <1>4 DEF Next

(* The invariant holds in every reachable state.                           *)
THEOREM IInvHolds == Spec => []IInv
  BY InitIInv, NextIInv, PTL DEF Spec

(* Every variable keeps its type: the semaphore never goes below zero and  *)
(* no sleep is asked for with a negative time.                             *)
THEOREM TypeCorrect == Spec => []TypeOK
  BY IInvHolds, PTL DEF IInv

(* A deadline, or the boost of a dead process, always has a token or the   *)
(* thread to act on it.                                                    *)
THEOREM WakeupIsNotLost == Spec => []WakeupNotLost
  BY IInvHolds, PTL DEF IInv

(* At most one token beside the first is ever outstanding.                 *)
THEOREM TokensStayBounded == Spec => []TokensBounded
  BY IInvHolds, PTL DEF IInv

(* While the mutex is free and the last write worked, the file is boosted  *)
(* while a deadline is set and holds the value read at init otherwise.     *)
THEOREM FileFollows == Spec => []FileFollowsDeadline
<1>1. IInv => FileFollowsDeadline
  BY PowerAssumption DEF IInv, MutexInv, PostInv, Posted, FileFollowsDeadline
<1> QED BY <1>1, IInvHolds, PTL

(* No step but a restart takes a boost back before it is due.              *)
THEOREM BoostIsNotCutShort == Spec => NoEarlyDeboost
<1>1. ASSUME IInv, [Next]_vars, boost = "interactive", boost' # "interactive",
             lastHint # 0
      PROVE  now >= lastHint + BoostTime
  <2>1. Deboost
    BY <1>1 DEF Next, vars, setupVars, fileVars, PowerOpen, PowerInit, HintCall, HintLock, HintStep,
       HintBoost, HintSetDeadline, HintUnlock, ThreadStep, SemWait, DeboostLock, DeboostSleep,
       SleepOver, SleepInterrupted, Die, Tick, SysfsBoost
  <2>2. deboost_time <= thread.now /\ ~Posted
    BY <1>1, <2>1, PowerAssumption DEF Deboost, Expired, IInv, MutexInv, Posted
  <2>3. CASE deboost_time # 0
    BY <1>1, <2>2, <2>3 DEF IInv, TimeInv, TypeOK
  <2>4. CASE deboost_time = 0
    BY <1>1, <2>2, <2>4, PowerAssumption DEF IInv, TimeInv, PostInv, TypeOK
  <2> QED BY <2>3, <2>4
<1>2. IInv /\ [Next]_vars
        => [boost = "interactive" /\ boost' # "interactive" /\ lastHint # 0
              => now >= lastHint + BoostTime]_vars
  BY <1>1
<1> QED BY <1>2, IInvHolds, PTL DEF Spec, NoEarlyDeboost
-----------------------------------------------------------------------------
(* Hints are served in the order of the times they read: none of them has  *)
(* read a time before that of the last one served.                         *)
HintsOrdered ==
  /\ lastHint <= now
  /\ \A c \in Clients : hint[c].pc \in {"boost", "set"} => lastHint <= hint[c].now

(* A step that leaves the history alone and moves hints without their time *)
(* keeps the order.                                                        *)
LEMMA NextHintsOrdered == IInv /\ HintsOrdered /\ [Next]_vars => HintsOrdered'
<1> SUFFICES ASSUME IInv, HintsOrdered, [Next]_vars PROVE HintsOrdered'
  OBVIOUS
<1>1. CASE UNCHANGED <<hint, lastHint, now>>
  BY <1>1 DEF HintsOrdered
<1>2. CASE Tick
  BY <1>2 DEF Tick, HintsOrdered, IInv, TypeOK
<1>3. CASE Die
  BY <1>3 DEF Die, HintsOrdered, IInv, TypeOK
<1>4. ASSUME NEW c \in Clients, HintCall(c) \/ HintUnlock(c)
      PROVE  HintsOrdered'
  BY <1>4 DEF HintCall, HintUnlock, HintGoto, HintsOrdered, IInv, TypeOK
<1>5. ASSUME NEW c \in Clients, HintLock(c)
      PROVE  HintsOrdered'
  BY <1>5 DEF HintLock, HintGoto, HintsOrdered, IInv, TypeOK
<1>6. ASSUME NEW c \in Clients, HintBoost(c)
      PROVE  HintsOrdered'
  BY <1>6 DEF HintBoost, HintGoto, HintsOrdered, IInv, TypeOK
<1>7. ASSUME NEW c \in Clients, HintSetDeadline(c)
      PROVE  HintsOrdered'
  <2>1. /\ lastHint' = hint[c].now /\ now' = now
        /\ \A d \in Clients : hint'[d] = IF d = c THEN [pc |-> "unlock", now |-> 0] ELSE hint[d]
    BY <1>7 DEF HintSetDeadline, IInv, TypeOK
  <2>2. hint[c].now <= now
    BY <1>7 DEF HintSetDeadline, IInv, TimeInv
  <2>3. \A d \in Clients \ {c} : hint[d].pc \notin {"boost", "set"}
    BY <1>7 DEF HintSetDeadline, IInv, MutexInv
  <2> QED BY <2>1, <2>2, <2>3 DEF HintsOrdered
<1> QED
  BY <1>1, <1>2, <1>3, <1>4, <1>5, <1>6, <1>7
     DEF Next, vars, setupVars, fileVars, PowerOpen, PowerInit, HintStep, ThreadStep, SemWait,
         DeboostLock, DeboostSleep, SleepOver, SleepInterrupted, Deboost

boostState == <<boost, norm, deboost_time, Posted, now>>

(* A hint raises the boost, or leaves it to the deadline.                  *)
LEMMA HintRaises ==
  ASSUME IInv, NEW c \in Clients, HintBoost(c)
  PROVE  Promise!Raise
<1>1. ~Posted
  BY DEF HintBoost, IInv, MutexInv, Posted
<1>2. Posted'
  BY DEF HintBoost, HintGoto, Posted, IInv, TypeOK
<1>3. boost' \in IF deboost_time = 0 THEN {boost, "interactive"} ELSE {boost}
  BY DEF HintBoost, NotBoosted, SysfsBoost, fileVars
<1>4. UNCHANGED <<norm, deboost_time, now>>
  BY DEF HintBoost, setupVars
<1>5. (~\E d \in Clients : hint[d].pc = "set") /\ (\E d \in Clients : hint'[d].pc = "set") = TRUE
  BY <1>1, <1>2 DEF Posted
<1> QED BY <1>3, <1>4, <1>5 DEF Promise!Raise

(* The deadline moves forward to BoostTime after the hint.                 *)
LEMMA DeadlineExtends ==
  ASSUME IInv, HintsOrdered, NEW c \in Clients, HintSetDeadline(c)
  PROVE  Promise!Extend
<1>1. /\ lastHint <= hint[c].now /\ hint[c].now \in 1 .. now
      /\ deboost_time' = hint[c].now + BoostTime
  BY DEF HintSetDeadline, HintsOrdered, IInv, TimeInv
<1>2. deboost_time' \in BoostTime + 1 .. BoostTime + now /\ deboost_time <= deboost_time'
  BY <1>1, PowerAssumption DEF IInv, TimeInv, TypeOK
<1>3. \E d \in Clients : hint[d].pc = "set"
  BY DEF HintSetDeadline
<1>4. \A d \in Clients : hint'[d].pc # "set"
  BY DEF HintSetDeadline, IInv, MutexInv, TypeOK
<1>5. (\E d \in Clients : hint'[d].pc = "set") = FALSE
  BY <1>4
<1>6. UNCHANGED <<boost, norm, now>>
  BY DEF HintSetDeadline, setupVars, fileVars
<1> QED BY <1>2, <1>3, <1>5, <1>6 DEF Promise!Extend

(* The thread takes the boost back when the deadline has passed.           *)
LEMMA ThreadLowers ==
  ASSUME IInv, Deboost
  PROVE  Promise!Lower
<1>1. \A d \in Clients : hint[d].pc # "set"
  BY PowerAssumption DEF Deboost, IInv, MutexInv
<1>2. deboost_time <= now
  BY DEF Deboost, Expired, IInv, TimeInv, TypeOK
<1>3. deboost_time' = 0 /\ boost' \in {boost, norm} /\ UNCHANGED <<norm, now, hint>>
  BY DEF Deboost, NoDeadline, SysfsBoost, setupVars
<1> QED BY <1>1, <1>2, <1>3 DEF Promise!Lower

(* Every step of PowerHal is a step of Boost or leaves it as it was.       *)
LEMMA StepRefines == IInv /\ HintsOrdered /\ [Next]_vars => [Promise!Next]_boostState
<1> SUFFICES ASSUME IInv, HintsOrdered, [Next]_vars PROVE [Promise!Next]_boostState
  OBVIOUS
<1>1. CASE UNCHANGED <<boost, norm, deboost_time, hint, now>>
  BY <1>1 DEF boostState, Posted
<1>2. CASE PowerInit
  <2>1. /\ deboost_time = 0 /\ deboost_time' = 0
        /\ \A c \in Clients : hint[c].pc # "set"
        /\ UNCHANGED <<boost, hint, now>>
    BY <1>2 DEF PowerInit, IInv, MutexInv, fileVars
  <2>2. norm' = norm \/ norm' \in {boost, "default"}
    BY <1>2 DEF PowerInit
  <2>3. CASE norm' = norm
    BY <2>1, <2>3 DEF boostState, Posted
  <2>4. CASE norm' \in {boost, "default"}
    BY <2>1, <2>4 DEF Promise!Next, Promise!Start
  <2> QED BY <2>2, <2>3, <2>4
<1>3. CASE Die
  <2>1. (\E c \in Clients : hint'[c].pc = "set") = FALSE
    BY <1>3 DEF Die
  <2> QED BY <1>3, <2>1 DEF Die, Promise!Next, Promise!Die
<1>4. CASE Tick
  BY <1>4 DEF Tick, setupVars, fileVars, Promise!Next, Promise!Tick
<1>5. ASSUME NEW c \in Clients, HintCall(c) \/ HintLock(c) \/ HintUnlock(c)
      PROVE  UNCHANGED boostState
  <2>1. UNCHANGED <<boost, norm, deboost_time, now>>
    BY <1>5 DEF HintCall, HintLock, HintUnlock, setupVars, fileVars
  <2>2. /\ hint[c].pc # "set" /\ hint'[c].pc # "set"
        /\ \A d \in Clients \ {c} : hint'[d] = hint[d]
    BY <1>5 DEF HintCall, HintLock, HintUnlock, HintGoto, IInv, TypeOK
  <2> QED BY <2>1, <2>2 DEF boostState, Posted
<1>6. ASSUME NEW c \in Clients, HintStep(c)
      PROVE  [Promise!Next]_boostState
  BY <1>5, <1>6, HintRaises, DeadlineExtends DEF HintStep, Promise!Next
<1>7. CASE Deboost
  BY <1>7, ThreadLowers DEF Promise!Next
<1> QED
  BY <1>1, <1>2, <1>3, <1>4, <1>5, <1>6, <1>7
     DEF Next, vars, setupVars, fileVars, PowerOpen, ThreadStep, SemWait, DeboostLock,
         DeboostSleep, SleepOver, SleepInterrupted

LEMMA InitRefines == Init => Promise!Init
  BY DEF Init, Promise!Init

(* The power HAL implements the boost: however hints, thread, signals and  *)
(* deaths interleave, it is raised, extended and taken back as Boost says. *)
THEOREM PowerImplementsBoost == Spec => ImplementsBoost
<1>1. Init => HintsOrdered
  BY DEF Init, HintsOrdered
<1>2. IInv /\ HintsOrdered /\ [Next]_vars => [Promise!Next]_Promise!vars
  BY StepRefines DEF boostState, Posted, Promise!vars
<1> QED
  BY <1>1, <1>2, InitRefines, IInvHolds, NextHintsOrdered, PTL
     DEF Spec, ImplementsBoost, Promise!Spec
=============================================================================
