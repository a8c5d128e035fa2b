----------------------------- MODULE PowerHal -----------------------------
(***************************************************************************)
(* The power HAL (power/power_dragonboard.c): an interaction hint raises   *)
(* the schedtune boost of the top-app group, and a thread of the HAL       *)
(* lowers it again once the last hint is BoostTime old.                    *)
(*                                                                         *)
(* Hints and the thread share deboost_time under a mutex, and the first    *)
(* hint of a boost posts a semaphore the thread waits on.  The thread      *)
(* sleeps without the mutex.  The clock may tick between any two steps,    *)
(* each write to the sysfs file may fail, and the process may die at any   *)
(* step: it starts again with fresh memory, but the file keeps its value.  *)
(***************************************************************************)
EXTENDS Integers

CONSTANTS
  Clients,     \* threads of the power service that send hints
  BoostTime,   \* schedtune_boost_time_ns, in ticks
  Horizon,     \* bound: the clock stops here, and every sleep is over then
  MaxDeaths,   \* bound: how often the process dies
  Thread,      \* the deboost thread
  NULL

ASSUME PowerAssumption ==
  /\ BoostTime \in Nat /\ Horizon \in Nat /\ MaxDeaths \in Nat
  /\ Thread \notin Clients /\ NULL \notin Clients \cup {Thread}

VARIABLES
  phase,    \* "closed", "opened" (calloc'ed) or "running" (init has run)
  fd,       \* whether schedtune_boost_fd is open
  norm,     \* schedtune_boost_norm: what was read at init, or the default
  deboost_time, sem, lock,   \* the shared fields of the module
  boost,    \* what the sysfs file holds
  hint,     \* per client: next step of its hint, and the time it read (0: none)
  thread,   \* the deboost thread: next step, time it read, end of its sleep
  now,      \* CLOCK_MONOTONIC, never 0
  lastHint, \* history: the time read by the last interaction hint served
  lastWrite,\* history: result of this process's last write to the sysfs file
  deaths    \* how often the process has died

fileVars  == <<boost, lastWrite>>
setupVars == <<phase, fd, norm>>
vars == <<setupVars, deboost_time, sem, lock, fileVars, hint, thread, now, lastHint, deaths>>

Levels      == {"normal", "default", "interactive"}
HintSteps   == {"idle", "interaction", "other", "boost", "set", "unlock"}
ThreadSteps == {"none", "wait", "lock", "check", "sleep"}

Init ==
  /\ phase = "closed" /\ fd = FALSE /\ norm = "default"
  /\ deboost_time = 0 /\ sem = 0 /\ lock = NULL
  /\ boost = "normal" /\ lastWrite = "none"
  /\ hint = [c \in Clients |-> [pc |-> "idle", now |-> 0]]
  /\ thread = [pc |-> "none", now |-> 0, wake |-> 0]
  /\ now = 1 /\ lastHint = 0 /\ deaths = 0
-----------------------------------------------------------------------------
SlipLock(who) == lock' = who   \* the mutex is not waited for

Lock(who) == lock = NULL /\ lock' = who
Unlock    == lock' = NULL

(* schedtune_sysfs_boost: the caller does not look at the result.          *)
SysfsBoost(level) ==
  \/ boost' = level /\ lastWrite' = "done"
  \/ UNCHANGED boost /\ lastWrite' = "failed"

PowerOpen ==
  /\ phase = "closed" /\ phase' = "opened"
  /\ UNCHANGED <<fd, norm, deboost_time, sem, lock, fileVars, hint, thread, now, lastHint, deaths>>

SlipFirstToken == 0   \* nothing posted at init

FirstToken == 1

(* The semaphore starts with one token.  Without the file there is no      *)
(* thread.  What the file holds is taken for the normal value; a failed    *)
(* read leaves the default; pthread_create may fail and nobody notices.    *)
PowerInit ==
  /\ phase = "opened" /\ phase' = "running"
  /\ deboost_time' = 0 /\ sem' = FirstToken
  /\ \/ fd' = FALSE /\ UNCHANGED <<norm, thread>>
     \/ /\ fd' = TRUE
        /\ norm' \in {boost, "default"}
        /\ thread' \in {thread, [thread EXCEPT !.pc = "wait"]}
  /\ UNCHANGED <<lock, fileVars, hint, now, lastHint, deaths>>
-----------------------------------------------------------------------------
(* dragonboard_power_hint *)

HintGoto(c, label) == hint' = [hint EXCEPT ![c].pc = label]

(* The bound leaves time for the boost to end before the clock stops.      *)
HintCall(c) ==
  /\ phase = "running" /\ hint[c].pc = "idle" /\ now + BoostTime < Horizon
  /\ \E kind \in {"interaction", "other"} : HintGoto(c, kind)
  /\ UNCHANGED <<setupVars, deboost_time, sem, lock, fileVars, thread, now, lastHint, deaths>>

(* The mutex, then the time.  Other hints do nothing under the mutex, nor  *)
(* does an interaction hint without the file.  A hint that waited for the  *)
(* mutex until too close to the horizon is taken for another kind.         *)
HintLock(c) ==
  /\ Lock(c)
  /\ LET boosts == hint[c].pc = "interaction" /\ fd /\ now + BoostTime < Horizon
     IN \/ boosts /\ hint' = [hint EXCEPT ![c] = [pc |-> "boost", now |-> now]]
        \/ /\ hint[c].pc \in {"interaction", "other"} /\ ~boosts
           /\ HintGoto(c, "unlock")
  /\ UNCHANGED <<setupVars, deboost_time, sem, fileVars, thread, now, lastHint, deaths>>

SlipNotBoosted == TRUE   \* the test of line 128 dropped

NotBoosted == deboost_time = 0

HintBoost(c) ==
  /\ hint[c].pc = "boost"
  /\ \/ NotBoosted /\ SysfsBoost("interactive") /\ sem' = sem + 1
     \/ ~NotBoosted /\ UNCHANGED <<fileVars, sem>>
  /\ HintGoto(c, "set")
  /\ UNCHANGED <<setupVars, deboost_time, lock, thread, now, lastHint, deaths>>

HintSetDeadline(c) ==
  /\ hint[c].pc = "set"
  /\ deboost_time' = hint[c].now + BoostTime
  /\ lastHint' = hint[c].now
  /\ hint' = [hint EXCEPT ![c] = [pc |-> "unlock", now |-> 0]]
  /\ UNCHANGED <<setupVars, sem, lock, fileVars, thread, now, deaths>>

HintUnlock(c) ==
  /\ hint[c].pc = "unlock"
  /\ Unlock
  /\ HintGoto(c, "idle")
  /\ UNCHANGED <<setupVars, deboost_time, sem, fileVars, thread, now, lastHint, deaths>>
-----------------------------------------------------------------------------
(* schedtune_deboost_thread *)

SlipSemTake == sem' = sem - 1   \* the token is not waited for

SemTake == sem > 0 /\ sem' = sem - 1

SemWait ==
  /\ thread.pc = "wait" /\ SemTake
  /\ thread' = [thread EXCEPT !.pc = "lock"]
  /\ UNCHANGED <<setupVars, deboost_time, lock, fileVars, hint, now, lastHint, deaths>>

DeboostLock ==
  /\ thread.pc = "lock" /\ Lock(Thread)
  /\ thread' = [thread EXCEPT !.pc = "check", !.now = now]
  /\ UNCHANGED <<setupVars, deboost_time, sem, fileVars, hint, now, lastHint, deaths>>

SlipExpired == TRUE   \* the test of line 104 dropped

Expired == deboost_time <= thread.now

SlipToSleep == UNCHANGED lock   \* the unlock of line 106 forgotten

ToSleep == Unlock

(* The boost has been extended: unlock, then sleep for the rest of it.     *)
DeboostSleep ==
  /\ thread.pc = "check" /\ ~Expired
  /\ ToSleep
  /\ thread' = [pc |-> "sleep", now |-> 0, wake |-> now + deboost_time - thread.now]
  /\ UNCHANGED <<setupVars, deboost_time, sem, fileVars, hint, now, lastHint, deaths>>

SlipAfterSleep == "wait"   \* break instead of continue

AfterSleep == "lock"

SleepOver ==
  /\ thread.pc = "sleep" /\ (now >= thread.wake \/ now = Horizon)
  /\ thread' = [pc |-> AfterSleep, now |-> 0, wake |-> 0]
  /\ UNCHANGED <<setupVars, deboost_time, sem, lock, fileVars, hint, now, lastHint, deaths>>

(* A signal ends nanosleep early, and the remaining time is not asked for. *)
SleepInterrupted ==
  /\ thread.pc = "sleep" /\ now < thread.wake
  /\ thread' = [pc |-> AfterSleep, now |-> 0, wake |-> 0]
  /\ UNCHANGED <<setupVars, deboost_time, sem, lock, fileVars, hint, now, lastHint, deaths>>

SlipNoDeadline == deboost_time   \* the reset of line 112 forgotten

NoDeadline == 0

Deboost ==
  /\ thread.pc = "check" /\ Expired
  /\ SysfsBoost(norm)
  /\ deboost_time' = NoDeadline
  /\ Unlock
  /\ thread' = [pc |-> "wait", now |-> 0, wake |-> 0]
  /\ UNCHANGED <<setupVars, sem, hint, now, lastHint, deaths>>
-----------------------------------------------------------------------------
(* The process goes with its threads, mutex and memory; the file stays as  *)
(* it is.  What starts again is a module as it was loaded first.           *)
Die ==
  /\ phase # "closed" /\ deaths < MaxDeaths /\ deaths' = deaths + 1
  /\ phase' = "closed" /\ fd' = FALSE /\ norm' = "default"
  /\ deboost_time' = 0 /\ sem' = 0 /\ lock' = NULL
  /\ hint' = [c \in Clients |-> [pc |-> "idle", now |-> 0]]
  /\ thread' = [pc |-> "none", now |-> 0, wake |-> 0]
  /\ lastHint' = 0 /\ lastWrite' = "none"
  /\ UNCHANGED <<boost, now>>

Tick ==
  /\ now < Horizon /\ now' = now + 1
  /\ UNCHANGED <<setupVars, deboost_time, sem, lock, fileVars, hint, thread, lastHint, deaths>>

HintStep(c) == HintBoost(c) \/ HintSetDeadline(c) \/ HintUnlock(c)

ThreadStep == SemWait \/ DeboostLock \/ DeboostSleep \/ SleepOver \/ Deboost

Next ==
  \/ PowerOpen \/ PowerInit
  \/ \E c \in Clients : HintCall(c) \/ HintLock(c) \/ HintStep(c)
  \/ ThreadStep \/ SleepInterrupted
  \/ Die \/ Tick

(* Threads run, and a thread that waits for the mutex gets it if it is     *)
(* free over and over again.  Nobody has to send a hint, no signal has to  *)
(* come, and nobody has to start the process again.  Of the clock nothing  *)
(* is said here: what needs it (BoostEnds) says so.                        *)
Fairness ==
  /\ WF_vars(ThreadStep) /\ SF_vars(DeboostLock)
  /\ \A c \in Clients : WF_vars(HintStep(c)) /\ SF_vars(HintLock(c))

Spec     == Init /\ [][Next]_vars
FairSpec == Spec /\ Fairness
-----------------------------------------------------------------------------
(* Properties *)

TypeOK ==
  /\ phase \in {"closed", "opened", "running"}
  /\ fd \in BOOLEAN /\ norm \in Levels
  /\ deboost_time \in Nat /\ sem \in Nat
  /\ lock \in Clients \cup {Thread, NULL}
  /\ boost \in Levels /\ lastWrite \in {"none", "done", "failed"}
  /\ hint \in [Clients -> [pc : HintSteps, now : Nat]]
  /\ thread \in [pc : ThreadSteps, now : Nat, wake : Nat]
  /\ now \in Nat \ {0} /\ lastHint \in Nat /\ deaths \in 0..MaxDeaths

InPass == thread.pc \in {"lock", "check", "sleep"}

(* A deadline that is set always has somebody to act on it, and so has a   *)
(* boost that an earlier process left in the file: a token the thread will *)
(* find, or the thread on its way to look at the deadline.  The test and   *)
(* the post of a hint are not in one critical section with the thread's    *)
(* sem_wait, so this is what keeps a boost from staying on; for the boost  *)
(* of a dead process it is the token init puts into the semaphore.         *)
WakeupNotLost ==
  phase = "running" /\ (deboost_time # 0 \/ (boost = "interactive" /\ lastWrite = "none"))
    => sem > 0 \/ InPass

(* The semaphore does not run up: beside the token it starts with there is *)
(* one for a boost in progress and none otherwise, whether the writes of   *)
(* these boosts succeeded and whether there is a thread to take a token.   *)
TokensBounded ==
  LET posted == \E c \in Clients : hint[c].pc = "set"
      passes == sem + (IF InPass THEN 1 ELSE 0)
  IN passes <= 1 + (IF deboost_time # 0 \/ posted THEN 1 ELSE 0)

(* Whenever the mutex is free and this process's last write worked, the    *)
(* file holds the interactive value while a deadline is set and the value  *)
(* read at init otherwise: a boost that could not be written is not mended *)
(* before its deadline, but neither does it outlive the next one.          *)
FileFollowsDeadline ==
  lock = NULL /\ lastWrite = "done"
    => boost = (IF deboost_time # 0 THEN "interactive" ELSE norm)

(* The boost is taken back only BoostTime after the last hint served, even *)
(* when hints extend it while the thread sleeps or waits for the mutex,    *)
(* when a signal ends the sleep, or when a surplus token starts a pass.    *)
(* Only the boost of a process that died may go at once.                   *)
NoEarlyDeboost ==
  [][boost = "interactive" /\ boost' # "interactive" /\ lastHint # 0
       => now >= lastHint + BoostTime]_vars

(* The clients, the thread, the mutex and the semaphore together implement *)
(* the boost of module Boost: raised once by the first hint, extended by   *)
(* the others, and taken back after the deadline, never between the write  *)
(* of a hint and its deadline.                                             *)
Promise == INSTANCE Boost
  WITH level <- boost, base <- norm, due <- deboost_time, clock <- now,
       raising <- \E c \in Clients : hint[c].pc = "set"

ImplementsBoost == Promise!Spec

(* Once the hints stop a boost ends, one that a dead process left in the   *)
(* file included.  It does not if its last write fails (the code does not  *)
(* try again), if the thread was never created, if the process dies, or if *)
(* it took the boost for the normal value when it started (NormIsNormal).  *)
(* It takes a clock that moves.                                            *)
BoostEnds ==
  WF_vars(Tick) =>
    (boost = "interactive" /\ thread.pc # "none"
       ~> boost # "interactive" \/ lastWrite = "failed" \/ norm = "interactive" \/ phase = "closed")

(* Hints return, whatever the thread does and whether or not there is one, *)
(* and without any time having to pass: no hint waits for a sleep, which   *)
(* the thread spends without the mutex (line 106).                         *)
HintsReturn ==
  \A c \in Clients : hint[c].pc # "idle" ~> hint[c].pc = "idle"

(* What power_init calls the normal boost value (its log lines) is not the *)
(* value of a boost.  It is, when the process starts while the boost of an *)
(* earlier one is still in the file, and then the boost never ends.        *)
NormIsNormal == norm # "interactive"
=============================================================================
