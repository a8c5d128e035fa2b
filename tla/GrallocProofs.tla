--------------------------- MODULE GrallocProofs ---------------------------
(***************************************************************************)
(* Proofs that the safety properties of Gralloc hold for any number of     *)
(* threads, handles, buffer objects and usages, in any order of calls.     *)
(*                                                                         *)
(* The properties prove each other: the lock of a buffer is exclusive only *)
(* if what a call checked before the driver call still holds after it      *)
(* (ChecksStillHold), which in turn needs that no other handle reaches the *)
(* buffer (BoOwnership).  Their conjunction IInv is inductive.             *)
(***************************************************************************)
EXTENDS Gralloc, TLAPS

IInv == TypeOK /\ BoOwnership /\ CpuLockExclusive /\ OneDevice /\ ChecksStillHold
-----------------------------------------------------------------------------
(* The lock data a lock starts from is well typed, fresh or not.           *)
LEMMA DataOfType ==
  ASSUME TypeOK, NEW b \in Bos
  PROVE  DataOf(b) \in BoData
  BY DEF TypeOK, DataOf, FreshData, BoData

(* A granted lock leaves well-typed lock data.                             *)
LEMMA AfterLockType ==
  ASSUME NEW d \in BoData, NEW u \in SUBSET UsageBits
  PROVE  AfterLock(d, u) \in BoData
<1>1. (d.map_data \/ CpuNeeded(d, u)) \in BOOLEAN
  OBVIOUS
<1>2. d.lock_count + 1 \in Nat /\ (u \cup d.locked_for) \in SUBSET UsageBits
  BY DEF BoData
<1> QED BY <1>1, <1>2 DEF AfterLock, BoData

(* gbm_unmap clears the mapping of a CPU lock and nothing else.            *)
LEMMA AfterUnmapFields ==
  ASSUME NEW d \in BoData
  PROVE  /\ AfterUnmap(d) \in BoData
         /\ AfterUnmap(d).map_data <=> d.map_data /\ ~CpuLocked(d)
         /\ AfterUnmap(d).lock_count = d.lock_count
         /\ AfterUnmap(d).locked_for = d.locked_for
<1>1. (d.map_data /\ ~CpuLocked(d)) \in BOOLEAN
  OBVIOUS
<1> QED BY <1>1 DEF AfterUnmap, BoData

(* Decrementing leaves the mapping alone; the last unlock forgets the      *)
(* usage.                                                                  *)
LEMMA AfterUnlockFields ==
  ASSUME NEW d \in BoData, d.lock_count > 0
  PROVE  /\ AfterUnlock(d) \in BoData
         /\ AfterUnlock(d).map_data = d.map_data
         /\ AfterUnlock(d).lock_count = d.lock_count - 1
         /\ AfterUnlock(d).locked_for = IF d.lock_count = 1 THEN {} ELSE d.locked_for
<1> DEFINE n == d.lock_count - 1
           u == IF d.lock_count = 1 THEN {} ELSE d.locked_for
<1>1. n \in Nat /\ u \in SUBSET UsageBits
  BY DEF BoData
<1>2. AfterUnlock(d) = [d EXCEPT !.lock_count = n, !.locked_for = u]
  BY DEF AfterUnlock
<1> HIDE DEF n, u
<1>3. /\ AfterUnlock(d) \in BoData
      /\ AfterUnlock(d).map_data = d.map_data
      /\ AfterUnlock(d).lock_count = n
      /\ AfterUnlock(d).locked_for = u
  BY <1>1, <1>2 DEF BoData
<1> QED BY <1>3 DEF n, u

(* The holder of the mutex is the only thread between two steps of a body. *)
LEMMA OnlyHolder ==
  ASSUME IInv, NEW s \in Threads, mutex # s
  PROVE  pc[s] \in {"idle", "ready"}
  BY DEF IInv, ChecksStillHold, TypeOK, Labels

(* A thread moves on in its call, and the others stay where they are.      *)
LEMMA OneThreadMoves ==
  ASSUME IInv, NEW t \in Threads, NEW label, NEW call, Goto(t, label, call)
  PROVE  /\ pc'[t] = label /\ arg'[t] = call
         /\ \A s \in Threads \ {t} : pc'[s] = pc[s] /\ arg'[s] = arg[s]
         /\ label \in Labels => pc' \in [Threads -> Labels]
         /\ call \in Call \cup {NULL} => arg' \in [Threads -> Call \cup {NULL}]
  BY DEF Goto, IInv, TypeOK

(* What ChecksStillHold says of one thread.                                *)
ChecksOf(t) ==
  LET h == arg[t].h
      d == boData[boMap[h]]
  IN /\ pc[t] # "idle" => arg[t] \in Call
     /\ pc[t] \in {"create", "import", "map", "dec"} => mutex = t
     /\ pc[t] = "create" => gbm = "NULL"
     /\ pc[t] = "import" => h \in Handles /\ boMap[h] = Absent
     /\ pc[t] \in {"map", "dec"} => h \in Handles /\ boMap[h] \in Bos /\ d # NULL
     /\ pc[t] = "map" => arg[t].usage \in Usages /\ Compatible(d, arg[t].usage)
     /\ pc[t] = "dec" => d.lock_count > 0 /\ ~d.map_data

LEMMA ChecksOfEach == ChecksStillHold <=> \A t \in Threads : ChecksOf(t)
  BY DEF ChecksStillHold, ChecksOf

LEMMA ChecksOfEachAfter == ChecksStillHold' <=> \A t \in Threads : ChecksOf(t)'
  BY DEF ChecksStillHold, ChecksOf

(* No check is outstanding while no thread is in the middle of a body.     *)
LEMMA NobodyChecks ==
  ASSUME \A s \in Threads : pc'[s] \in {"idle", "ready"},
         \A s \in Threads : pc'[s] # "idle" => arg'[s] \in Call
  PROVE  ChecksStillHold'
  BY DEF ChecksStillHold

(* A call enters a body with its checks done, and no other is in one.      *)
LEMMA EntersChecks ==
  ASSUME IInv, mutex = NULL, NEW t \in Threads, NEW label \in Labels, NEW call \in Call,
         Goto(t, label, call), mutex' = t,
         label = "create" => gbm' = "NULL",
         label = "import" => call.h \in Handles /\ boMap'[call.h] = Absent,
         label \in {"map", "dec"} =>
           call.h \in Handles /\ boMap'[call.h] \in Bos /\ boData'[boMap'[call.h]] # NULL,
         label = "map" =>
           call.usage \in Usages /\ Compatible(boData'[boMap'[call.h]], call.usage),
         label = "dec" =>
           boData'[boMap'[call.h]].lock_count > 0 /\ ~boData'[boMap'[call.h]].map_data
  PROVE  ChecksStillHold'
<1>1. \A s \in Threads : pc[s] \in {"idle", "ready"} /\ (pc[s] # "idle" => arg[s] \in Call)
  BY OnlyHolder, GrallocAssumption DEF IInv, ChecksStillHold
<1>2. ASSUME NEW s \in Threads \ {t} PROVE ChecksOf(s)'
  <2>1. pc'[s] \in {"idle", "ready"} /\ (pc'[s] # "idle" => arg'[s] \in Call)
    BY <1>1, OneThreadMoves
  <2> QED BY <2>1 DEF ChecksOf
<1>3. ChecksOf(t)'
  <2>1. pc'[t] = label /\ arg'[t] = call
    BY OneThreadMoves
  <2> QED BY <2>1 DEF ChecksOf
<1> QED BY <1>2, <1>3, ChecksOfEachAfter

(* A call leaves the body it was in, if any, while no other is in one.     *)
LEMMA LeavesChecks ==
  ASSUME IInv, NEW t \in Threads, mutex \in {NULL, t}, NEW label \in {"idle", "ready"}, NEW call,
         label = "ready" => call \in Call, Goto(t, label, call)
  PROVE  ChecksStillHold'
<1>1. \A s \in Threads \ {t} : pc[s] \in {"idle", "ready"}
  BY OnlyHolder, GrallocAssumption
<1>2. \A s \in Threads : pc[s] # "idle" => arg[s] \in Call
  BY DEF IInv, ChecksStillHold
<1> QED BY <1>1, <1>2, OneThreadMoves, NobodyChecks

(* A step outside the bodies that leaves what they checked as it was.      *)
LEMMA ChecksUndisturbed ==
  ASSUME IInv, UNCHANGED <<mutex, boMap, boData>>, gbm = "NULL" => gbm' = "NULL",
         \/ UNCHANGED callVars
         \/ \E t \in Threads : pc[t] \in {"idle", "ready"} /\ Return(t)
  PROVE  ChecksStillHold'
<1>1. \A s \in Threads : pc'[s] # "idle" => pc'[s] = pc[s] /\ arg'[s] = arg[s]
  <2>1. CASE UNCHANGED callVars
    BY <2>1 DEF callVars
  <2>2. ASSUME NEW t \in Threads, Return(t)
        PROVE  \A s \in Threads : pc'[s] # "idle" => pc'[s] = pc[s] /\ arg'[s] = arg[s]
    BY <2>2, OneThreadMoves DEF Return
  <2> QED BY <2>1, <2>2
<1>2. ASSUME NEW s \in Threads PROVE ChecksOf(s)'
  <2>1. CASE pc'[s] = "idle"
    BY <2>1 DEF ChecksOf
  <2>2. CASE pc'[s] # "idle"
    <3>1. ChecksOf(s)
      BY ChecksOfEach DEF IInv
    <3>2. pc'[s] = pc[s] /\ arg'[s] = arg[s]
      BY <1>1, <2>2
    <3> QED BY <3>1, <3>2 DEF ChecksOf
  <2> QED BY <2>1, <2>2
<1> QED BY <1>2, ChecksOfEachAfter

(* A step that touches no buffer and starts or ends no unlock leaves the   *)
(* buffers and their locks in order.                                       *)
LEMMA BuffersKept ==
  ASSUME IInv, UNCHANGED bufVars,
         \/ UNCHANGED callVars
         \/ \E t \in Threads, label \in Labels \ {"dec"}, call \in Call \cup {NULL} :
              pc[t] # "dec" /\ Goto(t, label, call)
  PROVE  BoOwnership' /\ CpuLockExclusive'
<1>1. \A s \in Threads : pc'[s] = "dec" <=> pc[s] = "dec"
  BY OneThreadMoves DEF callVars
<1>2. \A s \in Threads : pc[s] = "dec" => arg'[s] = arg[s]
  BY OneThreadMoves DEF callVars
<1>3. \A b \in Bos : Unmapping(b)' <=> Unmapping(b)
  BY <1>1, <1>2 DEF Unmapping, bufVars
<1>4. BoOwnership'
  BY DEF IInv, BoOwnership, bufVars
<1>5. CpuLockExclusive'
  BY <1>3 DEF IInv, CpuLockExclusive, CpuLocked, bufVars
<1> QED BY <1>4, <1>5

(* An imported or created buffer object is new, so no other handle has it; *)
(* a key that is already there keeps its own.                              *)
LEMMA NewBuffer ==
  ASSUME IInv, NEW h \in Handles, NEW b \in Bos \ boLive,
         boLive' = boLive \cup {b}, boMap' = MapAfterEmplace(h, b), UNCHANGED boData,
         \A s \in Threads : pc[s] # "dec" /\ pc'[s] # "dec"
  PROVE  /\ boMap' \in [Handles -> Bos \cup {NULL, Absent}] /\ boLive' \subseteq Bos
         /\ BoOwnership' /\ CpuLockExclusive'
<1>1. boMap' \in [Handles -> Bos \cup {NULL, Absent}] /\ boLive' \subseteq Bos
  BY DEF IInv, TypeOK, MapAfterEmplace
<1>2. \A k \in Handles : boMap'[k] = boMap[k] \/ (k = h /\ boMap'[k] = b)
  BY DEF IInv, TypeOK, MapAfterEmplace
<1>3. \A k \in Handles : boMap[k] # b
  BY DEF IInv, BoOwnership
<1>4. BoOwnership'
  <2>1. \A k \in Handles : boMap'[k] \in Bos => boMap'[k] \in boLive'
    BY <1>2 DEF IInv, BoOwnership
  <2>2. \A k, l \in Handles : boMap'[k] = boMap'[l] /\ boMap'[k] \in Bos => k = l
    BY <1>2, <1>3 DEF IInv, BoOwnership
  <2>3. \A c \in Bos \ boLive' : boData'[c] = NULL
    BY DEF IInv, BoOwnership
  <2> QED BY <2>1, <2>2, <2>3 DEF BoOwnership
<1>5. CpuLockExclusive'
  <2>1. \A c \in Bos : ~Unmapping(c) /\ ~Unmapping(c)'
    BY DEF Unmapping
  <2> QED BY <2>1 DEF IInv, CpuLockExclusive, CpuLocked
<1> QED BY <1>1, <1>4, <1>5

(* Destroying a buffer object leaves those of the other handles alone.     *)
LEMMA FreedBuffer ==
  ASSUME IInv, NEW h \in Handles, GbmFree(h),
         \A s \in Threads : pc[s] # "dec" /\ pc'[s] # "dec"
  PROVE  /\ boMap' \in [Handles -> Bos \cup {NULL, Absent}] /\ boLive' \subseteq Bos
         /\ boData' \in [Bos -> BoData \cup {NULL}]
         /\ BoOwnership' /\ CpuLockExclusive'
<1>1. \A c \in Bos : ~Unmapping(c) /\ ~Unmapping(c)'
  BY DEF Unmapping
<1>2. CASE boMap' = MapAfterLookup(h) /\ UNCHANGED <<boLive, boData>>
  <2>1. boMap' \in [Handles -> Bos \cup {NULL, Absent}]
    BY <1>2 DEF IInv, TypeOK, MapAfterLookup
  <2>2. \A k \in Handles : boMap'[k] = boMap[k] \/ boMap'[k] = NULL
    BY <1>2 DEF IInv, TypeOK, MapAfterLookup
  <2>3. BoOwnership'
    BY <1>2, <2>2, GrallocAssumption DEF IInv, BoOwnership
  <2>4. CpuLockExclusive'
    BY <1>1, <1>2 DEF IInv, CpuLockExclusive, CpuLocked
  <2> QED BY <1>2, <2>1, <2>3, <2>4 DEF IInv, TypeOK
<1>3. CASE /\ boMap[h] \in Bos /\ boMap' = MapAfterErase(h)
           /\ boLive' = boLive \ {boMap[h]}
           /\ boData' = [boData EXCEPT ![boMap[h]] = NULL]
  <2>1. boMap' \in [Handles -> Bos \cup {NULL, Absent}] /\ boLive' \subseteq Bos
    BY <1>3 DEF IInv, TypeOK, MapAfterErase
  <2>2. boMap'[h] = Absent /\ \A k \in Handles \ {h} : boMap'[k] = boMap[k]
    BY <1>3 DEF IInv, TypeOK, MapAfterErase
  <2>3. boData' \in [Bos -> BoData \cup {NULL}]
    BY <1>3 DEF IInv, TypeOK
  <2>4. boData'[boMap[h]] = NULL /\ \A c \in Bos \ {boMap[h]} : boData'[c] = boData[c]
    BY <1>3 DEF IInv, TypeOK
  <2>5. \A k \in Handles : boMap'[k] \in Bos => boMap'[k] \in boLive'
    BY <1>3, <2>2, GrallocAssumption DEF IInv, BoOwnership
  <2>6. \A k, l \in Handles : boMap'[k] = boMap'[l] /\ boMap'[k] \in Bos => k = l
    BY <2>2, GrallocAssumption DEF IInv, BoOwnership
  <2>7. \A c \in Bos \ boLive' : boData'[c] = NULL
    BY <1>3, <2>4 DEF IInv, BoOwnership
  <2>8. CpuLockExclusive'
    BY <1>1, <1>3, <2>4 DEF IInv, CpuLockExclusive, CpuLocked
  <2> QED BY <2>1, <2>3, <2>5, <2>6, <2>7, <2>8 DEF BoOwnership
<1> QED BY <1>2, <1>3 DEF GbmFree
-----------------------------------------------------------------------------
(* Initially there is no device, no buffer and no call.                    *)
LEMMA InitIInv == Init => IInv
<1> SUFFICES ASSUME Init PROVE IInv
  OBVIOUS
<1> USE GrallocAssumption DEF Init
<1>1. TypeOK
  BY DEF TypeOK, Labels
<1>2. BoOwnership /\ OneDevice
  BY DEF BoOwnership, OneDevice
<1>3. CpuLockExclusive /\ ChecksStillHold
  BY DEF CpuLockExclusive, ChecksStillHold
<1> QED BY <1>1, <1>2, <1>3 DEF IInv

(* A fault stops the process and leaves its state as it was.               *)
LEMMA CrashStep ==
  ASSUME IInv, NEW kind \in {"use_after_destroy", "null_deref"}, Crash(kind)
  PROVE  IInv'
<1>1. TypeOK' /\ OneDevice'
  BY DEF Crash, devVars, bufVars, callVars, IInv, TypeOK, OneDevice
<1>2. BoOwnership' /\ CpuLockExclusive'
  BY BuffersKept DEF Crash
<1>3. ChecksStillHold'
  BY ChecksUndisturbed DEF Crash, devVars, bufVars
<1> QED BY <1>1, <1>2, <1>3 DEF IInv

(* A call looks at dmod->gbm and keeps the mutex if the device is missing. *)
LEMMA GbmInitStep ==
  ASSUME IInv, NEW t \in Threads, NEW call \in Call, GbmInit(t, call)
  PROVE  IInv'
<1>1. /\ pc[t] = "idle" /\ mutex = NULL
      /\ UNCHANGED <<gbm, nDev, allocDevs, handle, boMap, boLive, boData, fault>>
  BY DEF GbmInit, Start, Enter, Critical, devVars, bufVars, NoCrash
<1>2. PICK label \in {"create", "ready"} :
         /\ Goto(t, label, call)
         /\ label = "create" => gbm = "NULL" /\ mutex' = t
         /\ label = "ready" => gbm # "NULL" /\ UNCHANGED mutex
  BY DEF GbmInit, Enter, Critical
<1>3. TypeOK'
  BY <1>1, <1>2, OneThreadMoves DEF IInv, TypeOK, Labels
<1>4. BoOwnership' /\ CpuLockExclusive'
  <2>1. label \in Labels \ {"dec"} /\ pc[t] # "dec"
    BY <1>1 DEF Labels
  <2> QED BY <1>1, <1>2, <2>1, BuffersKept DEF bufVars
<1>5. OneDevice'
  BY <1>1, <1>2, OneThreadMoves DEF IInv, OneDevice
<1>6. ChecksStillHold'
  <2>1. CASE label = "ready"
    BY <1>1, <1>2, <2>1, LeavesChecks
  <2>2. CASE label = "create"
    <3>1. label \in Labels
      BY <2>2 DEF Labels
    <3> QED BY <1>1, <1>2, <2>2, <3>1, EntersChecks
  <2> QED BY <2>1, <2>2
<1> QED BY <1>3, <1>4, <1>5, <1>6 DEF IInv

(* The device is created only where it was missing.                        *)
LEMMA GbmDevCreateStep ==
  ASSUME IInv, NEW t \in Threads, NEW e \in Codes, GbmDevCreate(t, e)
  PROVE  IInv'
<1>1. /\ pc[t] = "create" /\ mutex = t /\ gbm = "NULL" /\ arg[t] \in Call
      /\ mutex' = NULL /\ UNCHANGED <<allocDevs, handle, boMap, boLive, boData, fault>>
  BY DEF GbmDevCreate, Leave, bufVars, NoCrash, IInv, ChecksStillHold
<1>2. PICK label \in {"idle", "ready"}, call \in Call \cup {NULL} :
         /\ Goto(t, label, call)
         /\ label = "ready" => call \in Call /\ gbm' = "live" /\ nDev' = nDev + 1
         /\ label = "idle" => UNCHANGED <<gbm, nDev>>
  BY <1>1 DEF GbmDevCreate, Return
<1>3. TypeOK'
  BY <1>1, <1>2, OneThreadMoves DEF IInv, TypeOK, Labels
<1>4. BoOwnership' /\ CpuLockExclusive'
  <2>1. label \in Labels \ {"dec"} /\ pc[t] # "dec"
    BY <1>1 DEF Labels
  <2> QED BY <1>1, <1>2, <2>1, BuffersKept DEF bufVars
<1>5. OneDevice'
  BY <1>1, <1>2, OneThreadMoves DEF IInv, OneDevice
<1>6. ChecksStillHold'
  BY <1>1, <1>2, LeavesChecks
<1> QED BY <1>3, <1>4, <1>5, <1>6 DEF IInv

(* A call outside the bodies returns and leaves the device as it was.      *)
LEMMA ReturnStep ==
  ASSUME IInv, NEW t \in Threads, pc[t] = "ready", Return(t),
         UNCHANGED <<mutex, gbm, nDev, handle, boMap, boLive, boData, fault>>,
         allocDevs' = allocDevs \/ allocDevs' = allocDevs + 1
  PROVE  IInv'
<1>1. TypeOK'
  BY OneThreadMoves DEF Return, IInv, TypeOK, Labels
<1>2. BoOwnership' /\ CpuLockExclusive'
  <2>1. "idle" \in Labels \ {"dec"} /\ pc[t] # "dec" /\ Goto(t, "idle", NULL)
    BY DEF Labels, Return
  <2> QED BY <2>1, BuffersKept DEF bufVars
<1>3. OneDevice'
  BY OneThreadMoves DEF Return, IInv, OneDevice
<1>4. ChecksStillHold'
  BY ChecksUndisturbed
<1> QED BY <1>1, <1>2, <1>3, <1>4 DEF IInv

(* open returns a new gralloc device.                                      *)
LEMMA OpenGpu0Step ==
  ASSUME IInv, NEW t \in Threads, OpenGpu0(t)
  PROVE  IInv'
  BY ReturnStep DEF OpenGpu0, bufVars, NoCrash

(* perform reads the device and changes nothing.                           *)
LEMMA PerformStep ==
  ASSUME IInv, NEW t \in Threads, NEW e \in Codes, Perform(t, e)
  PROVE  IInv'
<1>1. CASE Crash("use_after_destroy")
  BY <1>1, CrashStep
<1>2. CASE Return(t) /\ UNCHANGED <<mutex, devVars, handle, bufVars>> /\ NoCrash
  BY <1>2, ReturnStep DEF Perform, devVars, bufVars, NoCrash
<1> QED BY <1>1, <1>2 DEF Perform

(* close destroys the device even while other threads hold the mutex: a    *)
(* device exists then, so none of them is creating one.                    *)
LEMMA CloseGpu0Step ==
  ASSUME IInv, NEW t \in Threads, CloseGpu0(t)
  PROVE  IInv'
<1>1. CASE Crash("use_after_destroy")
  BY <1>1, CrashStep
<1>2. CASE /\ allocDevs > 0 /\ gbm # "destroyed"
           /\ gbm' = "destroyed" /\ nDev' = nDev - 1 /\ allocDevs' = allocDevs - 1
           /\ UNCHANGED <<mutex, handle, bufVars, callVars, fault>>
  <2>1. gbm = "live" /\ nDev = 1
    BY <1>2 DEF IInv, TypeOK, OneDevice
  <2>2. TypeOK'
    BY <1>2, <2>1 DEF bufVars, callVars, IInv, TypeOK
  <2>3. OneDevice'
    BY <1>2, <2>1 DEF callVars, IInv, OneDevice
  <2>4. BoOwnership' /\ CpuLockExclusive'
    BY <1>2, BuffersKept
  <2>5. ChecksStillHold'
    BY <1>2, <2>1, ChecksUndisturbed DEF bufVars
  <2> QED BY <2>2, <2>3, <2>4, <2>5 DEF IInv
<1> QED BY <1>1, <1>2 DEF CloseGpu0, NoCrash

(* An import enters a buffer of its own, or fails and leaves the map alone. *)
LEMMA RegisterImportStep ==
  ASSUME IInv, NEW t \in Threads, NEW e \in Codes, RegisterImport(t, e)
  PROVE  IInv'
<1>1. pc[t] = "import" /\ mutex = t /\ arg[t].h \in Handles
  BY DEF RegisterImport, IInv, ChecksStillHold
<1>2. CASE Crash("use_after_destroy")
  BY <1>2, CrashStep
<1>3. ASSUME Leave, Return(t), UNCHANGED <<gbm, nDev, allocDevs, handle, boData, fault>>,
             \/ UNCHANGED <<boMap, boLive>>
             \/ \E b \in Bos \ boLive :
                  boLive' = boLive \cup {b} /\ boMap' = MapAfterEmplace(arg[t].h, b)
      PROVE  IInv'
  <2>1. /\ mutex' = NULL /\ Goto(t, "idle", NULL) /\ "idle" \in Labels \ {"dec"}
        /\ \A s \in Threads : pc[s] # "dec" /\ pc'[s] # "dec"
    BY <1>1, <1>3, OnlyHolder, OneThreadMoves DEF Leave, Return, Labels
  <2>2. /\ boMap' \in [Handles -> Bos \cup {NULL, Absent}] /\ boLive' \subseteq Bos
        /\ BoOwnership' /\ CpuLockExclusive'
    <3>1. CASE UNCHANGED <<boMap, boLive>>
      BY <1>1, <1>3, <2>1, <3>1, BuffersKept DEF bufVars, IInv, TypeOK
    <3>2. ASSUME NEW b \in Bos \ boLive,
                 boLive' = boLive \cup {b}, boMap' = MapAfterEmplace(arg[t].h, b)
          PROVE  /\ boMap' \in [Handles -> Bos \cup {NULL, Absent}] /\ boLive' \subseteq Bos
                 /\ BoOwnership' /\ CpuLockExclusive'
      BY <1>1, <1>3, <2>1, <3>2, NewBuffer
    <3> QED BY <1>3, <3>1, <3>2
  <2>3. TypeOK'
    BY <1>3, <2>1, <2>2, OneThreadMoves DEF IInv, TypeOK
  <2>4. OneDevice'
    BY <1>3, <2>1, OneThreadMoves DEF IInv, OneDevice
  <2>5. ChecksStillHold'
    BY <1>1, <2>1, LeavesChecks
  <2> QED BY <2>2, <2>3, <2>4, <2>5 DEF IInv
<1> QED BY <1>2, <1>3 DEF RegisterImport, devVars, bufVars, NoCrash

(* A call whose whole body is one action finds no other call in a body, so *)
(* that it may change the buffers and the handles.                         *)
LEMMA WholeBodyStep ==
  ASSUME IInv, mutex = NULL, UNCHANGED <<mutex, gbm, nDev, allocDevs, pc, arg, fault>>,
         handle' \in [Handles -> Native \cup {NULL}],
         boMap' \in [Handles -> Bos \cup {NULL, Absent}], boLive' \subseteq Bos,
         boData' \in [Bos -> BoData \cup {NULL}],
         BoOwnership', CpuLockExclusive'
  PROVE  IInv'
<1>1. TypeOK' /\ OneDevice'
  BY DEF IInv, TypeOK, OneDevice
<1>2. ChecksStillHold'
  <2>1. \A s \in Threads : pc[s] \in {"idle", "ready"} /\ (pc[s] # "idle" => arg[s] \in Call)
    BY OnlyHolder, GrallocAssumption DEF IInv, ChecksStillHold
  <2> QED BY <2>1, NobodyChecks
<1> QED BY <1>1, <1>2 DEF IInv

(* Unregister and Free destroy at most the handle's own buffer.            *)
LEMMA UnregisterStep ==
  ASSUME IInv, NEW t \in Threads, NEW h \in Handles, Unregister(t, h) \/ Free(t, h)
  PROVE  IInv'
<1>1. CASE Crash("use_after_destroy")
  BY <1>1, CrashStep
<1>2. CASE /\ mutex = NULL /\ GbmFree(h) /\ handle' \in [Handles -> Native \cup {NULL}]
           /\ UNCHANGED <<mutex, gbm, nDev, allocDevs, pc, arg, fault>>
  <2>1. \A s \in Threads : pc[s] # "dec" /\ pc'[s] # "dec"
    BY <1>2, OnlyHolder, GrallocAssumption
  <2> QED BY <1>2, <2>1, FreedBuffer, WholeBodyStep
<1>3. handle \in [Handles -> Native \cup {NULL}]
  BY DEF IInv, TypeOK
<1> QED BY <1>1, <1>2, <1>3 DEF Unregister, Free, Critical, devVars, callVars, NoCrash

(* Alloc makes at most one handle and one buffer, both new.                *)
LEMMA AllocStep ==
  ASSUME IInv, NEW t \in Threads, NEW h \in Handles, NEW u \in Usages,
         NEW e \in Codes, Alloc(t, h, u, e)
  PROVE  IInv'
<1>1. mutex = NULL /\ UNCHANGED mutex
  BY DEF Alloc, Critical
<1>2. CASE Crash("use_after_destroy")
  BY <1>2, CrashStep
<1>3. CASE UNCHANGED <<devVars, handle, bufVars, callVars, fault>>
  <2>1. BoOwnership' /\ CpuLockExclusive'
    BY <1>3, BuffersKept
  <2> QED BY <1>1, <1>3, <2>1, WholeBodyStep DEF devVars, bufVars, callVars, IInv, TypeOK
<1>4. ASSUME NEW b \in Bos \ boLive,
             handle' = [handle EXCEPT ![h] = [origin |-> "local", usage |-> u]],
             boLive' = boLive \cup {b}, boMap' = MapAfterEmplace(h, b),
             UNCHANGED <<gbm, nDev, allocDevs, boData, pc, arg, fault>>
      PROVE  IInv'
  <2>1. \A s \in Threads : pc[s] # "dec" /\ pc'[s] # "dec"
    BY <1>1, <1>4, OnlyHolder, GrallocAssumption
  <2>2. [origin |-> "local", usage |-> u] \in Native
    BY GrallocAssumption DEF Native
  <2>3. handle' \in [Handles -> Native \cup {NULL}] /\ boData' \in [Bos -> BoData \cup {NULL}]
    BY <1>4, <2>2 DEF IInv, TypeOK
  <2> QED BY <1>1, <1>4, <2>1, <2>3, NewBuffer, WholeBodyStep
<1> QED BY <1>2, <1>3, <1>4 DEF Alloc, devVars, callVars, NoCrash

(* A handle that arrives or is deleted is not looked at by any call in     *)
(* progress.                                                               *)
LEMMA HandleStep ==
  ASSUME IInv, NEW h \in Handles, DeleteHandle(h) \/ \E u \in Usages : ReceiveHandle(h, u)
  PROVE  IInv'
<1>1. UNCHANGED <<mutex, devVars, bufVars, callVars, fault>>
  BY DEF DeleteHandle, ReceiveHandle, NoCrash
<1>2. handle' \in [Handles -> Native \cup {NULL}]
  BY GrallocAssumption DEF DeleteHandle, ReceiveHandle, Native, IInv, TypeOK
<1>3. TypeOK' /\ OneDevice'
  BY <1>1, <1>2 DEF devVars, bufVars, callVars, IInv, TypeOK, OneDevice
<1>4. BoOwnership' /\ CpuLockExclusive'
  BY <1>1, BuffersKept
<1>5. ChecksStillHold'
  BY <1>1, ChecksUndisturbed DEF devVars, bufVars
<1> QED BY <1>3, <1>4, <1>5 DEF IInv

(* register after gbm_init: the key is absent when the import begins.      *)
LEMMA RegisterCheckStep ==
  ASSUME IInv, NEW t \in Threads, NEW e \in Codes, RegisterCheck(t, e)
  PROVE  IInv'
<1>1. /\ pc[t] = "ready" /\ mutex = NULL /\ arg[t] \in Call
      /\ UNCHANGED <<gbm, nDev, allocDevs, handle, boMap, boLive, boData, fault>>
  BY DEF RegisterCheck, Enter, Critical, devVars, bufVars, NoCrash, IInv, ChecksStillHold
<1>2. PICK label \in {"idle", "import"}, call \in Call \cup {NULL} :
         /\ Goto(t, label, call)
         /\ label = "idle" => UNCHANGED mutex
         /\ label = "import" => /\ mutex' = t /\ call = arg[t]
                                /\ arg[t].h # NULL /\ boMap[arg[t].h] = Absent
  BY <1>1 DEF RegisterCheck, Return, Enter, Critical
<1>3. TypeOK'
  BY <1>1, <1>2, OneThreadMoves DEF IInv, TypeOK, Labels
<1>4. BoOwnership' /\ CpuLockExclusive'
  <2>1. label \in Labels \ {"dec"} /\ pc[t] # "dec"
    BY <1>1 DEF Labels
  <2> QED BY <1>1, <1>2, <2>1, BuffersKept DEF bufVars
<1>5. OneDevice'
  BY <1>1, <1>2, OneThreadMoves DEF IInv, OneDevice
<1>6. ChecksStillHold'
  <2>1. CASE label = "idle"
    BY <1>1, <1>2, <2>1, LeavesChecks
  <2>2. CASE label = "import"
    <3>1. label \in Labels /\ call \in Call /\ call.h \in Handles /\ boMap'[call.h] = Absent
      BY <1>1, <1>2, <2>2 DEF Labels, Call
    <3> QED BY <1>1, <1>2, <2>2, <3>1, EntersChecks
  <2> QED BY <2>1, <2>2
<1> QED BY <1>3, <1>4, <1>5, <1>6 DEF IInv


(* The first step of a lock changes the map (a missing key is inserted),   *)
(* or attaches fresh lock data and may keep the mutex, or changes nothing. *)
LEMMA LockEnterStep ==
  ASSUME IInv, NEW t \in Threads, NEW h \in Handles, NEW u \in Usages, NEW e \in Codes,
         LockEnter(t, h, u, e)
  PROVE  IInv'
<1> DEFINE b == boMap[h]
           call == [op |-> "lock", h |-> h, usage |-> u]
<1>1. /\ mutex = NULL /\ pc[t] = "idle"
      /\ UNCHANGED <<gbm, nDev, allocDevs, handle, boLive, fault>>
  BY DEF LockEnter, Start, Enter, Critical, devVars, NoCrash
<1>2. \A s \in Threads : pc[s] \in {"idle", "ready"}
  BY <1>1, OnlyHolder, GrallocAssumption
<1>3. call \in Call
  BY GrallocAssumption DEF Call, Ops
<1>4. CASE /\ boMap' = MapAfterLookup(h)
           /\ UNCHANGED <<mutex, boData, pc, arg>>
  <2> USE DEF IInv
  <2>1. TypeOK'
    BY <1>1, <1>4 DEF TypeOK, MapAfterLookup
  <2>2. BoOwnership'
    BY <1>1, <1>4, GrallocAssumption DEF BoOwnership, TypeOK, MapAfterLookup
  <2>3. CpuLockExclusive'
    BY <1>1, <1>2, <1>4 DEF CpuLockExclusive, Unmapping, CpuLocked
  <2>4. OneDevice'
    BY <1>1, <1>4 DEF OneDevice
  <2>5. ChecksStillHold'
    BY <1>1, <1>2, <1>4 DEF ChecksStillHold
  <2> QED BY <2>1, <2>2, <2>3, <2>4, <2>5
<1>5. CASE /\ b \in Bos
           /\ boData' = [boData EXCEPT ![b] = DataOf(b)]
           /\ UNCHANGED boMap
           /\ \/ UNCHANGED <<mutex, pc, arg>>
              \/ /\ Compatible(DataOf(b), u) /\ mutex' = t
                 /\ pc' = [pc EXCEPT ![t] = "map"] /\ arg' = [arg EXCEPT ![t] = call]
  <2>1. DataOf(b) \in BoData /\ DataOf(b) # NULL
    BY <1>5, DataOfType, GrallocAssumption DEF IInv
  <2>2. \A c \in Bos : ~Unmapping(c) /\ ~Unmapping(c)'
    BY <1>1, <1>2, <1>5 DEF Unmapping, IInv, TypeOK
  <2> HIDE DEF call
  <2>3. TypeOK'
    BY <1>1, <1>3, <1>5, <2>1 DEF IInv, TypeOK, Labels
  <2>4. BoOwnership'
    BY <1>1, <1>5, <2>1 DEF IInv, BoOwnership, TypeOK
  <2>5. CpuLockExclusive'
    <3> SUFFICES ASSUME NEW c \in Bos, boData'[c] # NULL
                 PROVE  /\ boData'[c].map_data <=> CpuLocked(boData'[c]) /\ ~Unmapping(c)'
                        /\ CpuLocked(boData'[c]) => boData'[c].lock_count = 1
                        /\ boData'[c].lock_count = 0 => boData'[c].locked_for = {}
      BY DEF CpuLockExclusive, CpuLocked
    <3>1. CASE boData[c] # NULL
      <4>1. boData'[c] = boData[c]
        BY <1>5, <3>1 DEF IInv, TypeOK, DataOf
      <4> QED BY <2>2, <3>1, <4>1 DEF IInv, CpuLockExclusive, CpuLocked
    <3>2. CASE boData[c] = NULL
      <4>1. boData'[c] = FreshData
        BY <1>5, <3>2 DEF IInv, TypeOK, DataOf
      <4> QED BY <2>2, <4>1 DEF CpuLocked, FreshData
    <3> QED BY <3>1, <3>2
  <2>6. OneDevice'
    BY <1>1, <1>5 DEF IInv, OneDevice, TypeOK
  <2>7. ChecksStillHold'
    <3>1. CASE UNCHANGED <<mutex, pc, arg>>
      <4>1. \A s \in Threads : pc[s] # "idle" => arg[s] \in Call
        BY DEF IInv, ChecksStillHold
      <4> QED BY <1>2, <3>1, <4>1, NobodyChecks
    <3>2. ASSUME Goto(t, "map", call), mutex' = t, Compatible(DataOf(b), u)
          PROVE  ChecksStillHold'
      <4>1. boData'[b] = DataOf(b) /\ boMap'[h] = b /\ "map" \in Labels
        BY <1>5 DEF IInv, TypeOK, Labels
      <4>2. call.h = h /\ call.usage = u
        BY DEF call
      <4> HIDE DEF b
      <4> QED BY <1>1, <1>3, <1>5, <2>1, <3>2, <4>1, <4>2, EntersChecks
    <3> QED BY <1>5, <3>1, <3>2 DEF Goto
  <2> QED BY <2>3, <2>4, <2>5, <2>6, <2>7 DEF IInv
<1>6. CASE UNCHANGED <<boMap, boData, mutex, pc, arg>>
  <2>1. BoOwnership' /\ CpuLockExclusive'
    BY <1>1, <1>6, BuffersKept DEF bufVars, callVars
  <2> QED BY <1>1, <1>6, <2>1, WholeBodyStep DEF IInv, TypeOK
<1> QED
  BY <1>4, <1>5, <1>6 DEF LockEnter, Critical, callVars, Enter, Goto

(* The second step of a lock: with the compatibility it was checked for, a *)
(* lock that maps can only be the first.                                   *)
LEMMA LockMapStep ==
  ASSUME IInv, NEW t \in Threads, NEW e \in Codes, LockMap(t, e)
  PROVE  IInv'
<1> DEFINE h == arg[t].h
           u == arg[t].usage
           b == boMap[h]
           d == boData[b]
<1>1. /\ h \in Handles /\ b \in Bos /\ d \in BoData /\ d # NULL
      /\ u \in SUBSET UsageBits /\ Compatible(d, u) /\ mutex = t /\ pc[t] = "map"
  BY DEF IInv, ChecksStillHold, TypeOK, LockMap, Call
<1>2. \A s \in Threads \ {t} : pc[s] \in {"idle", "ready"}
  BY <1>1, OnlyHolder
<1>3. CASE Crash("use_after_destroy")
  BY <1>3, CrashStep
<1>4. CASE /\ mutex' = NULL
           /\ pc' = [pc EXCEPT ![t] = "idle"] /\ arg' = [arg EXCEPT ![t] = NULL]
           /\ UNCHANGED <<gbm, nDev, allocDevs, handle, boMap, boLive, fault>>
           /\ \/ UNCHANGED boData
              \/ /\ CpuNeeded(d, u) => MayMap(d)
                 /\ boData' = [boData EXCEPT ![b] = AfterLock(d, u)]
  <2>1. AfterLock(d, u) \in BoData
    BY <1>1, AfterLockType
  <2>2. AfterLock(d, u) # NULL
    BY <2>1, GrallocAssumption
  <2>3. \A c \in Bos : ~Unmapping(c) /\ ~Unmapping(c)'
    BY <1>1, <1>2, <1>4 DEF Unmapping, IInv, TypeOK
  <2> HIDE DEF h, u, b, d
  <2>4. TypeOK'
    BY <1>1, <1>4, <2>1 DEF IInv, TypeOK, Labels
  <2>5. BoOwnership'
    BY <1>1, <1>4 DEF IInv, BoOwnership, TypeOK, d
  <2>6. CpuLockExclusive'
    <3> SUFFICES ASSUME NEW c \in Bos, boData'[c] # NULL
                 PROVE  /\ boData'[c].map_data <=> CpuLocked(boData'[c]) /\ ~Unmapping(c)'
                        /\ CpuLocked(boData'[c]) => boData'[c].lock_count = 1
                        /\ boData'[c].lock_count = 0 => boData'[c].locked_for = {}
      BY DEF CpuLockExclusive, CpuLocked
    <3>1. CASE boData'[c] = boData[c]
      BY <2>3, <3>1 DEF IInv, CpuLockExclusive, CpuLocked
    <3>2. CASE /\ c = b /\ boData'[c] = AfterLock(d, u)
               /\ CpuNeeded(d, u) => MayMap(d)
      <4>1. /\ d.map_data <=> CpuLocked(d)
            /\ CpuLocked(d) => d.lock_count = 1
            /\ d.lock_count = 0 => d.locked_for = {}
            /\ d.lock_count \in Nat
        BY <1>1, <2>3 DEF IInv, CpuLockExclusive, CpuLocked, BoData, d
      <4>2. CpuNeeded(d, u) => d.lock_count = 0
        BY <1>1, <3>2, <4>1 DEF CpuNeeded, MayMap, CpuLocked, Compatible
      <4>3. CpuLocked(d) => CpuNeeded(d, u)
        BY DEF CpuNeeded, CpuLocked
      <4>4. /\ AfterLock(d, u).map_data <=> d.map_data \/ CpuNeeded(d, u)
            /\ AfterLock(d, u).lock_count = d.lock_count + 1
            /\ CpuLocked(AfterLock(d, u)) <=> CpuNeeded(d, u)
        BY DEF AfterLock, CpuLocked, CpuNeeded
      <4> QED BY <2>3, <3>2, <4>1, <4>2, <4>3, <4>4
    <3> QED BY <1>1, <1>4, <3>1, <3>2 DEF IInv, TypeOK
  <2>7. OneDevice'
    BY <1>4 DEF IInv, OneDevice, TypeOK
  <2>8. ChecksStillHold'
    BY <1>1, <1>2, <1>4 DEF IInv, ChecksStillHold, TypeOK
  <2> QED BY <2>4, <2>5, <2>6, <2>7, <2>8 DEF IInv
<1> QED
  BY <1>3, <1>4 DEF LockMap, Leave, Return, Goto, NoCrash, devVars, bufVars

(* The first step of an unlock unmaps the buffer and keeps the mutex, or   *)
(* returns.                                                                *)
LEMMA UnlockEnterStep ==
  ASSUME IInv, NEW t \in Threads, NEW h \in Handles, NEW e \in Codes, UnlockEnter(t, h, e)
  PROVE  IInv'
<1> DEFINE b == boMap[h]
           d == boData[b]
           call == [op |-> "unlock", h |-> h, usage |-> {}]
<1>1. mutex = NULL /\ pc[t] = "idle"
  BY DEF UnlockEnter, Start, Enter, Critical
<1>2. \A s \in Threads : pc[s] \in {"idle", "ready"}
  BY <1>1, OnlyHolder, GrallocAssumption
<1>3. call \in Call
  BY GrallocAssumption DEF Call, Ops
<1>4. ASSUME NEW kind \in {"use_after_destroy", "null_deref"}, Crash(kind)
      PROVE  IInv'
  BY <1>4, CrashStep
<1>5. CASE /\ boMap' = MapAfterLookup(h) \/ UNCHANGED boMap
           /\ UNCHANGED <<mutex, boData, pc, arg, gbm, nDev, allocDevs, handle, boLive, fault>>
  <2> USE DEF IInv
  <2>1. TypeOK'
    BY <1>5 DEF TypeOK, MapAfterLookup
  <2>2. BoOwnership'
    BY <1>5, GrallocAssumption DEF BoOwnership, TypeOK, MapAfterLookup
  <2>3. CpuLockExclusive'
    BY <1>2, <1>5 DEF CpuLockExclusive, Unmapping, CpuLocked
  <2>4. OneDevice'
    BY <1>5 DEF OneDevice
  <2>5. ChecksStillHold'
    BY <1>2, <1>5 DEF ChecksStillHold
  <2> QED BY <2>1, <2>2, <2>3, <2>4, <2>5
<1>6. CASE /\ b \in Bos /\ d # NULL /\ ~Unlocked(d)
           /\ boData' = [boData EXCEPT ![b] = AfterUnmap(d)]
           /\ mutex' = t
           /\ pc' = [pc EXCEPT ![t] = "dec"] /\ arg' = [arg EXCEPT ![t] = call]
           /\ UNCHANGED <<gbm, nDev, allocDevs, handle, boMap, boLive, fault>>
  <2>1. d \in BoData /\ d.lock_count > 0
    BY <1>6 DEF IInv, TypeOK, BoData, Unlocked
  <2>2. /\ AfterUnmap(d) \in BoData /\ AfterUnmap(d) # NULL
        /\ AfterUnmap(d).map_data <=> d.map_data /\ ~CpuLocked(d)
        /\ AfterUnmap(d).lock_count = d.lock_count
        /\ AfterUnmap(d).locked_for = d.locked_for
    BY <2>1, AfterUnmapFields, GrallocAssumption
  <2>3. \A c \in Bos : ~Unmapping(c)
    BY <1>2 DEF Unmapping
  <2>4. ~AfterUnmap(d).map_data
    BY <1>6, <2>2, <2>3 DEF IInv, CpuLockExclusive
  <2> HIDE DEF d, call
  <2>5. TypeOK'
    BY <1>3, <1>6, <2>2 DEF IInv, TypeOK, Labels
  <2>6. BoOwnership'
    BY <1>6 DEF IInv, BoOwnership, TypeOK, d
  <2>7. CpuLockExclusive'
    <3> SUFFICES ASSUME NEW c \in Bos, boData'[c] # NULL
                 PROVE  /\ boData'[c].map_data <=> CpuLocked(boData'[c]) /\ ~Unmapping(c)'
                        /\ CpuLocked(boData'[c]) => boData'[c].lock_count = 1
                        /\ boData'[c].lock_count = 0 => boData'[c].locked_for = {}
      BY DEF CpuLockExclusive, CpuLocked
    <3>1. pc'[t] = "dec" /\ arg'[t].h = h
      BY <1>6 DEF IInv, TypeOK, call
    <3>2. CASE c = b
      <4>1. boData'[c] = AfterUnmap(d) /\ Unmapping(c)'
        BY <1>6, <3>1, <3>2 DEF Unmapping, IInv, TypeOK
      <4> QED BY <1>6, <2>2, <2>4, <3>2, <4>1 DEF IInv, CpuLockExclusive, CpuLocked, d
    <3>3. CASE c # b
      <4>1. boData'[c] = boData[c] /\ ~Unmapping(c)'
        BY <1>2, <1>6, <3>1, <3>3 DEF Unmapping, IInv, TypeOK
      <4> QED BY <2>3, <4>1 DEF IInv, CpuLockExclusive, CpuLocked
    <3> QED BY <3>2, <3>3
  <2>8. OneDevice'
    BY <1>6 DEF IInv, OneDevice, TypeOK
  <2>9. ChecksStillHold'
    <3>1. boData'[b] = AfterUnmap(d) /\ boMap'[h] = b /\ "dec" \in Labels
      BY <1>6 DEF IInv, TypeOK, Labels
    <3>2. call.h = h /\ Goto(t, "dec", call)
      BY <1>6 DEF call, Goto
    <3> HIDE DEF b
    <3> QED BY <1>1, <1>3, <1>6, <2>1, <2>2, <2>4, <3>1, <3>2, EntersChecks
  <2> QED BY <2>5, <2>6, <2>7, <2>8, <2>9 DEF IInv
<1> QED
  BY <1>4, <1>5, <1>6 DEF UnlockEnter, Critical, callVars, Enter, Goto, NoCrash, devVars, bufVars

(* The second step of an unlock: the buffer is no longer mapped, and the   *)
(* last lock takes its usage with it.                                      *)
LEMMA UnlockDecStep ==
  ASSUME IInv, NEW t \in Threads, UnlockDec(t)
  PROVE  IInv'
<1> DEFINE h == arg[t].h
           b == boMap[h]
           d == boData[b]
<1>1. /\ h \in Handles /\ b \in Bos /\ d \in BoData /\ d # NULL
      /\ d.lock_count > 0 /\ ~d.map_data /\ mutex = t /\ pc[t] = "dec"
  BY DEF IInv, ChecksStillHold, TypeOK, UnlockDec
<1>2. /\ boData' = [boData EXCEPT ![b] = AfterUnlock(d)]
      /\ pc' = [pc EXCEPT ![t] = "idle"] /\ arg' = [arg EXCEPT ![t] = NULL]
      /\ mutex' = NULL
      /\ UNCHANGED <<gbm, nDev, allocDevs, handle, boMap, boLive, fault>>
  BY DEF UnlockDec, Leave, Return, Goto, NoCrash, devVars
<1>3. \A s \in Threads \ {t} : pc[s] \in {"idle", "ready"}
  BY <1>1, OnlyHolder
<1>4. /\ AfterUnlock(d) \in BoData
      /\ ~AfterUnlock(d).map_data
      /\ AfterUnlock(d).lock_count = d.lock_count - 1
      /\ AfterUnlock(d).locked_for = IF d.lock_count = 1 THEN {} ELSE d.locked_for
  BY <1>1, AfterUnlockFields
<1> HIDE DEF h, b, d
<1>5. TypeOK'
  BY <1>1, <1>2, <1>4 DEF IInv, TypeOK, Labels
<1>6. BoOwnership'
  BY <1>1, <1>2 DEF IInv, BoOwnership, TypeOK, d
<1>7. CpuLockExclusive'
  <2> SUFFICES ASSUME NEW c \in Bos, boData'[c] # NULL
               PROVE  /\ boData'[c].map_data <=> CpuLocked(boData'[c]) /\ ~Unmapping(c)'
                      /\ CpuLocked(boData'[c]) => boData'[c].lock_count = 1
                      /\ boData'[c].lock_count = 0 => boData'[c].locked_for = {}
    BY DEF CpuLockExclusive, CpuLocked
  <2>1. ~Unmapping(c)'
    BY <1>2, <1>3 DEF Unmapping, IInv, TypeOK
  <2>2. CASE c = b
    BY <1>1, <1>2, <1>4, <2>1, <2>2 DEF IInv, TypeOK, BoData, CpuLockExclusive, CpuLocked, d
  <2>3. CASE c # b
    <3>1. boData'[c] = boData[c] /\ ~Unmapping(c)
      BY <1>1, <1>2, <1>3, <2>3 DEF Unmapping, IInv, TypeOK, b, h
    <3> QED BY <2>1, <3>1 DEF IInv, CpuLockExclusive, CpuLocked
  <2> QED BY <2>2, <2>3
<1>8. OneDevice'
  BY <1>2, <1>3 DEF IInv, OneDevice, TypeOK
<1>9. ChecksStillHold'
  BY <1>1, <1>2, <1>3 DEF IInv, ChecksStillHold, TypeOK
<1> QED BY <1>5, <1>6, <1>7, <1>8, <1>9 DEF IInv
-----------------------------------------------------------------------------
(* Every step of the HAL and of its callers preserves the invariant.       *)
LEMMA NextIInv == IInv /\ [Next]_vars => IInv'
<1> SUFFICES ASSUME IInv, [Next]_vars PROVE IInv'
  OBVIOUS
<1>1. CASE UNCHANGED vars
  <2>1. TypeOK' /\ OneDevice'
    BY <1>1 DEF vars, devVars, bufVars, callVars, IInv, TypeOK, OneDevice
  <2>2. BoOwnership' /\ CpuLockExclusive'
    BY <1>1, BuffersKept DEF vars
  <2>3. ChecksStillHold'
    BY <1>1, ChecksUndisturbed DEF vars, devVars, bufVars
  <2> QED BY <2>1, <2>2, <2>3 DEF IInv
<1>2. ASSUME NEW t \in Threads, Step(t)
      PROVE  IInv'
  BY <1>2, OpenGpu0Step, UnlockDecStep, GbmDevCreateStep, PerformStep, RegisterCheckStep,
     RegisterImportStep, LockMapStep DEF Step
<1>3. ASSUME NEW t \in Threads, NEW h \in Handles \cup {NULL}, NEW op \in Ops,
             GbmInit(t, [op |-> op, h |-> h, usage |-> {}])
      PROVE  IInv'
  <2>1. [op |-> op, h |-> h, usage |-> {}] \in Call
    BY DEF Call
  <2> QED BY <1>3, <2>1, GbmInitStep
<1>4. ASSUME NEW t \in Threads,
             GbmInit(t, OpenCall) \/ GbmInit(t, PerformCall) \/ GbmInit(t, RegisterCall(NULL))
      PROVE  IInv'
  <2>1. "open" \in Ops /\ "perform" \in Ops /\ "register" \in Ops
    BY DEF Ops
  <2> QED BY <1>3, <1>4, <2>1 DEF OpenCall, PerformCall, RegisterCall
<1>5. ASSUME NEW t \in Threads, NEW h \in Handles,
             \/ GbmInit(t, RegisterCall(h))
             \/ Unregister(t, h) \/ Free(t, h)
             \/ \E e \in Codes :
                  \/ UnlockEnter(t, h, e)
                  \/ \E u \in Usages : Alloc(t, h, u, e) \/ LockEnter(t, h, u, e)
      PROVE  IInv'
  <2>1. "register" \in Ops
    BY DEF Ops
  <2>2. CASE GbmInit(t, RegisterCall(h))
    BY <1>3, <2>1, <2>2 DEF RegisterCall
  <2>3. CASE Unregister(t, h) \/ Free(t, h)
    BY <2>3, UnregisterStep
  <2>4. CASE \E e \in Codes : UnlockEnter(t, h, e)
    BY <2>4, UnlockEnterStep
  <2>5. CASE \E e \in Codes, u \in Usages : Alloc(t, h, u, e) \/ LockEnter(t, h, u, e)
    BY <2>5, AllocStep, LockEnterStep
  <2> QED BY <1>5, <2>2, <2>3, <2>4, <2>5
<1>6. ASSUME NEW t \in Threads, CloseGpu0(t)
      PROVE  IInv'
  BY <1>6, CloseGpu0Step
<1>7. ASSUME NEW h \in Handles, DeleteHandle(h) \/ \E u \in Usages : ReceiveHandle(h, u)
      PROVE  IInv'
  BY <1>7, HandleStep
<1> QED BY <1>1, <1>2, <1>4, <1>5, <1>6, <1>7 DEF Next

(* The invariant holds in every reachable state.                           *)
THEOREM IInvHolds == Spec => []IInv
  BY InitIInv, NextIInv, PTL DEF Spec

(* Every variable keeps its type: in particular no lock count goes below   *)
(* zero, whatever unlocks the callers make.                                *)
THEOREM TypeCorrect == Spec => []TypeOK
  BY IInvHolds, PTL DEF IInv

(* No handle reaches a destroyed buffer object or another handle's, for    *)
(* any order of register, unregister, alloc, free and lock calls.          *)
THEOREM BuffersOwned == Spec => []BoOwnership
  BY IInvHolds, PTL DEF IInv

(* A CPU lock excludes every other lock of its buffer, and an unlocked     *)
(* buffer carries nothing over, for any number of threads.                 *)
THEOREM CpuLocksExclude == Spec => []CpuLockExclusive
  BY IInvHolds, PTL DEF IInv

(* However many threads make their first call together, gbm_init creates   *)
(* one device.                                                             *)
THEOREM DeviceIsSingle == Spec => []OneDevice
  BY IInvHolds, PTL DEF IInv

(* The module mutex protects what a call checked until its driver call is  *)
(* over, the answer to the "XXX thread-safety?" of gralloc_gbm.cpp:392.    *)
THEOREM ChecksProtected == Spec => []ChecksStillHold
  BY IInvHolds, PTL DEF IInv
-----------------------------------------------------------------------------
(* The converse of what ChecksStillHold says of the mutex.                 *)
LEMMA NextGivenBack == IInv /\ MutexGivenBack /\ [Next]_vars => MutexGivenBack'
<1> SUFFICES ASSUME IInv, MutexGivenBack, [Next]_vars PROVE MutexGivenBack'
  OBVIOUS
<1> USE GrallocAssumption
<1> DEFINE Inside == {"create", "import", "map", "dec"}
<1>1. CASE UNCHANGED <<mutex, callVars>>
  BY <1>1 DEF callVars, MutexGivenBack
<1>2. CASE mutex' = NULL
  BY <1>2 DEF MutexGivenBack
<1>3. ASSUME NEW t \in Threads, NEW label \in Inside, NEW call, Goto(t, label, call),
             mutex' = t
      PROVE  MutexGivenBack'
  BY <1>3 DEF Goto, MutexGivenBack, IInv, TypeOK
<1>4. ASSUME NEW t \in Threads, NEW label, NEW call, Goto(t, label, call),
             pc[t] \notin Inside, mutex' = mutex
      PROVE  MutexGivenBack'
  BY <1>4 DEF Goto, MutexGivenBack, IInv, TypeOK
<1>5. ASSUME NEW t \in Threads, NEW call, GbmInit(t, call)
      PROVE  MutexGivenBack'
  BY <1>2, <1>3, <1>5 DEF GbmInit, Enter, Critical
<1>6. ASSUME NEW t \in Threads, Step(t)
      PROVE  MutexGivenBack'
  <2>1. CASE OpenGpu0(t) \/ UnlockDec(t)
    BY <1>2, <1>4, <2>1 DEF OpenGpu0, UnlockDec, Leave, Return
  <2>2. ASSUME NEW e \in Codes, GbmDevCreate(t, e) \/ RegisterCheck(t, e)
        PROVE  MutexGivenBack'
    BY <1>2, <1>3, <2>2 DEF GbmDevCreate, RegisterCheck, Leave, Enter, Critical
  <2>3. ASSUME NEW e \in Codes, Perform(t, e) \/ RegisterImport(t, e) \/ LockMap(t, e)
        PROVE  MutexGivenBack'
    BY <1>1, <1>2, <1>4, <2>3 DEF Perform, RegisterImport, LockMap, Crash, Leave, Return
  <2> QED BY <1>6, <2>1, <2>2, <2>3 DEF Step
<1>7. ASSUME NEW t \in Threads, NEW h \in Handles, Unregister(t, h) \/ Free(t, h)
      PROVE  MutexGivenBack'
  BY <1>1, <1>2, <1>7 DEF Unregister, Free, Crash, Critical
<1>8. ASSUME NEW t \in Threads, NEW h \in Handles, NEW u \in Usages, NEW e \in Codes,
             Alloc(t, h, u, e) \/ LockEnter(t, h, u, e)
      PROVE  MutexGivenBack'
  <2>1. CASE Alloc(t, h, u, e)
    BY <1>1, <1>2, <2>1 DEF Alloc, Crash, Critical
  <2>2. CASE LockEnter(t, h, u, e)
    <3>1. CASE Critical
      BY <1>2, <3>1 DEF Critical
    <3>2. CASE Enter(t) /\ \E call : Goto(t, "map", call)
      BY <1>3, <3>2 DEF Enter
    <3> QED BY <2>2, <3>1, <3>2 DEF LockEnter
  <2> QED BY <1>8, <2>1, <2>2
<1>9. ASSUME NEW t \in Threads, NEW h \in Handles, NEW e \in Codes, UnlockEnter(t, h, e)
      PROVE  MutexGivenBack'
  <2>1. CASE Critical
    BY <1>2, <2>1 DEF Critical
  <2>2. CASE Enter(t) /\ \E call : Goto(t, "dec", call)
    BY <1>3, <2>2 DEF Enter
  <2>3. CASE UNCHANGED <<mutex, callVars>>
    BY <1>1, <2>3
  <2> QED BY <1>9, <2>1, <2>2, <2>3 DEF UnlockEnter, Crash
<1>10. ASSUME NEW t \in Threads, CloseGpu0(t)
       PROVE  MutexGivenBack'
  BY <1>1, <1>10 DEF CloseGpu0, Crash
<1>11. ASSUME NEW h \in Handles, DeleteHandle(h) \/ \E u \in Usages : ReceiveHandle(h, u)
       PROVE  MutexGivenBack'
  BY <1>1, <1>11 DEF DeleteHandle, ReceiveHandle
<1>12. CASE UNCHANGED vars
  BY <1>1, <1>12 DEF vars
<1> QED
  BY <1>5, <1>6, <1>7, <1>8, <1>9, <1>10, <1>11, <1>12 DEF Next

(* No call returns, or waits, with the module mutex.                       *)
THEOREM MutexIsGivenBack == Spec => []MutexGivenBack
<1>1. Init => MutexGivenBack
  BY DEF Init, MutexGivenBack
<1> QED BY <1>1, IInvHolds, NextGivenBack, PTL DEF Spec
=============================================================================
