---------------------- MODULE GrallocRefinementProofs ----------------------
(***************************************************************************)
(* Proof that Gralloc implements BufferLocks under the mapping of module   *)
(* Gralloc: register and alloc create a buffer, unregister and free        *)
(* destroy it, a lock counts when it returns OK and an unlock when it has  *)
(* decremented; every other step leaves the lock table as it was.          *)
(***************************************************************************)
EXTENDS GrallocProofs

locks == [h \in Handles |-> LocksOn(h)]

(* Steps that change neither the map nor the lock data.                    *)
LEMMA SameBuffers ==
  ASSUME UNCHANGED <<boMap, boData>>
  PROVE  UNCHANGED locks
  BY DEF locks, LocksOn, DataOf

(* A lookup that inserts a null value gives the handle no buffer.          *)
LEMMA SameAfterLookup ==
  ASSUME TypeOK, NEW h \in Handles, boMap' = MapAfterLookup(h), UNCHANGED boData
  PROVE  UNCHANGED locks
<1>1. \A k \in Handles : boMap'[k] = boMap[k] \/ (boMap'[k] \notin Bos /\ boMap[k] \notin Bos)
  BY GrallocAssumption DEF TypeOK, MapAfterLookup
<1>2. \A k \in Handles : LocksOn(k)' = LocksOn(k)
  BY <1>1 DEF LocksOn, DataOf
<1> QED BY <1>2 DEF locks

(* The lock table when one entry of it changes.                            *)
LEMMA OneEntry ==
  ASSUME NEW h \in Handles, NEW r, LocksOn(h)' = r,
         \A k \in Handles \ {h} : LocksOn(k)' = LocksOn(k)
  PROVE  locks' = [locks EXCEPT ![h] = r]
  BY DEF locks

(* A new buffer object entered in the map starts unlocked, unless the key  *)
(* was there already.                                                      *)
LEMMA EmplaceCreates ==
  ASSUME IInv, NEW h \in Handles, NEW b \in Bos \ boLive,
         boMap' = MapAfterEmplace(h, b), UNCHANGED boData
  PROVE  [Locks!Next]_locks
<1>1. boData[b] = NULL
  BY DEF IInv, BoOwnership
<1>2. CASE boMap[h] # Absent
  BY <1>2, SameBuffers DEF MapAfterEmplace
<1>3. CASE boMap[h] = Absent
  <2>1. boMap' = [boMap EXCEPT ![h] = b]
    BY <1>3 DEF MapAfterEmplace
  <2>2. LocksOn(h)' = Locks!Unlocked
    BY <1>1, <2>1 DEF LocksOn, DataOf, FreshData, Locks!Unlocked, IInv, TypeOK
  <2>3. ~locks[h].live
    BY <1>3, GrallocAssumption DEF locks, LocksOn
  <2>4. \A k \in Handles \ {h} : LocksOn(k)' = LocksOn(k)
    BY <2>1 DEF LocksOn, DataOf, IInv, TypeOK
  <2>5. locks' = [locks EXCEPT ![h] = Locks!Unlocked]
    BY <2>2, <2>4, OneEntry
  <2> QED BY <2>3, <2>5 DEF Locks!Next, Locks!Create, locks
<1> QED BY <1>2, <1>3

(* gbm_free takes the buffer away, or finds none.                          *)
LEMMA FreeDestroys ==
  ASSUME IInv, NEW h \in Handles, GbmFree(h)
  PROVE  [Locks!Next]_locks
<1>1. CASE boMap[h] \notin Bos
  BY <1>1, SameAfterLookup DEF GbmFree, IInv
<1>2. CASE boMap[h] \in Bos
  <2>1. /\ boMap' = [boMap EXCEPT ![h] = Absent]
        /\ boData' = [boData EXCEPT ![boMap[h]] = NULL]
    BY <1>2 DEF GbmFree, MapAfterErase
  <2>2. LocksOn(h)' = Locks!NoBuffer
    BY <2>1, GrallocAssumption DEF LocksOn, DataOf, FreshData, Locks!NoBuffer, IInv, TypeOK
  <2>3. locks[h].live
    BY <1>2 DEF locks, LocksOn
  <2>4. \A k \in Handles \ {h} : LocksOn(k)' = LocksOn(k)
    BY <1>2, <2>1 DEF LocksOn, DataOf, IInv, TypeOK, BoOwnership
  <2>5. locks' = [locks EXCEPT ![h] = Locks!NoBuffer]
    BY <2>2, <2>4, OneEntry
  <2> QED BY <2>3, <2>5 DEF Locks!Next, Locks!Destroy, locks
<1> QED BY <1>1, <1>2

(* Lock data replaced by data with the same count and usage.               *)
LEMMA SameCounts ==
  ASSUME IInv, NEW b \in Bos, NEW r, r # NULL, boData' = [boData EXCEPT ![b] = r],
         r.lock_count = DataOf(b).lock_count, r.locked_for = DataOf(b).locked_for,
         UNCHANGED boMap
  PROVE  UNCHANGED locks
<1>1. \A k \in Handles : LocksOn(k)' = LocksOn(k)
  BY DEF LocksOn, DataOf, IInv, TypeOK
<1> QED BY <1>1 DEF locks

(* The checks of a lock, and the data they attach, change no lock.         *)
LEMMA LockEnterStutters ==
  ASSUME IInv, NEW t \in Threads, NEW h \in Handles, NEW u \in Usages, NEW e \in Codes,
         LockEnter(t, h, u, e)
  PROVE  UNCHANGED locks
<1>1. CASE boMap' = MapAfterLookup(h) /\ UNCHANGED boData
  BY <1>1, SameAfterLookup DEF IInv
<1>2. CASE UNCHANGED <<boMap, boData>>
  BY <1>2, SameBuffers
<1>3. CASE /\ boMap[h] \in Bos /\ UNCHANGED boMap
           /\ boData' = [boData EXCEPT ![boMap[h]] = DataOf(boMap[h])]
  <2>1. DataOf(boMap[h]) # NULL
    BY <1>3, DataOfType, GrallocAssumption DEF IInv
  <2> QED BY <1>3, <2>1, SameCounts
<1> QED BY <1>1, <1>2, <1>3 DEF LockEnter

(* A lock that returns OK is a lock of the table.                          *)
LEMMA LockMapLocks ==
  ASSUME IInv, NEW t \in Threads, NEW e \in Codes, LockMap(t, e)
  PROVE  [Locks!Next]_locks
<1>0. PICK h \in Handles, u \in Usages : h = arg[t].h /\ u = arg[t].usage
  BY DEF IInv, ChecksStillHold, LockMap
<1> DEFINE b == boMap[h]
           d == boData[b]
<1>1. /\ h \in Handles /\ b \in Bos /\ d \in BoData /\ d # NULL
      /\ u \in Usages /\ Compatible(d, u) /\ UNCHANGED boMap
  BY <1>0 DEF IInv, ChecksStillHold, TypeOK, LockMap, Call, Crash, bufVars
<1>2. CASE UNCHANGED boData
  BY <1>1, <1>2, SameBuffers
<1>3. CASE /\ CpuNeeded(d, u) => MayMap(d)
           /\ boData' = [boData EXCEPT ![b] = AfterLock(d, u)]
  <2>1. locks[h] = [live |-> TRUE, count |-> d.lock_count, usage |-> d.locked_for]
    BY <1>1 DEF locks, LocksOn, DataOf
  <2>2. AfterLock(d, u) # NULL
    BY <1>1, AfterLockType, GrallocAssumption DEF Call
  <2>3. LocksOn(h)' = [live |-> TRUE, count |-> d.lock_count + 1, usage |-> u \cup d.locked_for]
    BY <1>1, <1>3, <2>2 DEF LocksOn, DataOf, AfterLock, IInv, TypeOK
  <2>4. \A k \in Handles \ {h} : LocksOn(k)' = LocksOn(k)
    BY <1>1, <1>3 DEF LocksOn, DataOf, IInv, TypeOK, BoOwnership
  <2>5. CpuNeeded(d, u) => d.lock_count = 0
    <3>1. ~Unmapping(b)
      BY <1>0, <1>1, OnlyHolder DEF Unmapping, LockMap, IInv, ChecksStillHold
    <3>2. /\ d.map_data <=> CpuLocked(d)
          /\ d.lock_count = 0 => d.locked_for = {}
      BY <1>1, <3>1 DEF IInv, CpuLockExclusive
    <3> QED BY <1>1, <1>3, <3>2 DEF CpuNeeded, MayMap, CpuLocked, Compatible
  <2> HIDE DEF b, d
  <2>6. locks' = [locks EXCEPT ![h] = [live |-> TRUE, count |-> d.lock_count + 1,
                                       usage |-> u \cup d.locked_for]]
    BY <1>1, <2>3, <2>4, OneEntry
  <2>7. Locks!Lock(h, u)
    <3>1. /\ locks[h].live
          /\ locks[h].count = 0 \/ u \subseteq locks[h].usage
          /\ (u \cup locks[h].usage) \cap SwMask # {} => locks[h].count = 0
          /\ locks' = [locks EXCEPT ![h] = [live |-> TRUE, count |-> locks[h].count + 1,
                                            usage |-> u \cup locks[h].usage]]
      BY <1>1, <2>1, <2>5, <2>6 DEF Compatible, CpuNeeded
    <3> QED BY <3>1, Zenon DEF Locks!Lock, locks
  <2> QED BY <1>1, <2>7 DEF Locks!Next
<1> QED BY <1>0, <1>2, <1>3 DEF LockMap, Crash, bufVars

(* The first half of an unlock, unmap included, changes no lock.           *)
LEMMA UnlockEnterStutters ==
  ASSUME IInv, NEW t \in Threads, NEW h \in Handles, NEW e \in Codes, UnlockEnter(t, h, e)
  PROVE  UNCHANGED locks
<1> DEFINE b == boMap[h]
           d == boData[b]
<1>1. CASE boMap' = MapAfterLookup(h) /\ UNCHANGED boData
  BY <1>1, SameAfterLookup DEF IInv
<1>2. CASE UNCHANGED <<boMap, boData>>
  BY <1>2, SameBuffers
<1>3. CASE /\ b \in Bos /\ d # NULL /\ UNCHANGED boMap
           /\ boData' = [boData EXCEPT ![b] = AfterUnmap(d)]
  <2>1. d \in BoData /\ DataOf(b) = d
    BY <1>3 DEF IInv, TypeOK, DataOf
  <2>2. /\ AfterUnmap(d) # NULL
        /\ AfterUnmap(d).lock_count = d.lock_count
        /\ AfterUnmap(d).locked_for = d.locked_for
    BY <2>1, AfterUnmapFields, GrallocAssumption
  <2> QED BY <1>3, <2>1, <2>2, SameCounts
<1> QED BY <1>1, <1>2, <1>3 DEF UnlockEnter, Crash, bufVars

(* The decrement of an unlock is an unlock of the table.                   *)
LEMMA UnlockDecUnlocks ==
  ASSUME IInv, NEW t \in Threads, UnlockDec(t)
  PROVE  [Locks!Next]_locks
<1>0. PICK h \in Handles : h = arg[t].h
  BY DEF IInv, ChecksStillHold, UnlockDec
<1> DEFINE b == boMap[h]
           d == boData[b]
<1>1. /\ h \in Handles /\ b \in Bos /\ d \in BoData /\ d # NULL
      /\ d.lock_count > 0 /\ d.lock_count \in Nat /\ UNCHANGED boMap
      /\ boData' = [boData EXCEPT ![b] = AfterUnlock(d)]
  BY <1>0 DEF IInv, ChecksStillHold, TypeOK, UnlockDec, BoData
<1>2. locks[h] = [live |-> TRUE, count |-> d.lock_count, usage |-> d.locked_for]
  BY <1>1 DEF locks, LocksOn, DataOf
<1>3. /\ AfterUnlock(d) # NULL
      /\ AfterUnlock(d).lock_count = d.lock_count - 1
      /\ AfterUnlock(d).locked_for = IF d.lock_count - 1 = 0 THEN {} ELSE d.locked_for
  BY <1>1, AfterUnlockFields, GrallocAssumption
<1> DEFINE r == [live |-> TRUE, count |-> d.lock_count - 1,
                 usage |-> IF d.lock_count - 1 = 0 THEN {} ELSE d.locked_for]
<1>4. LocksOn(h)' = r
  BY <1>1, <1>3 DEF LocksOn, DataOf, IInv, TypeOK
<1>5. \A k \in Handles \ {h} : LocksOn(k)' = LocksOn(k)
  BY <1>1 DEF LocksOn, DataOf, IInv, TypeOK, BoOwnership
<1>6. locks' = [locks EXCEPT ![h] = r]
  BY <1>1, <1>4, <1>5, OneEntry
<1> HIDE DEF b, d
<1>7. Locks!Unlock(h)
  <2>1. /\ locks[h].live /\ locks[h].count > 0
        /\ locks' = [locks EXCEPT ![h] =
                       [live |-> TRUE, count |-> locks[h].count - 1,
                        usage |-> IF locks[h].count - 1 = 0 THEN {} ELSE locks[h].usage]]
    BY <1>1, <1>2, <1>6
  <2> QED BY <2>1, Zenon DEF Locks!Unlock, locks
<1> QED BY <1>1, <1>7 DEF Locks!Next

(* Every step of Gralloc is a step of the lock table or leaves it alone.   *)
LEMMA StepRefines == IInv /\ [Next]_vars => [Locks!Next]_locks
<1> SUFFICES ASSUME IInv, [Next]_vars PROVE [Locks!Next]_locks
  OBVIOUS
<1>1. CASE UNCHANGED vars
  BY <1>1, SameBuffers DEF vars, bufVars
<1>2. ASSUME NEW t \in Threads, Step(t)
      PROVE  [Locks!Next]_locks
  <2>1. ASSUME NEW e \in Codes, RegisterImport(t, e)
        PROVE  [Locks!Next]_locks
    <3>1. arg[t].h \in Handles
      BY <2>1 DEF RegisterImport, IInv, ChecksStillHold
    <3> QED BY <2>1, <3>1, EmplaceCreates, SameBuffers DEF RegisterImport, Crash, bufVars
  <2>2. ASSUME NEW e \in Codes, GbmDevCreate(t, e) \/ Perform(t, e) \/ RegisterCheck(t, e)
        PROVE  UNCHANGED locks
    BY <2>2, SameBuffers DEF GbmDevCreate, Perform, RegisterCheck, Crash, bufVars
  <2>3. CASE OpenGpu0(t)
    BY <2>3, SameBuffers DEF OpenGpu0, bufVars
  <2> QED BY <1>2, <2>1, <2>2, <2>3, LockMapLocks, UnlockDecUnlocks DEF Step
<1>3. ASSUME NEW t \in Threads, NEW call, GbmInit(t, call) \/ CloseGpu0(t)
      PROVE  UNCHANGED locks
  BY <1>3, SameBuffers DEF GbmInit, CloseGpu0, Crash, bufVars
<1>4. ASSUME NEW t \in Threads, NEW h \in Handles, Unregister(t, h) \/ Free(t, h)
      PROVE  [Locks!Next]_locks
  BY <1>4, FreeDestroys, SameBuffers DEF Unregister, Free, Crash, bufVars
<1>5. ASSUME NEW t \in Threads, NEW h \in Handles, NEW e \in Codes, NEW u \in Usages,
             Alloc(t, h, u, e)
      PROVE  [Locks!Next]_locks
  BY <1>5, EmplaceCreates, SameBuffers DEF Alloc, Crash, bufVars
<1>6. ASSUME NEW h \in Handles, DeleteHandle(h) \/ \E u \in Usages : ReceiveHandle(h, u)
      PROVE  UNCHANGED locks
  BY <1>6, SameBuffers DEF DeleteHandle, ReceiveHandle, bufVars
<1> QED
  BY <1>1, <1>2, <1>3, <1>4, <1>5, <1>6, LockEnterStutters, UnlockEnterStutters DEF Next

(* Initially no handle has a buffer.                                       *)
LEMMA InitRefines == Init => Locks!Init
  BY GrallocAssumption DEF Init, LocksOn, DataOf, FreshData, Locks!Init, Locks!NoBuffer

(* The HAL implements the lock table: whatever its threads do, the locks   *)
(* granted on each buffer are those BufferLocks grants.                    *)
THEOREM GrallocImplementsBufferLocks == Spec => ImplementsBufferLocks
<1>1. Init => Locks!Init
  BY InitRefines
<1>2. IInv /\ [Next]_vars => [Locks!Next]_[h \in Handles |-> LocksOn(h)]
  BY StepRefines DEF locks
<1> QED BY <1>1, <1>2, IInvHolds, PTL DEF Spec, ImplementsBufferLocks, Locks!Spec
=============================================================================
