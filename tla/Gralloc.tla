------------------------------ MODULE Gralloc ------------------------------
(***************************************************************************)
(* The gralloc.gbm HAL as one process sees it: gralloc/gralloc.cpp (entry  *)
(* points, module mutex, DRM device) and gralloc/gralloc_gbm.cpp (the map  *)
(* from native handles to gbm buffer objects and the CPU lock on them).    *)
(*                                                                         *)
(* Every entry point but close and perform runs its body under dmod->mutex.*)
(* A body is two actions when a driver call stands between what it tests   *)
(* and what it changes (device creation, import, map, unmap), the mutex    *)
(* held from the first to the last, and one action when it only tests and  *)
(* sets, or tests nothing of its own before the driver call, as alloc.  A  *)
(* call that returns in its first action takes and releases the mutex      *)
(* inside it.                                                              *)
(*                                                                         *)
(* An action's last parameter e is the code the entry point returns in     *)
(* that step, or "pending" when the call goes on.  Clients may make the    *)
(* calls in any order, on any handle that is still allocated; the module   *)
(* GrallocClient adds the order a correct client keeps.                    *)
(***************************************************************************)
EXTENDS Integers

CONSTANTS
  Threads,   \* threads of the process that call the HAL
  Handles,   \* addresses of native_handle_t objects, reused after a delete
  Bos,       \* gbm_bo objects
  Usages,    \* usage masks a caller passes, each a set of UsageBits
  MaxLocks,  \* bound on lock_count of one buffer
  MaxOpens,  \* bound: no open starts with this many devices open
  NULL,      \* the null pointer
  Absent     \* what the map holds for a key it does not contain

UsageBits == {"SW_READ", "SW_WRITE", "HW_TEXTURE", "HW_RENDER", "HW_FB"}
SwMask    == {"SW_READ", "SW_WRITE"}

VARIABLES
  mutex,      \* thread holding dmod->mutex, or NULL
  gbm,        \* dmod->gbm: "NULL", "live", or "destroyed" (dangling)
  nDev,       \* gbm_device objects that exist, one open DRM fd each
  allocDevs,  \* alloc_device_t objects that exist
  handle,     \* native handle at each address: who made it, its usage
  boMap,      \* gbm_bo_handle_map
  boLive,     \* buffer objects created or imported, not yet destroyed
  boData,     \* bo_data_t attached to each buffer object, or NULL
  pc, arg,    \* per thread: next step of its call, and the call
  fault       \* undefined behaviour the process ran into, or "none"

devVars  == <<gbm, nDev, allocDevs>>
bufVars  == <<boMap, boLive, boData>>
callVars == <<pc, arg>>
vars     == <<mutex, devVars, handle, bufVars, callVars, fault>>

Ops    == {"open", "perform", "register", "lock", "unlock"}
Labels == {"idle", "create", "ready", "import", "map", "dec"}
Native == [origin : {"local", "remote"}, usage : SUBSET UsageBits]
BoData == [map_data : BOOLEAN, lock_count : Nat, locked_for : SUBSET UsageBits]
Call   == [op : Ops, h : Handles \cup {NULL}, usage : SUBSET UsageBits]

ASSUME GrallocAssumption ==
  /\ Usages \subseteq SUBSET UsageBits
  /\ MaxLocks \in Nat \ {0} /\ MaxOpens \in Nat \ {0}
  /\ NULL \notin Threads \cup Handles \cup Bos \cup Native \cup Call \cup BoData
  /\ Absent \notin Bos \cup {NULL}

Init ==
  /\ mutex = NULL
  /\ gbm = "NULL" /\ nDev = 0 /\ allocDevs = 0
  /\ handle = [h \in Handles |-> NULL]
  /\ boMap = [h \in Handles |-> Absent]
  /\ boLive = {} /\ boData = [b \in Bos |-> NULL]
  /\ pc = [t \in Threads |-> "idle"] /\ arg = [t \in Threads |-> NULL]
  /\ fault = "none"
-----------------------------------------------------------------------------
(* Calls in progress *)

Alive == fault = "none"

Start(t) == Alive /\ pc[t] = "idle"

Goto(t, label, call) ==
  /\ pc'  = [pc EXCEPT ![t] = label]
  /\ arg' = [arg EXCEPT ![t] = call]

Return(t) == Goto(t, "idle", NULL)

(* Variants: a definition named Slip... is the one named after it with a   *)
(* mistake in it.  PROJECT.json lists the property each one breaks.        *)
SlipEnter(t) == mutex' = t        \* the mutex is not waited for
SlipLeave    == UNCHANGED mutex   \* a return path without the unlock

(* Taking the module mutex and keeping it, releasing it, or both at once.  *)
Enter(t)  == mutex = NULL /\ mutex' = t
Leave     == mutex' = NULL
Critical  == mutex = NULL /\ UNCHANGED mutex

(* A caller never deletes a handle while one of its threads is using it.   *)
InUse(h) == \E t \in Threads : pc[t] # "idle" /\ arg[t].h = h

Crash(kind) ==
  /\ fault' = kind
  /\ UNCHANGED <<mutex, devVars, handle, bufVars, callVars>>

NoCrash == UNCHANGED fault
-----------------------------------------------------------------------------
(* The DRM device *)

(* Entry points that begin with gbm_init: the mutex is taken to look at    *)
(* dmod->gbm, and kept only while the device has to be created.            *)
GbmInit(t, call) ==
  /\ Start(t)
  /\ \/ gbm = "NULL" /\ Enter(t) /\ Goto(t, "create", call)
     \/ gbm # "NULL" /\ Critical /\ Goto(t, "ready", call)
  /\ UNCHANGED <<devVars, handle, bufVars>> /\ NoCrash

(* gbm_dev_create opens the node and creates the device, or fails and      *)
(* leaves nothing open.                                                    *)
GbmDevCreate(t, e) ==
  /\ Alive /\ pc[t] = "create"
  /\ \/ /\ e = "pending"
        /\ gbm' = "live" /\ nDev' = nDev + 1
        /\ Goto(t, "ready", arg[t])
     \/ e = "EINVAL" /\ UNCHANGED <<gbm, nDev>> /\ Return(t)
  /\ Leave
  /\ UNCHANGED <<allocDevs, handle, bufVars>> /\ NoCrash

OpenCall    == [op |-> "open", h |-> NULL, usage |-> {}]
PerformCall == [op |-> "perform", h |-> NULL, usage |-> {}]

OpenGpu0(t) ==
  /\ Alive /\ pc[t] = "ready" /\ arg[t].op = "open"
  /\ allocDevs' = allocDevs + 1
  /\ Return(t)
  /\ UNCHANGED <<mutex, gbm, nDev, handle, bufVars>> /\ NoCrash

(* GET_DRM_FD reads the device without the mutex; other ops are refused.   *)
Perform(t, e) ==
  /\ Alive /\ pc[t] = "ready" /\ arg[t].op = "perform"
  /\ \/ /\ e = "OK" /\ gbm = "destroyed"
        /\ Crash("use_after_destroy")
     \/ /\ \/ e = "OK" /\ gbm # "destroyed"
           \/ e = "EINVAL"
        /\ Return(t)
        /\ UNCHANGED <<mutex, devVars, handle, bufVars>> /\ NoCrash

(* gbm_mod_close_gpu0 takes no mutex and leaves dmod->gbm as it was.       *)
CloseGpu0(t) ==
  /\ Start(t) /\ allocDevs > 0
  /\ \/ gbm = "destroyed" /\ Crash("use_after_destroy")
     \/ /\ gbm # "destroyed"
        /\ gbm' = "destroyed" /\ nDev' = nDev - 1
        /\ allocDevs' = allocDevs - 1
        /\ UNCHANGED <<mutex, handle, bufVars, callVars>> /\ NoCrash
-----------------------------------------------------------------------------
(* The handle map *)

(* gralloc_gbm_bo_from_handle uses operator[]: looking a key up inserts it *)
(* with a null value when it is missing.                                   *)
MapAfterLookup(h) ==
  IF boMap[h] = Absent THEN [boMap EXCEPT ![h] = NULL] ELSE boMap

(* emplace leaves the map alone when the key is already there.             *)
MapAfterEmplace(h, b) ==
  IF boMap[h] = Absent THEN [boMap EXCEPT ![h] = b] ELSE boMap

SlipMapAfterErase(h) == boMap                            \* no erase
SlipMapAfterClear(h) == [boMap EXCEPT ![h] = NULL]   \* cleared, not erased

MapAfterErase(h) == [boMap EXCEPT ![h] = Absent]

(* gbm_free: erase the key and destroy the buffer object with its data.    *)
GbmFree(h) ==
  \/ /\ boMap[h] \notin Bos
     /\ boMap' = MapAfterLookup(h)
     /\ UNCHANGED <<boLive, boData>>
  \/ /\ boMap[h] \in Bos
     /\ boMap'  = MapAfterErase(h)
     /\ boLive' = boLive \ {boMap[h]}
     /\ boData' = [boData EXCEPT ![boMap[h]] = NULL]

RegisterCall(h) == [op |-> "register", h |-> h, usage |-> {}]

(* gbm_mod_register_buffer after gbm_init: a null or known handle is       *)
(* refused.                                                                *)
RegisterCheck(t, e) ==
  /\ Alive /\ pc[t] = "ready" /\ arg[t].op = "register"
  /\ LET h == arg[t].h
         refused == h # NULL => boMap[h] # Absent
     IN \/ refused /\ e = "EINVAL" /\ Critical /\ Return(t)
        \/ ~refused /\ e = "pending" /\ Enter(t) /\ Goto(t, "import", arg[t])
  /\ UNCHANGED <<devVars, handle, bufVars>> /\ NoCrash

(* gbm_import fails on a bad fd or in the driver; otherwise the new buffer *)
(* object is entered in the map.                                           *)
RegisterImport(t, e) ==
  /\ Alive /\ pc[t] = "import"
  /\ \/ gbm = "destroyed" /\ e = "pending" /\ Crash("use_after_destroy")
     \/ /\ e = "EINVAL"
        /\ Leave /\ Return(t)
        /\ UNCHANGED <<devVars, handle, bufVars>> /\ NoCrash
     \/ /\ gbm # "destroyed" /\ e = "OK"
        /\ \E b \in Bos \ boLive :
             /\ boLive' = boLive \cup {b}
             /\ boMap'  = MapAfterEmplace(arg[t].h, b)
        /\ Leave /\ Return(t)
        /\ UNCHANGED <<devVars, handle, boData>> /\ NoCrash

Unregister(t, h) ==
  /\ Start(t) /\ handle[h] # NULL /\ Critical
  /\ \/ boMap[h] \in Bos /\ gbm = "destroyed" /\ Crash("use_after_destroy")
     \/ /\ ~(boMap[h] \in Bos /\ gbm = "destroyed")
        /\ GbmFree(h)
        /\ UNCHANGED <<devVars, handle, callVars>> /\ NoCrash

(* gralloc_gbm_bo_create: a new handle at an unused address h, a new bo.   *)
Alloc(t, h, u, e) ==
  /\ Start(t) /\ handle[h] = NULL /\ allocDevs > 0 /\ Critical
  /\ \/ gbm = "destroyed" /\ e = "pending" /\ Crash("use_after_destroy")
     \/ /\ gbm # "destroyed" /\ e = "ENOMEM"
        /\ UNCHANGED <<devVars, handle, bufVars, callVars>> /\ NoCrash
     \/ /\ gbm # "destroyed" /\ e = "OK"
        /\ handle' = [handle EXCEPT ![h] = [origin |-> "local", usage |-> u]]
        /\ \E b \in Bos \ boLive :
             /\ boLive' = boLive \cup {b}
             /\ boMap'  = MapAfterEmplace(h, b)
        /\ UNCHANGED <<devVars, boData, callVars>> /\ NoCrash

(* gbm_mod_free_gpu0: gbm_free, then close and delete the handle.          *)
Free(t, h) ==
  /\ Start(t) /\ handle[h] # NULL /\ ~InUse(h) /\ allocDevs > 0 /\ Critical
  /\ \/ boMap[h] \in Bos /\ gbm = "destroyed" /\ Crash("use_after_destroy")
     \/ /\ ~(boMap[h] \in Bos /\ gbm = "destroyed")
        /\ GbmFree(h)
        /\ handle' = [handle EXCEPT ![h] = NULL]
        /\ UNCHANGED <<devVars, callVars>> /\ NoCrash
-----------------------------------------------------------------------------
(* The CPU lock of a buffer *)

FreshData == [map_data |-> FALSE, lock_count |-> 0, locked_for |-> {}]

DataOf(b) == IF boData[b] = NULL THEN FreshData ELSE boData[b]

(* usage the handle was made with covers the request, or is one of those   *)
(* let through "for testing software renderer".                            *)
Permitted(h, u) ==
  \/ u \subseteq handle[h].usage
  \/ handle[h].usage \cap {"SW_READ", "HW_FB", "HW_TEXTURE"} # {}

SlipCompatible(d, u) == TRUE   \* the check of line 426 dropped

(* "allow multiple locks with compatible usages"                           *)
Compatible(d, u) == d.lock_count = 0 \/ u \subseteq d.locked_for

LockEnter(t, h, u, e) ==
  /\ Start(t) /\ handle[h] # NULL
  /\ boMap[h] \in Bos => DataOf(boMap[h]).lock_count < MaxLocks
  /\ LET b == boMap[h] IN
       \/ /\ b \notin Bos /\ e = "EINVAL"
          /\ boMap' = MapAfterLookup(h) /\ UNCHANGED boData
          /\ Critical /\ UNCHANGED callVars
       \/ /\ b \in Bos /\ ~Permitted(h, u) /\ e = "EINVAL"
          /\ UNCHANGED <<boMap, boData>>
          /\ Critical /\ UNCHANGED callVars
       \/ /\ b \in Bos /\ Permitted(h, u)
          /\ boData' = [boData EXCEPT ![b] = DataOf(b)] /\ UNCHANGED boMap
          /\ \/ ~Compatible(DataOf(b), u) /\ e = "EINVAL"
                /\ Critical /\ UNCHANGED callVars
             \/ Compatible(DataOf(b), u) /\ e = "pending"
                /\ Enter(t)
                /\ Goto(t, "map", [op |-> "lock", h |-> h, usage |-> u])
  /\ UNCHANGED <<devVars, handle, boLive>> /\ NoCrash

SlipMayMap(d) == TRUE   \* the check of line 270 dropped

MayMap(d) == ~d.map_data

CpuNeeded(d, u) == (u \cup d.locked_for) \cap SwMask # {}

AfterLock(d, u) ==
  [map_data   |-> d.map_data \/ CpuNeeded(d, u),
   lock_count |-> d.lock_count + 1,
   locked_for |-> u \cup d.locked_for]

(* The rest of gralloc_gbm_bo_lock: gbm_map when the CPU is among the      *)
(* users, then the count.                                                  *)
LockMap(t, e) ==
  /\ Alive /\ pc[t] = "map"
  /\ LET b   == boMap[arg[t].h]
         d   == boData[b]
         cpu == CpuNeeded(d, arg[t].usage)
     IN \/ cpu /\ MayMap(d) /\ gbm = "destroyed" /\ e = "pending"
           /\ Crash("use_after_destroy")
        \/ /\ \/ cpu /\ ~MayMap(d) /\ e = "EINVAL"
              \/ cpu /\ MayMap(d) /\ gbm # "destroyed" /\ e = "ENOMEM"
           /\ Leave /\ Return(t)
           /\ UNCHANGED <<devVars, handle, bufVars>> /\ NoCrash
        \/ /\ cpu => MayMap(d) /\ gbm # "destroyed"
           /\ e = "OK"
           /\ boData' = [boData EXCEPT ![b] = AfterLock(d, arg[t].usage)]
           /\ Leave /\ Return(t)
           /\ UNCHANGED <<devVars, handle, boMap, boLive>> /\ NoCrash

SlipUnlocked(d) == FALSE   \* the early return of line 464 dropped

Unlocked(d) == d.lock_count = 0

CpuLocked(d) == d.locked_for \cap SwMask # {}

SlipAfterUnmap(d) == d   \* line 298 dropped

AfterUnmap(d) == [d EXCEPT !.map_data = @ /\ ~CpuLocked(d)]

(* gralloc_gbm_bo_unlock up to gbm_unmap.  A buffer that was never locked  *)
(* has no bo_data_t and the code reads through the null pointer.           *)
UnlockEnter(t, h, e) ==
  /\ Start(t) /\ handle[h] # NULL
  /\ LET b == boMap[h]
         d == boData[b]
     IN \/ /\ b \notin Bos /\ e = "EINVAL"
           /\ boMap' = MapAfterLookup(h) /\ Critical
           /\ UNCHANGED <<devVars, handle, boLive, boData, callVars>> /\ NoCrash
        \/ /\ b \in Bos /\ boData[b] = NULL /\ e = "pending"
           /\ mutex = NULL /\ Crash("null_deref")
        \/ /\ b \in Bos /\ boData[b] # NULL /\ Unlocked(d) /\ e = "OK"
           /\ Critical
           /\ UNCHANGED <<devVars, handle, bufVars, callVars>> /\ NoCrash
        \/ /\ b \in Bos /\ boData[b] # NULL /\ ~Unlocked(d) /\ e = "pending"
           /\ \/ CpuLocked(d) /\ gbm = "destroyed" /\ mutex = NULL
                 /\ Crash("use_after_destroy")
              \/ /\ ~(CpuLocked(d) /\ gbm = "destroyed")
                 /\ boData' = [boData EXCEPT ![b] = AfterUnmap(d)]
                 /\ Enter(t)
                 /\ Goto(t, "dec", [op |-> "unlock", h |-> h, usage |-> {}])
                 /\ UNCHANGED <<devVars, handle, boMap, boLive>> /\ NoCrash

SlipAfterUnlock(d) == FreshData   \* one unlock gives all the locks back

AfterUnlock(d) ==
  [d EXCEPT !.lock_count = @ - 1,
            !.locked_for = IF d.lock_count = 1 THEN {} ELSE @]

UnlockDec(t) ==
  /\ Alive /\ pc[t] = "dec"
  /\ LET b == boMap[arg[t].h]
     IN boData' = [boData EXCEPT ![b] = AfterUnlock(boData[b])]
  /\ Leave /\ Return(t)
  /\ UNCHANGED <<devVars, handle, boMap, boLive>> /\ NoCrash
-----------------------------------------------------------------------------
(* The framework around the HAL: handles that arrive from another process  *)
(* are cloned into this one before they are registered, and deleted when   *)
(* no call uses them.                                                      *)

ReceiveHandle(h, u) ==
  /\ Alive /\ handle[h] = NULL
  /\ handle' = [handle EXCEPT ![h] = [origin |-> "remote", usage |-> u]]
  /\ UNCHANGED <<mutex, devVars, bufVars, callVars>> /\ NoCrash

DeleteHandle(h) ==
  /\ Alive /\ handle[h] # NULL /\ handle[h].origin = "remote" /\ ~InUse(h)
  /\ handle' = [handle EXCEPT ![h] = NULL]
  /\ UNCHANGED <<mutex, devVars, bufVars, callVars>> /\ NoCrash
-----------------------------------------------------------------------------
Codes == {"OK", "EINVAL", "ENOMEM", "pending"}

(* Steps of a call that has started.                                       *)
Step(t) ==
  \/ OpenGpu0(t) \/ UnlockDec(t)
  \/ \E e \in Codes :
       \/ GbmDevCreate(t, e) \/ Perform(t, e)
       \/ RegisterCheck(t, e) \/ RegisterImport(t, e)
       \/ LockMap(t, e)

Next ==
  \/ \E t \in Threads :
       \/ Step(t)
       \/ allocDevs < MaxOpens /\ GbmInit(t, OpenCall)
       \/ GbmInit(t, PerformCall)
       \/ CloseGpu0(t)
       \/ GbmInit(t, RegisterCall(NULL))
       \/ \E h \in Handles :
            \/ handle[h] # NULL /\ GbmInit(t, RegisterCall(h))
            \/ Unregister(t, h) \/ Free(t, h)
            \/ \E e \in Codes :
                 \/ UnlockEnter(t, h, e)
                 \/ \E u \in Usages : Alloc(t, h, u, e) \/ LockEnter(t, h, u, e)
  \/ \E h \in Handles :
       \/ DeleteHandle(h)
       \/ \E u \in Usages : ReceiveHandle(h, u)

Spec == Init /\ [][Next]_vars
-----------------------------------------------------------------------------
(* Properties *)

TypeOK ==
  /\ mutex \in Threads \cup {NULL}
  /\ gbm \in {"NULL", "live", "destroyed"}
  /\ nDev \in Int /\ allocDevs \in Nat
  /\ handle \in [Handles -> Native \cup {NULL}]
  /\ boMap \in [Handles -> Bos \cup {NULL, Absent}]
  /\ boLive \subseteq Bos
  /\ boData \in [Bos -> BoData \cup {NULL}]
  /\ pc \in [Threads -> Labels]
  /\ arg \in [Threads -> Call \cup {NULL}]
  /\ fault \in {"none", "use_after_destroy", "null_deref"}

(* Whatever the calls and their interleaving, each buffer object the map   *)
(* holds exists and belongs to one handle, and only an existing buffer     *)
(* object carries lock data: no handle reaches a destroyed buffer or the   *)
(* lock of another handle's buffer.                                        *)
BoOwnership ==
  /\ \A h \in Handles : boMap[h] \in Bos => boMap[h] \in boLive
  /\ \A h, k \in Handles : boMap[h] = boMap[k] /\ boMap[h] \in Bos => h = k
  /\ \A b \in Bos \ boLive : boData[b] = NULL

Unmapping(b) ==
  \E t \in Threads : pc[t] = "dec" /\ boMap[arg[t].h] = b

(* A buffer is mapped for the CPU exactly while its one lock is a CPU      *)
(* lock, so a CPU lock excludes every other lock, and a buffer nobody has  *)
(* locked carries no mapping and no usage over to the next lock.           *)
CpuLockExclusive ==
  \A b \in Bos : boData[b] # NULL =>
    LET d == boData[b] IN
      /\ d.map_data <=> CpuLocked(d) /\ ~Unmapping(b)
      /\ CpuLocked(d) => d.lock_count = 1
      /\ d.lock_count = 0 => d.locked_for = {}

(* What a call checked before its driver call still holds after it: the    *)
(* device is still missing when one is created, the key still absent when  *)
(* it is entered, and the buffer still there and still compatible when the *)
(* lock is counted.  gralloc_gbm.cpp:392 asks "XXX thread-safety?" of the  *)
(* lock; the module mutex is what answers it.                              *)
ChecksStillHold ==
  \A t \in Threads :
    LET h == arg[t].h
        b == boMap[h]
        d == boData[b]
    IN /\ pc[t] # "idle" => arg[t] \in Call
       /\ pc[t] \in {"create", "import", "map", "dec"} => mutex = t
       /\ pc[t] = "create" => gbm = "NULL"
       /\ pc[t] = "import" => h \in Handles /\ boMap[h] = Absent
       /\ pc[t] \in {"map", "dec"} => h \in Handles /\ b \in Bos /\ d # NULL
       /\ pc[t] = "map" => arg[t].usage \in Usages /\ Compatible(d, arg[t].usage)
       /\ pc[t] = "dec" => d.lock_count > 0 /\ ~d.map_data

(* The module mutex is held only by a call in the middle of a body, none   *)
(* of whose steps takes a mutex: no return path, and there are many, keeps *)
(* it, and no call waits for a mutex it has.                               *)
MutexGivenBack ==
  mutex # NULL => pc[mutex] \in {"create", "import", "map", "dec"}

(* Threads that find dmod->gbm null together create one device between     *)
(* them, and the device pointer is live while that device exists.          *)
OneDevice ==
  /\ nDev = IF gbm = "live" THEN 1 ELSE 0
  /\ allocDevs > 0 => gbm # "NULL"
  /\ \A t \in Threads : pc[t] = "ready" => gbm # "NULL"

(* The locks on each handle's buffer as the calls that have returned left  *)
(* them: an unlock counts when it has decremented.                         *)
LocksOn(h) ==
  IF boMap[h] \in Bos
  THEN [live  |-> TRUE,
        count |-> DataOf(boMap[h]).lock_count,
        usage |-> DataOf(boMap[h]).locked_for]
  ELSE [live |-> FALSE, count |-> 0, usage |-> {}]

(* Threads, mutex, map and driver calls together implement the lock table  *)
(* of BufferLocks: every lock granted is one it grants.                    *)
Locks == INSTANCE BufferLocks WITH buf <- [h \in Handles |-> LocksOn(h)]

ImplementsBufferLocks == Locks!Spec

(* A call that has started returns.  Each thread keeps running, and a      *)
(* thread that waits for the module mutex gets it if it is free over and   *)
(* over again.  The calls themselves come whenever the clients like.       *)
Fairness ==
  \A t \in Threads :
    /\ WF_vars(Step(t))
    /\ SF_vars(\E e \in Codes : RegisterCheck(t, e))

FairSpec == Spec /\ Fairness

CallsReturn ==
  \A t \in Threads : pc[t] # "idle" ~> (pc[t] = "idle" \/ ~Alive)

(* gralloc_gbm.cpp:353 "Unregister a buffer handle.  It is no-op for       *)
(* handles created locally."                                               *)
UnregisterLocalIsNoOp ==
  [][\A t \in Threads, h \in Handles :
       Unregister(t, h) /\ handle[h].origin = "local"
         => UNCHANGED bufVars]_vars

(* gralloc_gbm.cpp:425 "allow multiple locks with compatible usages": a    *)
(* lock whose usage is compatible with the locks held is not refused.      *)
CompatibleLocksAllowed ==
  [][\A t \in Threads : ~LockMap(t, "EINVAL")]_vars
=============================================================================
