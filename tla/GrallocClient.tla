---------------------------- MODULE GrallocClient ----------------------------
(***************************************************************************)
(* Gralloc called by a client that keeps the order the gralloc interface   *)
(* asks for: a handle from another process is registered once before it is *)
(* used and unregistered before it is deleted, a local one is freed and    *)
(* never unregistered, a buffer is locked only while it is owned, unlocked *)
(* once per lock, given back only when no lock is left, and the device is  *)
(* closed last.  Several threads share the buffers and may lock the same   *)
(* one at the same time.                                                   *)
(***************************************************************************)
EXTENDS Gralloc

VARIABLES
  owned,   \* how the client came by each handle it may use: "no",
           \* "allocated" or "registered"
  held,    \* locks the client holds on each handle
  closed   \* the client has closed the device and makes no more calls

clientVars == <<owned, held, closed>>
allVars    == <<vars, clientVars>>

ClientInit ==
  /\ Init
  /\ owned = [h \in Handles |-> "no"]
  /\ held = [h \in Handles |-> 0]
  /\ closed = FALSE

SetOwned(h, how) ==
  owned' = [owned EXCEPT ![h] = how] /\ UNCHANGED <<held, closed>>

(* A handle the client may give back: no lock left, no call in progress.   *)
Quiet(h) == held[h] = 0 /\ ~InUse(h)

SlipNoCallInProgress == TRUE   \* a close that does not wait for other threads

MayUnlock(h)     == held[h] > 0
NoCallInProgress == \A t \in Threads : pc[t] = "idle"

ClientRegister(t, h) ==
  /\ handle[h] # NULL /\ handle[h].origin = "remote"
  /\ owned[h] = "no" /\ ~InUse(h)
  /\ GbmInit(t, RegisterCall(h)) /\ UNCHANGED clientVars

ClientUnregister(t, h) ==
  /\ owned[h] = "registered" /\ Quiet(h)
  /\ Unregister(t, h) /\ SetOwned(h, "no")

ClientAlloc(t, h, u) ==
  \/ Alloc(t, h, u, "OK") /\ SetOwned(h, "allocated")
  \/ \E e \in {"ENOMEM", "pending"} : Alloc(t, h, u, e) /\ UNCHANGED clientVars

ClientFree(t, h) ==
  /\ owned[h] = "allocated" /\ Quiet(h)
  /\ Free(t, h) /\ SetOwned(h, "no")

ClientLock(t, h, u) ==
  /\ owned[h] # "no"
  /\ \E e \in Codes : LockEnter(t, h, u, e)
  /\ UNCHANGED clientVars

(* One unlock per lock: the client's count drops when it makes the call.   *)
ClientUnlock(t, h) ==
  /\ MayUnlock(h)
  /\ \E e \in Codes : UnlockEnter(t, h, e)
  /\ held' = [held EXCEPT ![h] = @ - 1] /\ UNCHANGED <<owned, closed>>

ClientDelete(h) == owned[h] = "no" /\ DeleteHandle(h) /\ UNCHANGED clientVars

ClientClose(t) ==
  /\ allocDevs = 1
  /\ \A h \in Handles : owned[h] = "no"
  /\ NoCallInProgress
  /\ CloseGpu0(t)
  /\ closed' = TRUE /\ UNCHANGED <<owned, held>>

(* What the client learns when a call of its own returns.                  *)
ClientStep(t) ==
  \/ RegisterImport(t, "OK") /\ SetOwned(arg[t].h, "registered")
  \/ /\ LockMap(t, "OK")
     /\ held' = [held EXCEPT ![arg[t].h] = @ + 1] /\ UNCHANGED <<owned, closed>>
  \/ /\ \/ OpenGpu0(t) \/ UnlockDec(t)
        \/ \E e \in Codes : GbmDevCreate(t, e) \/ Perform(t, e) \/ RegisterCheck(t, e)
        \/ \E e \in Codes \ {"OK"} : RegisterImport(t, e) \/ LockMap(t, e)
     /\ UNCHANGED clientVars

ClientNext ==
  \/ \E t \in Threads :
       \/ ClientStep(t)
       \/ /\ ~closed
          /\ \/ ClientClose(t)
             \/ allocDevs < MaxOpens /\ GbmInit(t, OpenCall) /\ UNCHANGED clientVars
             \/ GbmInit(t, PerformCall) /\ UNCHANGED clientVars
             \/ \E h \in Handles :
                  \/ ClientRegister(t, h) \/ ClientUnregister(t, h)
                  \/ ClientFree(t, h) \/ ClientUnlock(t, h)
                  \/ \E u \in Usages : ClientAlloc(t, h, u) \/ ClientLock(t, h, u)
  \/ \E h \in Handles :
       \/ ClientDelete(h)
       \/ \E u \in Usages : ReceiveHandle(h, u) /\ UNCHANGED clientVars

ClientSpec == ClientInit /\ [][ClientNext]_allVars
-----------------------------------------------------------------------------
(* Properties *)

(* A client that keeps the order never makes the HAL touch a destroyed     *)
(* device or follow the missing lock data of a buffer.                     *)
NoFault == Alive

(* The handle map is exactly what the client owns: every owned handle has  *)
(* a buffer object, no entry (not even a null one) is left behind to make  *)
(* a later register or alloc at the same address go wrong, and no buffer   *)
(* object is leaked.                                                       *)
MapMatchesOwner ==
  /\ \A h \in Handles :
       IF owned[h] = "no" THEN boMap[h] = Absent ELSE boMap[h] \in Bos
  /\ boLive = {boMap[h] : h \in {k \in Handles : owned[k] # "no"}}

Unlocking(h) == {t \in Threads : pc[t] = "dec" /\ arg[t].h = h}

(* The lock count of a buffer is the number of locks its users were        *)
(* granted and have not given back: no lock is lost or counted twice, no   *)
(* failed lock is counted, and no unlock falls through the count of zero.  *)
LocksBalance ==
  \A h \in Handles : owned[h] # "no" =>
    DataOf(boMap[h]).lock_count =
      held[h] + (IF Unlocking(h) = {} THEN 0 ELSE 1)

(* gbm_free (line 241) destroys a buffer object as it finds it and unmaps  *)
(* nothing.  When a client has given all its locks back, by whatever       *)
(* threads and past whatever failed ones, nothing is mapped any more and   *)
(* no lock is left: a mapping is never lost with its buffer.               *)
DestroyedAtRest ==
  [][\A b \in boLive \ boLive' : boData[b] # NULL =>
       boData[b].lock_count = 0 /\ ~boData[b].map_data]_allVars
=============================================================================
