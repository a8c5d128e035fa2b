------------------------ MODULE GrallocClientProofs ------------------------
(***************************************************************************)
(* Proofs of what GrallocClient promises: under a client that keeps the    *)
(* order of the gralloc interface nothing is used after its end, the map   *)
(* is what the client owns, and lock counts balance, for any number of     *)
(* threads, handles, buffer objects and usages.                            *)
(*                                                                         *)
(* Each step of the client is a step of Gralloc, so the invariant IInv of  *)
(* GrallocProofs holds here too.  ClientInv adds what the client knows: no *)
(* call in progress works on a handle its order forbids.                   *)
(***************************************************************************)
EXTENDS GrallocClient, GrallocRefinementProofs

Owned(h) == owned[h] # "no"

Registering(t) ==
  pc[t] = "import" \/ (pc[t] \in {"create", "ready"} /\ arg[t].op = "register")

ClientTypes ==
  /\ owned \in [Handles -> {"no", "allocated", "registered"}]
  /\ held \in [Handles -> Nat]
  /\ closed \in BOOLEAN

(* What is owned has a handle, and only what is owned is locked.           *)
OwnedHandles ==
  \A h \in Handles : IF Owned(h) THEN handle[h] # NULL ELSE held[h] = 0

(* A handle being registered is not owned yet and registered by one thread *)
(* only; one being locked or unlocked is owned.                            *)
CallsOwned ==
  /\ \A t \in Threads : Registering(t) =>
       arg[t].h \in Handles /\ ~Owned(arg[t].h) /\ handle[arg[t].h] # NULL
  /\ \A t \in Threads : pc[t] \in {"map", "dec"} => Owned(arg[t].h)
  /\ \A s, t \in Threads :
       Registering(s) /\ Registering(t) /\ arg[s].h = arg[t].h => s = t

(* The device is destroyed by the close, after which nothing is owned and  *)
(* no call runs.                                                           *)
ClosedLast ==
  /\ gbm = "destroyed" => closed
  /\ closed => (\A h \in Handles : ~Owned(h)) /\ (\A t \in Threads : pc[t] = "idle")

ClientInv ==
  /\ ClientTypes /\ NoFault /\ MapMatchesOwner /\ LocksBalance
  /\ OwnedHandles /\ CallsOwned /\ ClosedLast
-----------------------------------------------------------------------------
(* Every client step is a step of Gralloc.                                 *)
LEMMA ClientStepsAreSteps == [ClientNext]_allVars => [Next]_vars
<1>1. {"OK", "EINVAL", "ENOMEM", "pending"} = Codes
  BY DEF Codes
<1>2. ASSUME NEW t \in Threads, ClientStep(t) PROVE Next
  BY <1>1, <1>2 DEF ClientStep, Next, Step
<1>3. ASSUME NEW t \in Threads, ClientClose(t) PROVE Next
  BY <1>3 DEF ClientClose, Next
<1>4. ASSUME NEW t \in Threads, NEW h \in Handles,
             ClientRegister(t, h) \/ ClientUnregister(t, h) \/ ClientFree(t, h)
               \/ ClientUnlock(t, h)
      PROVE  Next
  BY <1>4 DEF ClientRegister, ClientUnregister, ClientFree, ClientUnlock, Next
<1>5. ASSUME NEW t \in Threads, NEW h \in Handles, NEW u \in Usages,
             ClientAlloc(t, h, u) \/ ClientLock(t, h, u)
      PROVE  Next
  BY <1>1, <1>5 DEF ClientAlloc, ClientLock, Next
<1>6. ASSUME NEW h \in Handles, ClientDelete(h) \/ \E u \in Usages : ReceiveHandle(h, u)
      PROVE  Next
  BY <1>6 DEF ClientDelete, Next
<1>7. ASSUME NEW t \in Threads,
             (allocDevs < MaxOpens /\ GbmInit(t, OpenCall)) \/ GbmInit(t, PerformCall)
      PROVE  Next
  BY <1>7 DEF Next
<1>8. UNCHANGED allVars => UNCHANGED vars
  BY DEF allVars
<1> QED BY <1>2, <1>3, <1>4, <1>5, <1>6, <1>7, <1>8 DEF ClientNext

(* Initially the client owns nothing.                                      *)
LEMMA InitClientInv == ClientInit => ClientInv
<1> SUFFICES ASSUME ClientInit PROVE ClientInv
  OBVIOUS
<1> USE DEF ClientInit, Init, Owned
<1>1. ClientTypes /\ NoFault /\ OwnedHandles /\ ClosedLast
  BY DEF ClientTypes, NoFault, Alive, OwnedHandles, ClosedLast
<1>2. MapMatchesOwner /\ LocksBalance
  BY DEF MapMatchesOwner, LocksBalance
<1>3. CallsOwned
  BY DEF CallsOwned, Registering
<1> QED BY <1>1, <1>2, <1>3 DEF ClientInv

(* The buffers and their owners stay as they are when neither map nor      *)
(* ownership changes.                                                      *)
LEMMA SameMap ==
  ASSUME MapMatchesOwner, UNCHANGED <<boMap, boLive, owned>>
  PROVE  MapMatchesOwner'
  BY DEF MapMatchesOwner

(* Lock counts still balance when only threads that are not unlocking move.*)
LEMMA SameBalance ==
  ASSUME LocksBalance, UNCHANGED <<boMap, boData, owned, held>>,
         \A t \in Threads : pc[t] = "dec" \/ pc'[t] = "dec" => UNCHANGED <<pc[t], arg[t]>>
  PROVE  LocksBalance'
<1>1. \A h \in Handles : Unlocking(h)' = Unlocking(h)
  BY DEF Unlocking
<1> QED BY <1>1 DEF LocksBalance, DataOf

(* A step in which a call only moves on, without a lock or unlock          *)
(* beginning or ending, and a register only begins on a handle that is     *)
(* free for it.                                                            *)
LEMMA CallMoves ==
  ASSUME IInv, ClientInv, ~closed, NEW t \in Threads, NEW label \in Labels, NEW call,
         Goto(t, label, call), pc[t] # "dec", label \notin {"map", "dec"},
         UNCHANGED <<handle, bufVars, clientVars, fault>>,
         gbm' = "destroyed" => gbm = "destroyed",
         Registering(t)' =>
           \/ Registering(t) /\ call = arg[t]
           \/ /\ call.h \in Handles /\ ~Owned(call.h) /\ handle[call.h] # NULL
              /\ ~InUse(call.h)
  PROVE  ClientInv'
<1> USE DEF ClientInv, clientVars, bufVars
<1>1. /\ pc'[t] = label /\ arg'[t] = call
      /\ \A s \in Threads \ {t} : pc'[s] = pc[s] /\ arg'[s] = arg[s]
  BY DEF Goto, IInv, TypeOK
<1>2. (ClientTypes /\ NoFault /\ OwnedHandles)'
  BY DEF ClientTypes, NoFault, Alive, OwnedHandles, Owned
<1>3. MapMatchesOwner'
  BY SameMap
<1>4. LocksBalance'
  BY <1>1, SameBalance
<1>5. CallsOwned'
  <2>1. \A s \in Threads \ {t} : Registering(s)' <=> Registering(s)
    BY <1>1 DEF Registering
  <2>2. \A s \in Threads : Registering(s) => pc[s] # "idle"
    BY DEF Registering
  <2>3. \A h \in Handles : Owned(h)' <=> Owned(h)
    BY DEF Owned
  <2>4. ASSUME NEW s \in Threads, pc'[s] \in {"map", "dec"}
        PROVE  Owned(arg[s].h)'
    <3>1. s # t /\ pc'[s] = pc[s] /\ arg'[s] = arg[s]
      BY <1>1, <2>4
    <3>2. Owned(arg[s].h)
      BY <2>4, <3>1 DEF CallsOwned
    <3> QED BY <3>1, <3>2 DEF Owned
  <2>5. ASSUME NEW s \in Threads, Registering(s)'
        PROVE  (arg[s].h \in Handles /\ ~Owned(arg[s].h) /\ handle[arg[s].h] # NULL)'
    <3>1. /\ arg'[s].h \in Handles /\ owned[arg'[s].h] = "no"
          /\ handle[arg'[s].h] # NULL
      <4>1. CASE s # t
        BY <1>1, <2>1, <2>5, <4>1 DEF CallsOwned, Owned
      <4>2. CASE s = t
        BY <1>1, <2>5, <4>2 DEF CallsOwned, Owned
      <4> QED BY <4>1, <4>2
    <3> QED BY <3>1 DEF Owned
  <2>6. \A r, s \in Threads :
          Registering(r)' /\ Registering(s)' /\ arg'[r].h = arg'[s].h => r = s
    BY <1>1, <2>1, <2>2 DEF CallsOwned, InUse
  <2> QED BY <2>4, <2>5, <2>6 DEF CallsOwned
<1>6. ClosedLast'
  BY DEF ClosedLast, Owned
<1> QED BY <1>2, <1>3, <1>4, <1>5, <1>6
-----------------------------------------------------------------------------
(* A call that has begun keeps the device from having been closed.         *)
LEMMA CallsKeepOpen ==
  ASSUME ClientInv, NEW t \in Threads, pc[t] # "idle"
  PROVE  ~closed /\ gbm # "destroyed" /\ Alive
  BY DEF ClientInv, ClosedLast, NoFault

(* The client begins an open, a perform or a register.                     *)
LEMMA ClientGbmInit ==
  ASSUME IInv, ClientInv, ~closed, NEW t \in Threads, NEW call \in Call,
         GbmInit(t, call), UNCHANGED clientVars,
         call.op = "register" =>
           /\ call.h \in Handles /\ ~Owned(call.h) /\ handle[call.h] # NULL
           /\ ~InUse(call.h)
  PROVE  ClientInv'
<1>1. /\ pc[t] = "idle"
      /\ Goto(t, "create", call) \/ Goto(t, "ready", call)
      /\ UNCHANGED <<handle, bufVars, fault, gbm>>
  BY DEF GbmInit, Start, NoCrash, devVars
<1>2. Registering(t)' => call.op = "register"
  BY <1>1 DEF Registering, Goto, IInv, TypeOK
<1> QED BY <1>1, <1>2, CallMoves DEF Labels

(* The calls that only move on: device creation, open, perform, the checks *)
(* of a register, and failed imports and locks.                            *)
LEMMA ClientCallMoves ==
  ASSUME IInv, ClientInv, NEW t \in Threads, UNCHANGED clientVars,
         \/ OpenGpu0(t)
         \/ \E e \in Codes : GbmDevCreate(t, e) \/ Perform(t, e) \/ RegisterCheck(t, e)
         \/ \E e \in Codes \ {"OK"} : RegisterImport(t, e) \/ LockMap(t, e)
  PROVE  ClientInv'
<1>1. pc[t] \in {"create", "ready", "import", "map"}
  BY DEF OpenGpu0, GbmDevCreate, Perform, RegisterCheck, RegisterImport, LockMap
<1>2. ~closed /\ gbm # "destroyed"
  BY <1>1, CallsKeepOpen
<1>3. /\ UNCHANGED <<handle, bufVars, fault>>
      /\ gbm' \in {gbm, "live"}
      /\ \/ Goto(t, "idle", NULL)
         \/ Goto(t, "ready", arg[t]) /\ pc[t] = "create"
         \/ Goto(t, "import", arg[t]) /\ pc[t] = "ready" /\ arg[t].op = "register"
  <2>1. CASE OpenGpu0(t)
    BY <2>1 DEF OpenGpu0, Return, NoCrash
  <2>2. CASE \E e \in Codes : GbmDevCreate(t, e)
    BY <2>2 DEF GbmDevCreate, Return, NoCrash
  <2>3. CASE \E e \in Codes : Perform(t, e)
    BY <1>2, <2>3 DEF Perform, Return, NoCrash, devVars
  <2>4. CASE \E e \in Codes : RegisterCheck(t, e)
    BY <2>4 DEF RegisterCheck, Return, NoCrash, devVars
  <2>5. CASE \E e \in Codes \ {"OK"} : RegisterImport(t, e)
    BY <1>2, <2>5 DEF RegisterImport, Return, NoCrash, devVars
  <2>6. CASE \E e \in Codes \ {"OK"} : LockMap(t, e)
    BY <1>2, <2>6 DEF LockMap, Return, NoCrash, devVars
  <2> QED BY <2>1, <2>2, <2>3, <2>4, <2>5, <2>6
<1>4. gbm' = "destroyed" => gbm = "destroyed"
  BY <1>3
<1>5. CASE Goto(t, "idle", NULL)
  <2>1. ~Registering(t)'
    BY <1>5 DEF Registering, Goto, IInv, TypeOK
  <2> QED BY <1>1, <1>2, <1>3, <1>4, <1>5, <2>1, CallMoves DEF Labels
<1>6. CASE Goto(t, "ready", arg[t]) /\ pc[t] = "create"
  <2>1. Registering(t)' => Registering(t)
    BY <1>6 DEF Registering, Goto, IInv, TypeOK
  <2> QED BY <1>2, <1>3, <1>4, <1>6, <2>1, CallMoves DEF Labels
<1>7. CASE Goto(t, "import", arg[t]) /\ pc[t] = "ready" /\ arg[t].op = "register"
  <2>1. Registering(t)
    BY <1>7 DEF Registering
  <2> QED BY <1>2, <1>3, <1>4, <1>7, <2>1, CallMoves DEF Labels
<1> QED BY <1>3, <1>5, <1>6, <1>7
-----------------------------------------------------------------------------
(* A buffer object of its own: the one an owned handle has.                *)
LEMMA OwnBo ==
  ASSUME IInv, ClientInv, NEW h \in Handles, Owned(h)
  PROVE  /\ boMap[h] \in Bos /\ boMap[h] \in boLive
         /\ \A k \in Handles \ {h} : boMap[k] # boMap[h]
  BY DEF IInv, BoOwnership, ClientInv, MapMatchesOwner, Owned

(* A new buffer object enters the map under a handle nobody owned.         *)
LEMMA BufferEnters ==
  ASSUME IInv, ClientInv, NEW h \in Handles, ~Owned(h), NEW b \in Bos \ boLive,
         NEW how \in {"allocated", "registered"}, SetOwned(h, how),
         boLive' = boLive \cup {b}, boMap' = MapAfterEmplace(h, b), UNCHANGED boData,
         \A t \in Threads : pc[t] # "dec" /\ pc'[t] # "dec"
  PROVE  (MapMatchesOwner /\ LocksBalance)'
<1>1. boMap[h] = Absent /\ held[h] = 0
  BY DEF ClientInv, MapMatchesOwner, OwnedHandles, Owned
<1>2. boMap' = [boMap EXCEPT ![h] = b] /\ owned' = [owned EXCEPT ![h] = how]
  BY <1>1 DEF MapAfterEmplace, SetOwned
<1>3. /\ boMap'[h] = b /\ owned'[h] # "no"
      /\ \A k \in Handles \ {h} : boMap'[k] = boMap[k] /\ owned'[k] = owned[k]
  BY <1>2 DEF IInv, TypeOK, ClientInv, ClientTypes
<1>4. MapMatchesOwner'
  <2>1. \A k \in Handles : IF owned'[k] = "no" THEN boMap'[k] = Absent ELSE boMap'[k] \in Bos
    BY <1>3 DEF ClientInv, MapMatchesOwner
  <2>2. {boMap'[k] : k \in {j \in Handles : owned'[j] # "no"}} =
          {boMap[k] : k \in {j \in Handles : owned[j] # "no"}} \cup {b}
    BY <1>3 DEF Owned
  <2> QED BY <2>1, <2>2 DEF ClientInv, MapMatchesOwner
<1>5. LocksBalance'
  <2> SUFFICES ASSUME NEW k \in Handles, owned'[k] # "no"
               PROVE  (DataOf(boMap[k]).lock_count =
                        held[k] + (IF Unlocking(k) = {} THEN 0 ELSE 1))'
    BY DEF LocksBalance
  <2>1. Unlocking(k) = {} /\ Unlocking(k)' = {} /\ held' = held
    BY DEF Unlocking, SetOwned
  <2>2. CASE k = h
    <3>1. DataOf(boMap[k])' = FreshData
      BY <1>3, <2>2 DEF DataOf, IInv, BoOwnership
    <3> QED BY <1>1, <2>1, <2>2, <3>1 DEF FreshData
  <2>3. CASE k # h
    BY <1>3, <2>1, <2>3 DEF ClientInv, LocksBalance, DataOf
  <2> QED BY <2>2, <2>3
<1> QED BY <1>4, <1>5

(* A buffer the client gives back takes its object and its entry with it.  *)
LEMMA BufferLeaves ==
  ASSUME IInv, ClientInv, NEW h \in Handles, Owned(h), SetOwned(h, "no"), GbmFree(h),
         UNCHANGED callVars
  PROVE  (MapMatchesOwner /\ LocksBalance)'
<1>1. /\ boMap[h] \in Bos
      /\ \A k \in Handles \ {h} : boMap[k] # boMap[h]
  BY OwnBo
<1>2. /\ boMap' = [boMap EXCEPT ![h] = Absent] /\ owned' = [owned EXCEPT ![h] = "no"]
      /\ boLive' = boLive \ {boMap[h]}
      /\ boData' = [boData EXCEPT ![boMap[h]] = NULL]
  BY <1>1 DEF GbmFree, MapAfterErase, SetOwned
<1>3. /\ boMap'[h] = Absent /\ owned'[h] = "no"
      /\ \A k \in Handles \ {h} : boMap'[k] = boMap[k] /\ owned'[k] = owned[k]
  BY <1>2 DEF IInv, TypeOK, ClientInv, ClientTypes
<1>4. MapMatchesOwner'
  <2>1. \A k \in Handles : IF owned'[k] = "no" THEN boMap'[k] = Absent ELSE boMap'[k] \in Bos
    BY <1>3 DEF ClientInv, MapMatchesOwner
  <2>2. {boMap'[k] : k \in {j \in Handles : owned'[j] # "no"}} =
          {boMap[k] : k \in {j \in Handles : owned[j] # "no"}} \ {boMap[h]}
    BY <1>1, <1>3 DEF Owned
  <2> QED BY <1>2, <2>1, <2>2 DEF ClientInv, MapMatchesOwner
<1>5. LocksBalance'
  <2> SUFFICES ASSUME NEW k \in Handles, owned'[k] # "no"
               PROVE  (DataOf(boMap[k]).lock_count =
                        held[k] + (IF Unlocking(k) = {} THEN 0 ELSE 1))'
    BY DEF LocksBalance
  <2>1. k # h /\ boMap'[k] = boMap[k] /\ owned[k] # "no"
    BY <1>3
  <2>2. DataOf(boMap[k])' = DataOf(boMap[k])
    BY <1>1, <1>2, <2>1 DEF DataOf, IInv, TypeOK
  <2>3. Unlocking(k)' = Unlocking(k) /\ held' = held
    BY DEF Unlocking, callVars, SetOwned
  <2> QED BY <2>1, <2>2, <2>3 DEF ClientInv, LocksBalance
<1> QED BY <1>4, <1>5
-----------------------------------------------------------------------------
(* A register that succeeds makes the handle the client's.                 *)
LEMMA ClientRegisterImport ==
  ASSUME IInv, ClientInv, NEW t \in Threads, RegisterImport(t, "OK"),
         SetOwned(arg[t].h, "registered")
  PROVE  ClientInv'
<1> DEFINE h == arg[t].h
<1>1. /\ pc[t] = "import" /\ mutex = t /\ Registering(t)
      /\ h \in Handles /\ ~Owned(h) /\ handle[h] # NULL
  BY DEF RegisterImport, Registering, ClientInv, CallsOwned, IInv, ChecksStillHold
<1>2. ~closed /\ gbm # "destroyed"
  BY <1>1, CallsKeepOpen
<1>3. /\ UNCHANGED <<gbm, handle, boData, fault>> /\ Return(t)
      /\ \E b \in Bos \ boLive : boLive' = boLive \cup {b} /\ boMap' = MapAfterEmplace(h, b)
  BY <1>2 DEF RegisterImport, NoCrash, devVars
<1>4. \A s \in Threads \ {t} : pc[s] \in {"idle", "ready"} /\ pc'[s] = pc[s] /\ arg'[s] = arg[s]
  BY <1>1, <1>3, OnlyHolder DEF Return, Goto, IInv, TypeOK
<1>5. pc'[t] = "idle" /\ ~Registering(t)'
  BY <1>3 DEF Return, Goto, IInv, TypeOK, Registering
<1>6. (MapMatchesOwner /\ LocksBalance)'
  BY <1>1, <1>3, <1>4, <1>5, BufferEnters
<1>7. /\ owned'[h] = "registered" /\ held' = held /\ closed' = closed
      /\ \A k \in Handles \ {h} : owned'[k] = owned[k]
  BY <1>1 DEF SetOwned, ClientInv, ClientTypes
<1>8. (ClientTypes /\ NoFault /\ ClosedLast)'
  <2>1. ClientTypes'
    BY DEF SetOwned, ClientInv, ClientTypes
  <2>2. (NoFault /\ ClosedLast)'
    BY <1>2, <1>3, <1>7 DEF ClientInv, ClientTypes, NoFault, Alive, ClosedLast
  <2> QED BY <2>1, <2>2
<1>9. OwnedHandles'
  BY <1>1, <1>3, <1>7 DEF ClientInv, OwnedHandles, Owned
<1>10. CallsOwned'
  <2>1. ASSUME NEW s \in Threads, Registering(s)'
        PROVE  s # t /\ Registering(s) /\ arg'[s] = arg[s] /\ arg[s].h # h
    <3>1. s # t /\ Registering(s) /\ arg'[s] = arg[s]
      BY <1>4, <1>5, <2>1 DEF Registering
    <3> QED BY <1>1, <3>1 DEF ClientInv, CallsOwned
  <2>2. ASSUME NEW s \in Threads, Registering(s)'
        PROVE  (arg[s].h \in Handles /\ ~Owned(arg[s].h) /\ handle[arg[s].h] # NULL)'
    <3>1. arg[s].h \in Handles /\ ~Owned(arg[s].h) /\ handle[arg[s].h] # NULL
      BY <2>1, <2>2 DEF ClientInv, CallsOwned
    <3> QED BY <1>3, <1>7, <2>1, <2>2, <3>1 DEF Owned
  <2>3. \A s \in Threads : pc'[s] \notin {"map", "dec"}
    BY <1>4, <1>5
  <2>4. \A r, s \in Threads :
          Registering(r)' /\ Registering(s)' /\ arg'[r].h = arg'[s].h => r = s
    BY <2>1 DEF ClientInv, CallsOwned
  <2> QED BY <2>2, <2>3, <2>4 DEF CallsOwned
<1> QED BY <1>6, <1>8, <1>9, <1>10 DEF ClientInv

(* What is left to show of a step without a call in progress: it changes   *)
(* neither the calls nor what they work on, and closes nothing.            *)
LEMMA CallsUntouched ==
  ASSUME IInv, ClientInv, NEW h \in Handles, ~InUse(h), UNCHANGED callVars,
         \A k \in Handles \ {h} : owned'[k] = owned[k] /\ handle'[k] = handle[k]
  PROVE  CallsOwned'
<1>1. \A s \in Threads : Registering(s)' <=> Registering(s)
  BY DEF Registering, callVars
<1>2. \A s \in Threads : pc[s] # "idle" => arg[s].h # h
  BY DEF InUse
<1>3. \A s \in Threads : Registering(s) => pc[s] # "idle"
  BY DEF Registering
<1>4. \A s \in Threads : pc[s] \in {"map", "dec"} => arg[s].h \in Handles
  BY DEF IInv, ChecksStillHold
<1>5. ASSUME NEW s \in Threads, Registering(s)'
      PROVE  (arg[s].h \in Handles /\ ~Owned(arg[s].h) /\ handle[arg[s].h] # NULL)'
  <2>1. arg[s].h \in Handles /\ ~Owned(arg[s].h) /\ handle[arg[s].h] # NULL /\ arg[s].h # h
    BY <1>1, <1>2, <1>3, <1>5 DEF ClientInv, CallsOwned
  <2> QED BY <2>1 DEF Owned, callVars
<1>6. ASSUME NEW s \in Threads, pc'[s] \in {"map", "dec"}
      PROVE  Owned(arg[s].h)'
  <2>1. arg[s].h \in Handles /\ Owned(arg[s].h) /\ arg[s].h # h
    BY <1>2, <1>4, <1>6 DEF ClientInv, CallsOwned, callVars
  <2> QED BY <2>1 DEF Owned, callVars
<1>7. \A r, s \in Threads :
        Registering(r)' /\ Registering(s)' /\ arg'[r].h = arg'[s].h => r = s
  BY <1>1 DEF ClientInv, CallsOwned, callVars
<1> QED BY <1>5, <1>6, <1>7 DEF CallsOwned

(* A handle nobody owns has no call in progress when there is no handle.   *)
LEMMA NoHandleNoCall ==
  ASSUME IInv, ClientInv, NEW h \in Handles, handle[h] = NULL, mutex = NULL,
         NEW s \in Threads, Registering(s)
  PROVE  arg[s].h # h
  BY DEF ClientInv, CallsOwned

(* alloc succeeds: the handle is new, so no call works on it.              *)
LEMMA ClientAllocStep ==
  ASSUME IInv, ClientInv, ~closed, NEW t \in Threads, NEW h \in Handles, NEW u \in Usages,
         ClientAlloc(t, h, u)
  PROVE  ClientInv'
<1>1. gbm # "destroyed" /\ mutex = NULL /\ handle[h] = NULL
  BY DEF ClientAlloc, Alloc, Critical, ClientInv, ClosedLast
<1>2. ~Owned(h)
  BY <1>1 DEF ClientInv, OwnedHandles
<1>3. \A s \in Threads : pc[s] \in {"idle", "ready"}
  BY <1>1, OnlyHolder, GrallocAssumption
<1>4. CASE Alloc(t, h, u, "OK") /\ SetOwned(h, "allocated")
  <2>1. /\ UNCHANGED <<gbm, boData, callVars, fault>>
        /\ handle' = [handle EXCEPT ![h] = [origin |-> "local", usage |-> u]]
        /\ \E b \in Bos \ boLive : boLive' = boLive \cup {b} /\ boMap' = MapAfterEmplace(h, b)
    BY <1>1, <1>4 DEF Alloc, NoCrash, devVars
  <2>2. (MapMatchesOwner /\ LocksBalance)'
    BY <1>2, <1>3, <1>4, <2>1, BufferEnters DEF callVars
  <2>3. /\ owned'[h] = "allocated" /\ handle'[h] # NULL
        /\ held' = held /\ closed' = closed
        /\ \A k \in Handles \ {h} : owned'[k] = owned[k] /\ handle'[k] = handle[k]
    <3>1. [origin |-> "local", usage |-> u] \in Native
      BY GrallocAssumption DEF Native
    <3> QED BY <1>4, <2>1, <3>1, GrallocAssumption
            DEF SetOwned, ClientInv, ClientTypes, IInv, TypeOK
  <2>4. ClientTypes'
    BY <1>4 DEF SetOwned, ClientInv, ClientTypes
  <2>5. (NoFault /\ ClosedLast)'
    BY <1>1, <2>1, <2>3 DEF ClientInv, ClientTypes, NoFault, Alive, ClosedLast
  <2>6. OwnedHandles'
    BY <2>3 DEF ClientInv, OwnedHandles, Owned
  <2>7. CallsOwned'
    <3>1. \A s \in Threads : Registering(s)' <=> Registering(s)
      BY <2>1 DEF Registering, callVars
    <3>2. ASSUME NEW s \in Threads, Registering(s)'
          PROVE  (arg[s].h \in Handles /\ ~Owned(arg[s].h) /\ handle[arg[s].h] # NULL)'
      <4>1. /\ arg[s].h \in Handles /\ ~Owned(arg[s].h) /\ handle[arg[s].h] # NULL
            /\ arg[s].h # h
        BY <1>1, <3>1, <3>2, NoHandleNoCall DEF ClientInv, CallsOwned
      <4> QED BY <2>1, <2>3, <4>1 DEF Owned, callVars
    <3>3. \A s \in Threads : pc'[s] \notin {"map", "dec"}
      BY <1>3, <2>1 DEF callVars
    <3>4. \A r, s \in Threads :
            Registering(r)' /\ Registering(s)' /\ arg'[r].h = arg'[s].h => r = s
      BY <2>1, <3>1 DEF ClientInv, CallsOwned, callVars
    <3> QED BY <3>2, <3>3, <3>4 DEF CallsOwned
  <2> QED BY <2>2, <2>4, <2>5, <2>6, <2>7 DEF ClientInv
<1>5. CASE \E e \in {"ENOMEM", "pending"} : Alloc(t, h, u, e) /\ UNCHANGED clientVars
  <2>1. UNCHANGED <<gbm, handle, bufVars, callVars, fault, clientVars>>
    BY <1>1, <1>5 DEF Alloc, NoCrash, devVars
  <2> QED BY <2>1, SameBalance, SameMap
          DEF ClientInv, ClientTypes, NoFault, Alive, OwnedHandles, CallsOwned, ClosedLast,
              Owned, Registering, bufVars, callVars, clientVars
<1> QED BY <1>4, <1>5 DEF ClientAlloc

(* What a client gives back had no lock left and no call on it.            *)
LEMMA ClientGivesBack ==
  ASSUME IInv, ClientInv, ~closed, NEW t \in Threads, NEW h \in Handles,
         ClientUnregister(t, h) \/ ClientFree(t, h)
  PROVE  ClientInv'
<1>1. Owned(h) /\ held[h] = 0 /\ ~InUse(h) /\ SetOwned(h, "no")
  BY DEF ClientUnregister, ClientFree, Quiet, Owned
<1>2. gbm # "destroyed"
  BY DEF ClientInv, ClosedLast
<1>3. /\ GbmFree(h) /\ UNCHANGED <<gbm, callVars, fault>>
      /\ handle' = handle \/ handle' = [handle EXCEPT ![h] = NULL]
  BY <1>2 DEF ClientUnregister, ClientFree, Unregister, Free, NoCrash, devVars
<1>4. (MapMatchesOwner /\ LocksBalance)'
  BY <1>1, <1>3, BufferLeaves
<1>5. /\ owned'[h] = "no" /\ held' = held /\ closed' = closed
      /\ \A k \in Handles \ {h} : owned'[k] = owned[k] /\ handle'[k] = handle[k]
  BY <1>1, <1>3 DEF SetOwned, ClientInv, ClientTypes, IInv, TypeOK
<1>6. ClientTypes'
  BY <1>1 DEF SetOwned, ClientInv, ClientTypes
<1>7. (NoFault /\ ClosedLast)'
  BY <1>2, <1>3, <1>5 DEF ClientInv, ClientTypes, NoFault, Alive, ClosedLast
<1>8. OwnedHandles'
  BY <1>1, <1>5 DEF ClientInv, OwnedHandles, Owned
<1>9. CallsOwned'
  BY <1>1, <1>3, <1>5, CallsUntouched
<1> QED BY <1>4, <1>6, <1>7, <1>8, <1>9 DEF ClientInv

(* Handles nobody owns come and go.                                        *)
LEMMA ClientHandleStep ==
  ASSUME IInv, ClientInv, NEW h \in Handles,
         \/ ClientDelete(h)
         \/ \E u \in Usages : ReceiveHandle(h, u) /\ UNCHANGED clientVars
  PROVE  ClientInv'
<1>1. /\ UNCHANGED <<gbm, bufVars, callVars, fault, clientVars>>
      /\ \A k \in Handles \ {h} : handle'[k] = handle[k]
  BY DEF ClientDelete, DeleteHandle, ReceiveHandle, NoCrash, devVars, IInv, TypeOK
<1>2. ~Owned(h)
  BY DEF ClientDelete, ReceiveHandle, ClientInv, OwnedHandles, Owned
<1>3. ~InUse(h) \/ handle[h] = NULL
  BY DEF ClientDelete, DeleteHandle, ReceiveHandle
<1>4. (ClientTypes /\ NoFault /\ ClosedLast)'
  BY <1>1 DEF ClientInv, ClientTypes, NoFault, Alive, ClosedLast, Owned, clientVars, callVars
<1>5. (MapMatchesOwner /\ LocksBalance)'
  BY <1>1, SameMap, SameBalance DEF ClientInv, clientVars, callVars, bufVars
<1>6. OwnedHandles'
  BY <1>1, <1>2 DEF ClientInv, OwnedHandles, Owned, clientVars
<1>7. CallsOwned'
  <2>1. \A s \in Threads : Registering(s) => arg[s].h # h
    BY <1>3 DEF InUse, Registering, ClientInv, CallsOwned
  <2>2. \A s \in Threads : Registering(s)' <=> Registering(s)
    BY <1>1 DEF Registering, callVars
  <2> QED BY <1>1, <2>1, <2>2 DEF ClientInv, CallsOwned, Owned, callVars, clientVars
<1> QED BY <1>4, <1>5, <1>6, <1>7 DEF ClientInv

(* close comes last: nothing is owned and no call runs.                    *)
LEMMA ClientCloseStep ==
  ASSUME IInv, ClientInv, ~closed, NEW t \in Threads, ClientClose(t)
  PROVE  ClientInv'
<1>1. gbm # "destroyed"
  BY DEF ClientInv, ClosedLast
<1>2. /\ UNCHANGED <<handle, bufVars, callVars, fault, owned, held>> /\ closed' = TRUE
      /\ (\A h \in Handles : ~Owned(h)) /\ (\A s \in Threads : pc[s] = "idle")
  BY <1>1 DEF ClientClose, CloseGpu0, NoCrash, NoCallInProgress, Owned
<1>3. (ClientTypes /\ NoFault /\ ClosedLast)'
  BY <1>2 DEF ClientInv, ClientTypes, NoFault, Alive, ClosedLast, Owned, callVars
<1>4. (MapMatchesOwner /\ LocksBalance)'
  BY <1>2, SameMap, SameBalance DEF ClientInv, callVars, bufVars
<1>5. (OwnedHandles /\ CallsOwned)'
  BY <1>2 DEF ClientInv, OwnedHandles, CallsOwned, Registering, Owned, callVars
<1> QED BY <1>3, <1>4, <1>5 DEF ClientInv
-----------------------------------------------------------------------------
(* When the lock data of one owned handle changes, the counts balance if   *)
(* its own does.                                                           *)
LEMMA OneBalance ==
  ASSUME IInv, ClientInv, NEW h \in Handles, Owned(h), NEW d, d # NULL,
         boData' = [boData EXCEPT ![boMap[h]] = d], UNCHANGED <<boMap, owned>>,
         d.lock_count = held'[h] + (IF Unlocking(h)' = {} THEN 0 ELSE 1),
         \A k \in Handles \ {h} : held'[k] = held[k] /\ Unlocking(k)' = Unlocking(k)
  PROVE  LocksBalance'
<1>1. boMap[h] \in Bos /\ \A k \in Handles \ {h} : boMap[k] # boMap[h]
  BY OwnBo
<1>2. boData'[boMap'[h]] = d
  BY <1>1 DEF IInv, TypeOK
<1>3. DataOf(boMap[h])' = d
  BY <1>2 DEF DataOf
<1>4. ASSUME NEW k \in Handles \ {h}, owned'[k] # "no"
      PROVE  DataOf(boMap[k])' = DataOf(boMap[k])
  BY <1>1, <1>4 DEF DataOf, IInv, TypeOK
<1> QED BY <1>3, <1>4 DEF ClientInv, LocksBalance

(* A step of a lock or an unlock changes no map, no owner and no register. *)
LEMMA LockCallMoves ==
  ASSUME IInv, ClientInv, ~closed, NEW t \in Threads, NEW label \in {"idle", "map", "dec"},
         NEW call, Goto(t, label, call), ~Registering(t),
         label # "idle" => Owned(call.h),
         UNCHANGED <<gbm, handle, boMap, boLive, owned, closed, fault>>,
         held' \in [Handles -> Nat],
         \A h \in Handles : ~Owned(h) => held'[h] = held[h],
         LocksBalance'
  PROVE  ClientInv'
<1>1. /\ pc'[t] = label /\ arg'[t] = call
      /\ \A s \in Threads \ {t} : pc'[s] = pc[s] /\ arg'[s] = arg[s]
  BY DEF Goto, IInv, TypeOK, Labels
<1>2. (ClientTypes /\ NoFault /\ ClosedLast /\ MapMatchesOwner)'
  BY SameMap DEF ClientInv, ClientTypes, NoFault, Alive, ClosedLast
<1>3. OwnedHandles'
  BY DEF ClientInv, OwnedHandles, Owned
<1>4. CallsOwned'
  <2>1. \A s \in Threads : Registering(s)' => s # t /\ Registering(s) /\ arg'[s] = arg[s]
    BY <1>1 DEF Registering
  <2>2. ASSUME NEW s \in Threads, Registering(s)'
        PROVE  (arg[s].h \in Handles /\ ~Owned(arg[s].h) /\ handle[arg[s].h] # NULL)'
    <3>1. arg[s].h \in Handles /\ ~Owned(arg[s].h) /\ handle[arg[s].h] # NULL
      BY <2>1, <2>2 DEF ClientInv, CallsOwned
    <3> QED BY <2>1, <2>2, <3>1 DEF Owned
  <2>3. ASSUME NEW s \in Threads, pc'[s] \in {"map", "dec"}
        PROVE  Owned(arg[s].h)'
    <3>1. CASE s = t
      BY <1>1, <2>3, <3>1 DEF Owned
    <3>2. CASE s # t
      <4>1. Owned(arg[s].h) /\ arg'[s] = arg[s]
        BY <1>1, <2>3, <3>2 DEF ClientInv, CallsOwned
      <4> QED BY <4>1 DEF Owned
    <3> QED BY <3>1, <3>2
  <2>4. \A r, s \in Threads :
          Registering(r)' /\ Registering(s)' /\ arg'[r].h = arg'[s].h => r = s
    BY <2>1 DEF ClientInv, CallsOwned
  <2> QED BY <2>2, <2>3, <2>4 DEF CallsOwned
<1> QED BY <1>2, <1>3, <1>4 DEF ClientInv

(* The first step of a lock attaches data, but counts nothing.             *)
LEMMA ClientLockStep ==
  ASSUME IInv, ClientInv, ~closed, NEW t \in Threads, NEW h \in Handles, NEW u \in Usages,
         ClientLock(t, h, u)
  PROVE  ClientInv'
<1> DEFINE b == boMap[h]
           call == [op |-> "lock", h |-> h, usage |-> u]
<1>1. Owned(h) /\ b \in Bos /\ pc[t] = "idle" /\ mutex = NULL
  BY OwnBo DEF ClientLock, LockEnter, Start, Owned, Critical, Enter
<1>2. \A s \in Threads : pc[s] # "dec"
  BY <1>1, OnlyHolder, GrallocAssumption
<1>3. /\ UNCHANGED <<gbm, handle, boMap, boLive, clientVars, fault>>
      /\ boData' = boData \/ boData' = [boData EXCEPT ![b] = DataOf(b)]
      /\ UNCHANGED callVars \/ Goto(t, "map", call)
  BY <1>1 DEF ClientLock, LockEnter, NoCrash, devVars
<1>4. pc' = pc \/ (pc'[t] = "map" /\ \A s \in Threads \ {t} : pc'[s] = pc[s])
  BY <1>3 DEF Goto, callVars, IInv, TypeOK
<1>5. \A k \in Handles : Unlocking(k) = {} /\ Unlocking(k)' = {}
  BY <1>2, <1>4 DEF Unlocking
<1>6. LocksBalance'
  <2>1. CASE boData' = boData
    BY <1>3, <1>5, <2>1 DEF ClientInv, LocksBalance, DataOf, clientVars
  <2>2. CASE boData' = [boData EXCEPT ![b] = DataOf(b)]
    <3>1. DataOf(b) # NULL
      BY <1>1, DataOfType, GrallocAssumption DEF IInv
    <3>2. DataOf(b).lock_count = held'[h] + 0
      BY <1>1, <1>3, <1>5 DEF ClientInv, LocksBalance, clientVars, Owned
    <3> QED BY <1>1, <1>3, <1>5, <2>2, <3>1, <3>2, OneBalance DEF clientVars
  <2> QED BY <1>3, <2>1, <2>2
<1>7. CASE UNCHANGED callVars
  BY <1>3, <1>6, <1>7, SameMap
     DEF ClientInv, ClientTypes, NoFault, Alive, OwnedHandles, CallsOwned, ClosedLast, Owned,
         Registering, callVars, clientVars
<1>8. CASE Goto(t, "map", call)
  <2>1. ~Registering(t) /\ call.h = h
    BY <1>1 DEF Registering
  <2>2. held' \in [Handles -> Nat]
    BY <1>3 DEF clientVars, ClientInv, ClientTypes
  <2> QED BY <1>1, <1>3, <1>6, <1>8, <2>1, <2>2, LockCallMoves DEF clientVars
<1> QED BY <1>3, <1>7, <1>8

(* A lock that is granted is counted by the HAL and by the client.         *)
LEMMA ClientLockGranted ==
  ASSUME IInv, ClientInv, NEW t \in Threads, LockMap(t, "OK"),
         held' = [held EXCEPT ![arg[t].h] = @ + 1], UNCHANGED <<owned, closed>>
  PROVE  ClientInv'
<1>0. PICK h \in Handles : h = arg[t].h
  BY DEF LockMap, IInv, ChecksStillHold
<1> DEFINE d == boData[boMap[h]]
<1>1. /\ pc[t] = "map" /\ mutex = t /\ h \in Handles /\ Owned(h)
      /\ boMap[h] \in Bos /\ d # NULL /\ d \in BoData
  BY <1>0 DEF LockMap, IInv, ChecksStillHold, TypeOK, ClientInv, CallsOwned
<1>2. ~closed /\ gbm # "destroyed"
  BY <1>1, CallsKeepOpen
<1>3. /\ boData' = [boData EXCEPT ![boMap[h]] = AfterLock(d, arg[t].usage)]
      /\ UNCHANGED <<gbm, handle, boMap, boLive, fault>> /\ Goto(t, "idle", NULL)
  BY <1>0, <1>2 DEF LockMap, Return, NoCrash, devVars
<1>4. \A s \in Threads : pc[s] # "dec" /\ pc'[s] # "dec"
  BY <1>1, <1>3, OnlyHolder DEF Goto, IInv, TypeOK
<1>5. \A k \in Handles : Unlocking(k) = {} /\ Unlocking(k)' = {}
  BY <1>4 DEF Unlocking
<1>6. /\ held'[h] = held[h] + 1 /\ held' \in [Handles -> Nat]
      /\ \A k \in Handles \ {h} : held'[k] = held[k]
  BY <1>0 DEF ClientInv, ClientTypes
<1>7. d.lock_count = held[h]
  <2>1. d.lock_count = held[h] + 0
    BY <1>1, <1>5 DEF ClientInv, LocksBalance, DataOf, Owned
  <2> QED BY <1>1, <2>1 DEF ClientInv, ClientTypes
<1>8. AfterLock(d, arg[t].usage).lock_count = held'[h] + 0
  BY <1>1, <1>6, <1>7 DEF AfterLock, ClientInv, ClientTypes
<1>9. AfterLock(d, arg[t].usage) # NULL
  <2>1. arg[t].usage \in SUBSET UsageBits
    BY <1>1, GrallocAssumption DEF IInv, ChecksStillHold
  <2> QED BY <1>1, <2>1, AfterLockType, GrallocAssumption
<1>10. LocksBalance'
  <2> DEFINE after == AfterLock(d, arg[t].usage)
  <2>1. after.lock_count = held'[h] + (IF Unlocking(h)' = {} THEN 0 ELSE 1)
    BY <1>1, <1>5, <1>8
  <2>2. \A k \in Handles \ {h} : held'[k] = held[k] /\ Unlocking(k)' = Unlocking(k)
    BY <1>5, <1>6
  <2>3. after # NULL /\ boData' = [boData EXCEPT ![boMap[h]] = after]
    BY <1>3, <1>9
  <2> HIDE DEF after
  <2> QED BY <1>1, <1>3, <2>1, <2>2, <2>3, OneBalance
<1>11. ~Registering(t)
  BY <1>1 DEF Registering
<1> QED BY <1>0, <1>1, <1>2, <1>3, <1>6, <1>10, <1>11, LockCallMoves

(* An unlock finds a lock to give back.                                    *)
LEMMA ClientUnlockStep ==
  ASSUME IInv, ClientInv, ~closed, NEW t \in Threads, NEW h \in Handles,
         ClientUnlock(t, h)
  PROVE  ClientInv'
<1> DEFINE b == boMap[h]
           d == boData[b]
           call == [op |-> "unlock", h |-> h, usage |-> {}]
<1>1. /\ held[h] > 0 /\ pc[t] = "idle" /\ mutex = NULL /\ held[h] \in Nat
      /\ held' = [held EXCEPT ![h] = @ - 1] /\ UNCHANGED <<owned, closed>>
  BY DEF ClientUnlock, MayUnlock, UnlockEnter, Start, Critical, Enter, ClientInv, ClientTypes
<1>2. Owned(h) /\ gbm # "destroyed"
  BY <1>1 DEF ClientInv, OwnedHandles, ClosedLast
<1>3. b \in Bos
  BY <1>2, OwnBo
<1>4. \A s \in Threads : pc[s] # "dec"
  BY <1>1, OnlyHolder, GrallocAssumption
<1>5. \A k \in Handles : Unlocking(k) = {}
  BY <1>4 DEF Unlocking
<1>6. DataOf(b).lock_count = held[h]
  BY <1>1, <1>2, <1>5 DEF ClientInv, LocksBalance, Owned
<1>7. d # NULL /\ d \in BoData /\ d.lock_count = held[h]
  BY <1>1, <1>3, <1>6 DEF DataOf, FreshData, IInv, TypeOK
<1>8. /\ boData' = [boData EXCEPT ![b] = AfterUnmap(d)]
      /\ UNCHANGED <<gbm, handle, boMap, boLive, fault>> /\ Goto(t, "dec", call)
  BY <1>1, <1>2, <1>3, <1>7 DEF ClientUnlock, UnlockEnter, Unlocked, NoCrash, devVars
<1>9. AfterUnmap(d) # NULL /\ AfterUnmap(d).lock_count = d.lock_count
  BY <1>7, AfterUnmapFields, GrallocAssumption
<1>10. /\ pc'[t] = "dec" /\ arg'[t].h = h
       /\ \A s \in Threads \ {t} : pc'[s] # "dec"
  BY <1>4, <1>8 DEF Goto, IInv, TypeOK
<1>11. t \in Unlocking(h)' /\ \A k \in Handles \ {h} : Unlocking(k)' = {}
  BY <1>10 DEF Unlocking
<1>12. /\ held' \in [Handles -> Nat] /\ held'[h] = held[h] - 1
       /\ \A k \in Handles \ {h} : held'[k] = held[k]
  BY <1>1 DEF ClientInv, ClientTypes
<1>13. AfterUnmap(d).lock_count = held'[h] + (IF Unlocking(h)' = {} THEN 0 ELSE 1)
  BY <1>1, <1>7, <1>9, <1>11, <1>12
<1>14. LocksBalance'
  BY <1>1, <1>2, <1>5, <1>8, <1>9, <1>11, <1>12, <1>13, OneBalance
<1>15. ~Registering(t) /\ call.h = h
  BY <1>1 DEF Registering
<1> QED BY <1>1, <1>2, <1>8, <1>12, <1>14, <1>15, LockCallMoves

(* The HAL's count follows the client's.                                   *)
LEMMA ClientUnlockDec ==
  ASSUME IInv, ClientInv, NEW t \in Threads, UnlockDec(t), UNCHANGED clientVars
  PROVE  ClientInv'
<1>0. PICK h \in Handles : h = arg[t].h
  BY DEF UnlockDec, IInv, ChecksStillHold
<1> DEFINE d == boData[boMap[h]]
<1>1. /\ pc[t] = "dec" /\ mutex = t /\ Owned(h)
      /\ boMap[h] \in Bos /\ d # NULL /\ d \in BoData /\ d.lock_count > 0
  BY <1>0 DEF UnlockDec, IInv, ChecksStillHold, TypeOK, ClientInv, CallsOwned
<1>2. ~closed
  BY <1>1, CallsKeepOpen
<1>3. /\ boData' = [boData EXCEPT ![boMap[h]] = AfterUnlock(d)]
      /\ UNCHANGED <<gbm, handle, boMap, boLive, fault, owned, held, closed>>
      /\ Goto(t, "idle", NULL)
  BY <1>0 DEF UnlockDec, Return, NoCrash, devVars, clientVars
<1>4. \A s \in Threads : pc'[s] # "dec" /\ (pc[s] = "dec" => s = t)
  BY <1>1, <1>3, OnlyHolder DEF Goto, IInv, TypeOK
<1>5. /\ t \in Unlocking(h) /\ \A k \in Handles \ {h} : Unlocking(k) = {}
      /\ \A k \in Handles : Unlocking(k)' = {}
  BY <1>0, <1>1, <1>4 DEF Unlocking
<1>6. d.lock_count = held[h] + 1
  BY <1>1, <1>5 DEF ClientInv, LocksBalance, DataOf, Owned
<1>7. AfterUnlock(d) # NULL /\ AfterUnlock(d).lock_count = d.lock_count - 1
  BY <1>1, AfterUnlockFields, GrallocAssumption
<1>8. held[h] \in Nat /\ held' \in [Handles -> Nat]
  BY <1>3 DEF ClientInv, ClientTypes
<1>9. AfterUnlock(d).lock_count = held'[h] + (IF Unlocking(h)' = {} THEN 0 ELSE 1)
  BY <1>3, <1>5, <1>6, <1>7, <1>8
<1>10. LocksBalance'
  BY <1>1, <1>3, <1>5, <1>7, <1>9, OneBalance
<1>11. ~Registering(t)
  BY <1>1 DEF Registering
<1> QED BY <1>2, <1>3, <1>8, <1>10, <1>11, LockCallMoves
-----------------------------------------------------------------------------
(* A register begins on a handle that is the client's to register.         *)
LEMMA ClientRegisterStep ==
  ASSUME IInv, ClientInv, ~closed, NEW t \in Threads, NEW h \in Handles,
         ClientRegister(t, h)
  PROVE  ClientInv'
<1>1. RegisterCall(h) \in Call /\ RegisterCall(h).h = h
  BY DEF RegisterCall, Call, Ops
<1>2. ~Owned(h) /\ handle[h] # NULL /\ ~InUse(h)
  BY DEF ClientRegister, Owned
<1> QED BY <1>1, <1>2, ClientGbmInit DEF ClientRegister

(* Steps of calls in progress.                                             *)
LEMMA ClientStepInv ==
  ASSUME IInv, ClientInv, NEW t \in Threads, ClientStep(t)
  PROVE  ClientInv'
<1>1. CASE RegisterImport(t, "OK") /\ SetOwned(arg[t].h, "registered")
  BY <1>1, ClientRegisterImport
<1>2. CASE /\ LockMap(t, "OK")
           /\ held' = [held EXCEPT ![arg[t].h] = @ + 1] /\ UNCHANGED <<owned, closed>>
  BY <1>2, ClientLockGranted
<1>3. CASE UnlockDec(t) /\ UNCHANGED clientVars
  BY <1>3, ClientUnlockDec
<1>4. CASE /\ \/ OpenGpu0(t)
              \/ \E e \in Codes : GbmDevCreate(t, e) \/ Perform(t, e) \/ RegisterCheck(t, e)
              \/ \E e \in Codes \ {"OK"} : RegisterImport(t, e) \/ LockMap(t, e)
           /\ UNCHANGED clientVars
  BY <1>4, ClientCallMoves
<1> QED BY <1>1, <1>2, <1>3, <1>4 DEF ClientStep

(* Every step of the client keeps the invariant.                           *)
LEMMA NextClientInv == IInv /\ ClientInv /\ [ClientNext]_allVars => ClientInv'
<1> SUFFICES ASSUME IInv, ClientInv, [ClientNext]_allVars PROVE ClientInv'
  OBVIOUS
<1>1. CASE UNCHANGED allVars
  BY <1>1, SameMap, SameBalance
     DEF allVars, vars, devVars, bufVars, callVars, clientVars, ClientInv, ClientTypes, NoFault,
         Alive, OwnedHandles, CallsOwned, ClosedLast, Owned, Registering
<1>2. ASSUME NEW t \in Threads, ClientStep(t) PROVE ClientInv'
  BY <1>2, ClientStepInv
<1>3. ASSUME NEW t \in Threads, ~closed, ClientClose(t) PROVE ClientInv'
  BY <1>3, ClientCloseStep
<1>4. ASSUME NEW t \in Threads, ~closed, UNCHANGED clientVars,
             GbmInit(t, OpenCall) \/ GbmInit(t, PerformCall)
      PROVE  ClientInv'
  <2>1. /\ OpenCall \in Call /\ OpenCall.op # "register"
        /\ PerformCall \in Call /\ PerformCall.op # "register"
    BY DEF OpenCall, PerformCall, Call, Ops
  <2> QED BY <1>4, <2>1, ClientGbmInit
<1>5. ASSUME NEW t \in Threads, NEW h \in Handles, ~closed,
             \/ ClientRegister(t, h) \/ ClientUnregister(t, h)
             \/ ClientFree(t, h) \/ ClientUnlock(t, h)
             \/ \E u \in Usages : ClientAlloc(t, h, u) \/ ClientLock(t, h, u)
      PROVE  ClientInv'
  BY <1>5, ClientRegisterStep, ClientGivesBack, ClientUnlockStep, ClientAllocStep,
     ClientLockStep
<1>6. ASSUME NEW h \in Handles,
             \/ ClientDelete(h)
             \/ \E u \in Usages : ReceiveHandle(h, u) /\ UNCHANGED clientVars
      PROVE  ClientInv'
  BY <1>6, ClientHandleStep
<1> QED BY <1>1, <1>2, <1>3, <1>4, <1>5, <1>6 DEF ClientNext

(* Both invariants hold under an orderly client.                           *)
THEOREM ClientInvHolds == ClientSpec => [](IInv /\ ClientInv)
<1>1. ClientInit => IInv /\ ClientInv
  BY InitIInv, InitClientInv DEF ClientInit
<1>2. IInv /\ ClientInv /\ [ClientNext]_allVars => (IInv /\ ClientInv)'
  BY NextIInv, NextClientInv, ClientStepsAreSteps
<1> QED BY <1>1, <1>2, PTL DEF ClientSpec

(* A client that keeps the order never makes the HAL use a destroyed       *)
(* device (gralloc.cpp:158 leaves the pointer) or missing lock data        *)
(* (gralloc_gbm.cpp:461 reads through them).                               *)
THEOREM OrderlyClientsAreSafe == ClientSpec => []NoFault
<1>1. ClientInv => NoFault
  BY DEF ClientInv
<1> QED BY <1>1, ClientInvHolds, PTL

(* The handle map is what the client owns: no entry that a lookup inserted *)
(* and no buffer object is left behind.                                    *)
THEOREM MapIsWhatIsOwned == ClientSpec => []MapMatchesOwner
<1>1. ClientInv => MapMatchesOwner
  BY DEF ClientInv
<1> QED BY <1>1, ClientInvHolds, PTL

(* Locks are counted once each, whatever fails and however threads         *)
(* interleave.                                                             *)
THEOREM LocksAreBalanced == ClientSpec => []LocksBalance
<1>1. ClientInv => LocksBalance
  BY DEF ClientInv
<1> QED BY <1>1, ClientInvHolds, PTL

(* Of the steps of a client, only those that give a buffer back destroy    *)
(* its object.                                                             *)
LEMMA OnlyGivingBackDestroys ==
  ASSUME [ClientNext]_allVars, NEW b \in boLive \ boLive'
  PROVE  \E t \in Threads, h \in Handles : ClientUnregister(t, h) \/ ClientFree(t, h)
<1>1. ~UNCHANGED boLive
  OBVIOUS
<1>2. ~UNCHANGED vars
  BY <1>1 DEF vars, bufVars
<1>3. ASSUME NEW t \in Threads, NEW c, GbmInit(t, c) PROVE UNCHANGED boLive
  BY <1>3 DEF GbmInit, bufVars
<1>4. ASSUME NEW t \in Threads, ClientStep(t) PROVE b \in boLive'
  <2>1. CASE \E e \in Codes : RegisterImport(t, e) \/ LockMap(t, e)
    BY <2>1 DEF RegisterImport, LockMap, Crash, bufVars
  <2>2. CASE OpenGpu0(t) \/ UnlockDec(t) \/ \E e \in Codes : GbmDevCreate(t, e)
    BY <2>2 DEF OpenGpu0, UnlockDec, GbmDevCreate, bufVars
  <2>3. CASE \E e \in Codes : Perform(t, e) \/ RegisterCheck(t, e)
    BY <2>3 DEF Perform, RegisterCheck, Crash, bufVars
  <2> QED BY <1>4, <2>1, <2>2, <2>3 DEF ClientStep, Codes
<1>5. ASSUME NEW t \in Threads, ClientClose(t) PROVE UNCHANGED boLive
  BY <1>5 DEF ClientClose, CloseGpu0, Crash, bufVars
<1>6. ASSUME NEW t \in Threads, NEW h \in Handles, NEW u \in Usages, ClientAlloc(t, h, u)
      PROVE  b \in boLive'
  BY <1>6 DEF ClientAlloc, Alloc, Crash, bufVars
<1>7. ASSUME NEW t \in Threads, NEW h \in Handles, NEW u \in Usages, ClientLock(t, h, u)
      PROVE  UNCHANGED boLive
  BY <1>7 DEF ClientLock, LockEnter, Crash, bufVars
<1>8. ASSUME NEW t \in Threads, NEW h \in Handles, ClientUnlock(t, h)
      PROVE  UNCHANGED boLive
  BY <1>8 DEF ClientUnlock, UnlockEnter, Crash, bufVars
<1>9. ASSUME NEW t \in Threads, NEW h \in Handles, ClientRegister(t, h)
      PROVE  UNCHANGED boLive
  BY <1>3, <1>9 DEF ClientRegister
<1>10. ASSUME NEW h \in Handles,
              ClientDelete(h) \/ \E u \in Usages : ReceiveHandle(h, u)
       PROVE  UNCHANGED boLive
  BY <1>10 DEF ClientDelete, DeleteHandle, ReceiveHandle, bufVars
<1>11. ClientNext
  BY <1>2 DEF allVars
<1>12. ASSUME NEW t \in Threads,
              \/ ClientClose(t)
              \/ GbmInit(t, OpenCall) \/ GbmInit(t, PerformCall)
              \/ \E h \in Handles :
                   \/ ClientRegister(t, h) \/ ClientUnlock(t, h)
                   \/ \E u \in Usages : ClientAlloc(t, h, u) \/ ClientLock(t, h, u)
       PROVE  b \in boLive'
  BY <1>3, <1>5, <1>6, <1>7, <1>8, <1>9, <1>12
<1> QED BY <1>4, <1>10, <1>11, <1>12 DEF ClientNext

(* gbm_free (gralloc_gbm.cpp:241) destroys a buffer object without looking *)
(* at its locks and its mapping; an orderly client leaves it neither.      *)
THEOREM BuffersAreDestroyedAtRest == ClientSpec => DestroyedAtRest
<1>1. ASSUME IInv, ClientInv, [ClientNext]_allVars,
             NEW b \in boLive \ boLive', boData[b] # NULL
      PROVE  boData[b].lock_count = 0 /\ ~boData[b].map_data
  <2>1. PICK t \in Threads, h \in Handles : ClientUnregister(t, h) \/ ClientFree(t, h)
    BY <1>1, OnlyGivingBackDestroys
  <2>2. owned[h] # "no" /\ held[h] = 0 /\ ~InUse(h)
    BY <2>1 DEF ClientUnregister, ClientFree, Quiet
  <2>3. GbmFree(h) \/ UNCHANGED boLive
    BY <2>1 DEF ClientUnregister, ClientFree, Unregister, Free, Crash, bufVars
  <2>4. b = boMap[h] /\ b \in Bos
    BY <1>1, <2>3 DEF GbmFree
  <2>5. Unlocking(h) = {}
    BY <2>2 DEF Unlocking, InUse
  <2>6. DataOf(b) = boData[b]
    BY <1>1 DEF DataOf
  <2>7. boData[b].lock_count = 0
    BY <2>2, <2>4, <2>5, <2>6, <1>1 DEF ClientInv, LocksBalance
  <2>8. boData[b].map_data => boData[b].lock_count = 1
    BY <1>1, <2>4 DEF IInv, CpuLockExclusive
  <2> QED BY <2>7, <2>8
<1>2. IInv /\ ClientInv /\ [ClientNext]_allVars
        => [\A b \in boLive \ boLive' : boData[b] # NULL =>
              boData[b].lock_count = 0 /\ ~boData[b].map_data]_allVars
  BY <1>1
<1> QED BY <1>2, ClientInvHolds, PTL DEF ClientSpec, DestroyedAtRest

(* An orderly client is a client: what Gralloc guarantees to any callers   *)
(* it guarantees to this one.                                              *)
THEOREM ClientsAreCallers == ClientSpec => Spec
  BY ClientStepsAreSteps, PTL DEF ClientSpec, ClientInit, Spec

(* What an orderly client sees of lock and unlock, threads and driver      *)
(* calls included, is the lock table of BufferLocks.                       *)
THEOREM ClientsSeeBufferLocks == ClientSpec => ImplementsBufferLocks
  BY ClientsAreCallers, GrallocImplementsBufferLocks
=============================================================================
