--------------------------- MODULE AudioHalProofs ---------------------------
(***************************************************************************)
(* Proofs that, whatever the callers do, a stream and its pcm agree on     *)
(* standby and a write keeps the pcm it writes to.  Both rest on which     *)
(* mutexes a call holds at each of its steps (LocksHeld): a standby closes *)
(* a pcm only with the mutex of its stream, which a write in               *)
(* pcm_mmap_write holds too.                                               *)
(***************************************************************************)
EXTENDS AudioHal, TLAPS

LocksHeld ==
  \A t \in Threads :
    /\ pc[t] # "idle" => arg[t] \in Call /\ stream[arg[t].s] # NULL
    /\ pc[t] \in {"second", "held"} => lock["adev"] = t
    /\ pc[t] = "held" => lock[arg[t].s] = t

IInv == TypeOK /\ LocksHeld /\ PcmMatchesStandby /\ WriteKeepsPcm
-----------------------------------------------------------------------------
(* Initially there is no stream, no pcm and no call.                       *)
LEMMA InitIInv == Init => IInv
  BY AudioAssumption, SMT DEF Init, IInv, TypeOK, LocksHeld, PcmMatchesStandby,
     WriteKeepsPcm, Running, Labels, Mutexes, Card, NewCard

(* A thread moves on in its call, and the others stay where they are.      *)
LEMMA OneThreadMoves ==
  ASSUME TypeOK, NEW t \in Threads, NEW label \in Labels, NEW call \in Call \cup {NULL},
         Goto(t, label, call)
  PROVE  /\ pc'[t] = label /\ arg'[t] = call
         /\ \A u \in Threads \ {t} : pc'[u] = pc[u] /\ arg'[u] = arg[u]
         /\ pc' \in [Threads -> Labels] /\ arg' \in [Threads -> Call \cup {NULL}]
  BY DEF Goto, TypeOK

(* Steps that leave streams, pcms and mutexes alone: a call starts, moves  *)
(* on without them or returns.                                             *)
LEMMA QuietStep ==
  ASSUME IInv, NEW t \in Threads, NEW label \in Labels, NEW call \in Call \cup {NULL},
         Goto(t, label, call), UNCHANGED <<wide, devVars, lock, stream, pcmLive>>,
         fault' = fault, card' \in [Streams -> Card],
         label \in {"idle", "first", "check", "stamp", "compute"},
         label # "idle" => call \in Call /\ stream[call.s] # NULL
  PROVE  IInv'
<1>1. TypeOK'
  BY OneThreadMoves DEF IInv, TypeOK, devVars
<1>2. LocksHeld'
  BY OneThreadMoves DEF IInv, LocksHeld
<1>3. PcmMatchesStandby'
  BY DEF IInv, PcmMatchesStandby, Running
<1>4. WriteKeepsPcm'
  BY OneThreadMoves DEF IInv, WriteKeepsPcm, Running
<1> QED BY <1>1, <1>2, <1>3, <1>4 DEF IInv

(* A step that only moves frames or the routing.                           *)
LEMMA StillStep ==
  ASSUME IInv, UNCHANGED <<wide, lock, stream, pcmLive, pc, arg, fault>>,
         devices' \in Routes \cup {0, NULL}, active' \in Streams \cup {NULL},
         card' \in [Streams -> Card]
  PROVE  IInv'
<1>1. TypeOK' /\ LocksHeld'
  BY DEF IInv, TypeOK, LocksHeld
<1>2. PcmMatchesStandby' /\ WriteKeepsPcm'
  BY DEF IInv, PcmMatchesStandby, WriteKeepsPcm, Running
<1> QED BY <1>1, <1>2 DEF IInv

(* A call record with its length, its route or its counters filled in.     *)
LEMMA NewCallType ==
  ASSUME NEW o \in Ops, NEW s \in Streams, NEW n \in Chunks, NEW r \in Routes \cup {0}
  PROVE  /\ NewCall(o, s) \in Call
         /\ [NewCall(o, s) EXCEPT !.frames = n, !.left = n] \in Call
         /\ [NewCall(o, s) EXCEPT !.route = r] \in Call
         /\ NewCall(o, s).s = s
         /\ [NewCall(o, s) EXCEPT !.frames = n, !.left = n].s = s
         /\ [NewCall(o, s) EXCEPT !.route = r].s = s
  BY AudioAssumption DEF NewCall, Call

(* A thread takes the device's mutex, then the stream's.                   *)
LEMMA TakeStep ==
  ASSUME IInv, NEW t \in Threads, TakeFirst(t) \/ TakeSecond(t)
  PROVE  IInv'
<1> USE AudioAssumption DEF IInv, Goto, devVars, TakeFirst, TakeSecond, Take, Order,
        At, Alive, NoCrash
<1>0. pc[t] \in {"first", "second"} /\ arg[t] \in Call /\ arg[t].s \in Streams
  BY DEF TypeOK, LocksHeld, Call
<1>1. TypeOK'
  BY <1>0 DEF TypeOK, Labels, Mutexes
<1>2. LocksHeld'
  BY <1>0 DEF TypeOK, LocksHeld, Mutexes, Call
<1>3. PcmMatchesStandby'
  BY DEF PcmMatchesStandby, Running
<1>4. WriteKeepsPcm'
  <2> SUFFICES ASSUME NEW u \in Threads, pc'[u] = "mmap"
               PROVE  (lock[arg[u].s] = u /\ Running(arg[u].s)
                       /\ stream[arg[u].s].pcm \in pcmLive)'
    BY DEF WriteKeepsPcm
  <2>1. u # t /\ pc[u] = "mmap" /\ arg'[u] = arg[u]
    BY <1>0 DEF TypeOK
  <2>2. lock[arg[u].s] = u /\ arg[u].s \in Streams
    BY <2>1 DEF TypeOK, LocksHeld, WriteKeepsPcm, Call
  <2>3. lock'[arg[u].s] = u
    BY <2>2 DEF TypeOK, Mutexes
  <2> QED BY <2>1, <2>3 DEF WriteKeepsPcm, Running
<1> QED BY <1>1, <1>2, <1>3, <1>4
-----------------------------------------------------------------------------
(* A call with the mutex of its stream: no other thread is in a write of   *)
(* that stream.                                                            *)
LEMMA StreamAlone ==
  ASSUME IInv, NEW t \in Threads, pc[t] \in {"held", "mmap"}
  PROVE  /\ arg[t] \in Call /\ arg[t].s \in Streams /\ lock[arg[t].s] = t
         /\ stream[arg[t].s] \in Stream /\ stream[arg[t].s] # NULL
         /\ \A u \in Threads \ {t} : pc[u] = "mmap" =>
              arg[u].s \in Streams \ {arg[t].s} /\ lock[arg[u].s] = u
<1>1. arg[t] \in Call /\ stream[arg[t].s] # NULL /\ lock[arg[t].s] = t
  BY DEF IInv, LocksHeld, WriteKeepsPcm
<1>2. arg[t].s \in Streams /\ stream[arg[t].s] \in Stream
  BY <1>1 DEF Call, IInv, TypeOK
<1>3. \A u \in Threads : pc[u] = "mmap" => arg[u].s \in Streams /\ lock[arg[u].s] = u
  BY DEF Call, IInv, LocksHeld, WriteKeepsPcm
<1> QED BY <1>1, <1>2, <1>3

(* A holder of both mutexes: no other thread is between its locks either.  *)
LEMMA HolderAlone ==
  ASSUME IInv, NEW t \in Threads, pc[t] = "held"
  PROVE  /\ arg[t] \in Call /\ arg[t].s \in Streams
         /\ stream[arg[t].s] \in Stream /\ lock["adev"] = t
         /\ \A u \in Threads \ {t} :
              /\ pc[u] \notin {"second", "held"}
              /\ pc[u] = "mmap" => arg[u].s # arg[t].s
<1>1. lock["adev"] = t /\ \A u \in Threads : pc[u] \in {"second", "held"} => lock["adev"] = u
  BY DEF IInv, LocksHeld
<1> QED BY <1>1, StreamAlone

(* Dropping mutexes that only the thread itself holds.                     *)
LEMMA UnlockOwn ==
  ASSUME TypeOK, NEW t \in Threads, NEW ms, \A m \in ms : lock[m] = t, Unlock(ms)
  PROVE  /\ lock' \in [Mutexes -> Threads \cup {NULL}]
         /\ \A m \in Mutexes : m \notin ms => lock'[m] = lock[m]
         /\ \A u \in Threads \ {t}, m \in Mutexes : lock[m] = u => lock'[m] = u
  BY DEF TypeOK, Unlock

(* The pcms still match when one stream changes and no other loses its     *)
(* pcm or shares it with the changed stream.                               *)
LEMMA OneStreamChanges ==
  ASSUME PcmMatchesStandby, NEW st \in Streams,
         \A s \in Streams \ {st} : stream'[s] = stream[s],
         \A s \in Streams \ {st} : Running(s) => stream[s].pcm \in pcmLive',
         stream'[st] # NULL =>
           IF stream'[st].standby
           THEN stream'[st].pcm = IF stream'[st].unavailable THEN Closed ELSE NULL
           ELSE /\ stream'[st].pcm \in pcmLive' /\ ~stream'[st].unavailable
                /\ \A s \in Streams \ {st} : Running(s) => stream[s].pcm # stream'[st].pcm
  PROVE  PcmMatchesStandby'
<1>1. ASSUME NEW s \in Streams, stream'[s] # NULL
      PROVE  IF stream'[s].standby
             THEN stream'[s].pcm = IF stream'[s].unavailable THEN Closed ELSE NULL
             ELSE stream'[s].pcm \in pcmLive' /\ ~stream'[s].unavailable
  <2>1. CASE s = st
    BY <1>1, <2>1
  <2>2. CASE s # st
    BY <1>1, <2>2 DEF PcmMatchesStandby, Running
  <2> QED BY <2>1, <2>2
<1>2. ASSUME NEW s \in Streams, NEW r \in Streams, stream'[s].pcm = stream'[r].pcm,
             stream'[s] # NULL, ~stream'[s].standby, stream'[r] # NULL, ~stream'[r].standby
      PROVE  s = r
  <2>1. CASE s = st \/ r = st
    BY <1>2, <2>1 DEF Running
  <2>2. CASE s # st /\ r # st
    BY <1>2, <2>2 DEF PcmMatchesStandby, Running
  <2> QED BY <2>1, <2>2
<1> QED BY <1>1, <1>2 DEF PcmMatchesStandby, Running

(* A call in the middle of its stream goes on in a write or returns: the   *)
(* writes of other threads, which are on other streams, keep their pcms.   *)
LEMMA CallGoesOn ==
  ASSUME IInv, NEW t \in Threads, pc[t] \in {"held", "mmap"},
         NEW label \in {"idle", "mmap"}, NEW call \in Call \cup {NULL}, Goto(t, label, call),
         \A u \in Threads \ {t}, m \in Mutexes : lock[m] = u => lock'[m] = u,
         \A s \in Streams \ {arg[t].s} : stream'[s] = stream[s],
         \A s \in Streams \ {arg[t].s} : Running(s) => stream[s].pcm \in pcmLive',
         stream'[arg[t].s] # NULL,
         label = "mmap" =>
           /\ call \in Call /\ call.s = arg[t].s /\ lock'[call.s] = t
           /\ ~stream'[call.s].standby /\ stream'[call.s].pcm \in pcmLive'
  PROVE  LocksHeld' /\ WriteKeepsPcm'
<1>1. label \in Labels
  BY DEF Labels
<1>2. /\ pc'[t] = label /\ arg'[t] = call
      /\ \A u \in Threads \ {t} : pc'[u] = pc[u] /\ arg'[u] = arg[u]
  BY <1>1, OneThreadMoves DEF IInv
<1>3. \A s \in Streams : stream[s] # NULL => stream'[s] # NULL
  OBVIOUS
<1>4. ASSUME NEW u \in Threads \ {t}
      PROVE  /\ pc[u] # "idle" => arg[u] \in Call /\ stream'[arg[u].s] # NULL
             /\ pc[u] \in {"second", "held"} => lock'["adev"] = u
             /\ pc[u] = "held" => lock'[arg[u].s] = u
             /\ pc[u] = "mmap" => /\ lock'[arg[u].s] = u /\ stream'[arg[u].s] # NULL
                                  /\ ~stream'[arg[u].s].standby
                                  /\ stream'[arg[u].s].pcm \in pcmLive'
  <2>1. pc[u] # "idle" => arg[u] \in Call /\ arg[u].s \in Streams /\ stream'[arg[u].s] # NULL
    BY <1>3 DEF IInv, LocksHeld, Call
  <2>2. pc[u] \in {"second", "held"} => lock'["adev"] = u
    BY DEF IInv, LocksHeld, Mutexes
  <2>3. pc[u] = "held" => lock'[arg[u].s] = u
    BY <2>1 DEF IInv, LocksHeld, Mutexes
  <2>4. ASSUME pc[u] = "mmap"
        PROVE  /\ lock'[arg[u].s] = u /\ stream'[arg[u].s] # NULL
               /\ ~stream'[arg[u].s].standby /\ stream'[arg[u].s].pcm \in pcmLive'
    <3>1. arg[u].s \in Streams \ {arg[t].s} /\ lock[arg[u].s] = u
      BY <2>4, StreamAlone
    <3>2. lock'[arg[u].s] = u
      BY <3>1 DEF Mutexes
    <3>3. Running(arg[u].s)
      BY <2>4 DEF IInv, WriteKeepsPcm
    <3> QED BY <3>1, <3>2, <3>3 DEF Running
  <2> QED BY <2>1, <2>2, <2>3, <2>4
<1>5. LocksHeld'
  BY <1>2, <1>4 DEF LocksHeld
<1>6. WriteKeepsPcm'
  BY <1>2, <1>4 DEF WriteKeepsPcm, Running
<1> QED BY <1>5, <1>6
-----------------------------------------------------------------------------
(* The write of a running stream keeps only the mutex of the stream.       *)
LEMMA WriteStartedStep ==
  ASSUME IInv, NEW t \in Threads, WriteStarted(t)
  PROVE  IInv'
<1> DEFINE st == arg[t].s
<1>1. /\ pc[t] = "held" /\ ~stream[st].standby /\ Unlock({"adev"}) /\ Goto(t, "mmap", arg[t])
      /\ UNCHANGED <<wide, devices, active, stream, pcmLive, card, fault>>
  BY DEF WriteStarted, Holding, At, Released, devVars, NoCrash
<1>2. /\ arg[t] \in Call /\ st \in Streams /\ st \in Mutexes \ {"adev"}
      /\ lock["adev"] = t /\ lock[st] = t /\ stream[st] # NULL
  BY <1>1, StreamAlone, HolderAlone, AudioAssumption DEF Mutexes
<1>3. /\ lock' \in [Mutexes -> Threads \cup {NULL}] /\ lock'[st] = t
      /\ \A u \in Threads \ {t}, m \in Mutexes : lock[m] = u => lock'[m] = u
  BY <1>1, <1>2, UnlockOwn DEF IInv
<1>4. "mmap" \in Labels
  BY DEF Labels
<1>5. TypeOK'
  BY <1>1, <1>2, <1>3, <1>4, OneThreadMoves DEF IInv, TypeOK
<1>6. PcmMatchesStandby'
  BY <1>1 DEF IInv, PcmMatchesStandby, Running
<1>7. stream[st].pcm \in pcmLive' /\ \A s \in Streams : Running(s) => stream[s].pcm \in pcmLive'
  BY <1>1, <1>2 DEF IInv, PcmMatchesStandby, Running
<1>8. LocksHeld' /\ WriteKeepsPcm'
  BY <1>1, <1>2, <1>3, <1>7, CallGoesOn
<1> QED BY <1>5, <1>6, <1>8 DEF IInv

(* start_output_stream opens a pcm nobody has.                             *)
LEMMA WriteStartStep ==
  ASSUME IInv, NEW t \in Threads, WriteStart(t)
  PROVE  IInv'
<1> DEFINE st == arg[t].s
<1>1. /\ pc[t] = "held" /\ ~stream[st].unavailable /\ Unlock({"adev"})
      /\ Goto(t, "mmap", arg[t]) /\ active' = st
      /\ UNCHANGED <<wide, devices, card, fault>>
  BY DEF WriteStart, Holding, At, Released, NoCrash
<1>2. PICK p \in Pcms \ pcmLive :
        /\ pcmLive' = pcmLive \cup {p}
        /\ stream' = [stream EXCEPT ![st] = [stream[st] EXCEPT !.pcm = p, !.standby = FALSE]]
  BY DEF WriteStart, Update, SetsStandby
<1> DEFINE new == [stream[st] EXCEPT !.pcm = p, !.standby = FALSE]
<1>3. /\ arg[t] \in Call /\ st \in Streams /\ st \in Mutexes \ {"adev"}
      /\ lock["adev"] = t /\ lock[st] = t /\ stream[st] \in Stream
  BY <1>1, StreamAlone, HolderAlone, AudioAssumption DEF Mutexes
<1>4. new \in Stream /\ new.pcm = p /\ ~new.standby /\ ~new.unavailable
  BY <1>1, <1>3 DEF Stream
<1>5. new # NULL
  BY <1>4, AudioAssumption
<1> HIDE DEF new
<1>6. stream'[st] = new /\ \A s \in Streams \ {st} : stream'[s] = stream[s]
  BY <1>2, <1>3 DEF IInv, TypeOK, new
<1>7. /\ lock' \in [Mutexes -> Threads \cup {NULL}] /\ lock'[st] = t
      /\ \A u \in Threads \ {t}, m \in Mutexes : lock[m] = u => lock'[m] = u
  BY <1>1, <1>3, UnlockOwn DEF IInv
<1>8. "mmap" \in Labels
  BY DEF Labels
<1>9. TypeOK'
  <2>1. stream' \in [Streams -> Stream \cup {NULL}]
    BY <1>2, <1>4 DEF IInv, TypeOK, new
  <2> QED BY <1>1, <1>2, <1>3, <1>7, <1>8, <2>1, OneThreadMoves DEF IInv, TypeOK
<1>10. \A s \in Streams \ {st} : Running(s) => stream[s].pcm \in pcmLive' /\ stream[s].pcm # p
  BY <1>2 DEF IInv, PcmMatchesStandby, Running
<1>11. /\ stream'[st] # NULL /\ ~stream'[st].standby /\ ~stream'[st].unavailable
       /\ stream'[st].pcm = p /\ p \in pcmLive'
  BY <1>2, <1>4, <1>5, <1>6
<1>12. PcmMatchesStandby'
  BY <1>3, <1>6, <1>10, <1>11, OneStreamChanges DEF IInv
<1>13. LocksHeld' /\ WriteKeepsPcm'
  BY <1>1, <1>3, <1>6, <1>7, <1>10, <1>11, CallGoesOn
<1> QED BY <1>9, <1>12, <1>13 DEF IInv

(* A holder of both mutexes gives them back and returns, after a change of *)
(* its own stream at most.                                                 *)
LEMMA HolderReturns ==
  ASSUME IInv, NEW t \in Threads, pc[t] = "held",
         Unlock({"adev", arg[t].s}), Return(t), UNCHANGED <<wide, fault>>,
         devices' \in Routes \cup {0, NULL}, active' \in Streams \cup {NULL},
         card' \in [Streams -> Card], pcmLive' \subseteq Pcms, NEW new \in Stream,
         stream' = stream \/ stream' = [stream EXCEPT ![arg[t].s] = new],
         \A s \in Streams \ {arg[t].s} : Running(s) => stream[s].pcm \in pcmLive',
         PcmMatchesStandby'
  PROVE  IInv'
<1> DEFINE st == arg[t].s
<1>1. /\ arg[t] \in Call /\ st \in Streams
      /\ lock["adev"] = t /\ lock[st] = t /\ stream[st] \in Stream /\ stream[st] # NULL
  BY StreamAlone, HolderAlone
<1>2. /\ lock' \in [Mutexes -> Threads \cup {NULL}]
      /\ \A u \in Threads \ {t}, m \in Mutexes : lock[m] = u => lock'[m] = u
  BY <1>1, UnlockOwn DEF IInv
<1>3. "idle" \in Labels /\ Goto(t, "idle", NULL)
  BY DEF Labels, Return
<1>4. TypeOK'
  <2>1. stream' \in [Streams -> Stream \cup {NULL}]
    BY DEF IInv, TypeOK
  <2> QED BY <1>2, <1>3, <2>1, OneThreadMoves DEF IInv, TypeOK
<1>5. stream'[st] # NULL /\ \A s \in Streams \ {st} : stream'[s] = stream[s]
  BY <1>1, AudioAssumption DEF IInv, TypeOK
<1>6. LocksHeld' /\ WriteKeepsPcm'
  BY <1>1, <1>2, <1>3, <1>5, CallGoesOn
<1> QED BY <1>4, <1>6 DEF IInv

(* start_output_stream fails, and the stream is out of use for good.       *)
LEMMA WriteStartFailsStep ==
  ASSUME IInv, NEW t \in Threads, WriteStartFails(t)
  PROVE  IInv'
<1> DEFINE st == arg[t].s
           new == [stream[st] EXCEPT !.pcm = Closed, !.unavailable = TRUE]
<1>1. /\ pc[t] = "held" /\ stream[st].standby /\ Unlock({"adev", st}) /\ Return(t)
      /\ UNCHANGED <<wide, devices, pcmLive, card, fault>>
      /\ \/ UNCHANGED <<stream, active>>
         \/ active' = NULL /\ stream' = [stream EXCEPT ![st] = new]
  BY DEF WriteStartFails, Holding, At, NoCrash, Update
<1>2. st \in Streams /\ stream[st] \in Stream
  BY <1>1, StreamAlone
<1>3. new \in Stream /\ new.pcm = Closed /\ new.unavailable /\ new.standby
  BY <1>1, <1>2 DEF Stream
<1> HIDE DEF new
<1>4. \A s \in Streams : Running(s) => stream[s].pcm \in pcmLive'
  BY <1>1 DEF IInv, PcmMatchesStandby, Running
<1>5. PcmMatchesStandby'
  <2>1. CASE UNCHANGED stream
    BY <1>1, <2>1 DEF IInv, PcmMatchesStandby, Running
  <2>2. CASE stream' = [stream EXCEPT ![st] = new]
    <3>1. stream'[st] = new /\ \A s \in Streams \ {st} : stream'[s] = stream[s]
      BY <1>2, <2>2 DEF IInv, TypeOK
    <3> QED BY <1>2, <1>3, <1>4, <3>1, OneStreamChanges DEF IInv
  <2> QED BY <1>1, <2>1, <2>2
<1> QED BY <1>1, <1>3, <1>4, <1>5, HolderReturns DEF IInv, TypeOK

(* Standby closes the pcm of a stream out of standby, and no other.        *)
LEMMA StandbyStep ==
  ASSUME IInv, NEW t \in Threads, DoOutputStandby(t)
  PROVE  IInv'
<1> DEFINE st == arg[t].s
           new == [stream[st] EXCEPT !.pcm = NULL, !.standby = TRUE]
           was == card[st]
           drained == [was EXCEPT !.queued = 0, !.gone = @ + was.queued]
<1>1. /\ pc[t] = "held" /\ Unlock({"adev", st}) /\ Return(t)
      /\ UNCHANGED <<wide, devices, fault>>
  BY DEF DoOutputStandby, Holding, At, NoCrash
<1>2. st \in Streams /\ stream[st] \in Stream /\ stream[st] # NULL
  BY <1>1, StreamAlone
<1>3. CASE UNCHANGED <<active, stream, pcmLive, card>>
  <2>1. PcmMatchesStandby' /\ \A s \in Streams : Running(s) => stream[s].pcm \in pcmLive'
    BY <1>3 DEF IInv, PcmMatchesStandby, Running
  <2> QED BY <1>1, <1>2, <1>3, <2>1, HolderReturns DEF IInv, TypeOK
<1>4. CASE ~stream[st].standby /\ stream' = [stream EXCEPT ![st] = new]
           /\ pcmLive' = pcmLive \ {stream[st].pcm} /\ active' = NULL
           /\ card' = [card EXCEPT ![st] = drained]
  <2>1. card' \in [Streams -> Card]
    <3>1. drained \in Card
      <4>1. was \in Card /\ was.gone + was.queued \in Nat
        BY <1>2 DEF IInv, TypeOK, Card
      <4>2. 0 \in 0 .. KernelFrames
        BY AudioAssumption
      <4> HIDE DEF was
      <4> QED BY <4>1, <4>2 DEF Card
    <3> HIDE DEF drained
    <3> QED BY <1>4, <3>1 DEF IInv, TypeOK
  <2>2. new \in Stream /\ new.standby /\ new.pcm = NULL /\ ~new.unavailable
    BY <1>2, <1>4 DEF Stream, IInv, PcmMatchesStandby
  <2> HIDE DEF new
  <2>3. stream'[st] = new /\ \A s \in Streams \ {st} : stream'[s] = stream[s]
    BY <1>2, <1>4 DEF IInv, TypeOK
  <2>4. \A s \in Streams \ {st} : Running(s) => stream[s].pcm \in pcmLive'
    BY <1>2, <1>4 DEF IInv, PcmMatchesStandby, Running
  <2>5. PcmMatchesStandby'
    BY <1>2, <2>2, <2>3, <2>4, OneStreamChanges DEF IInv
  <2> QED BY <1>1, <1>4, <2>1, <2>2, <2>4, <2>5, HolderReturns DEF IInv, TypeOK
<1>5. DoOutputStandby(t) =>
        \/ UNCHANGED <<active, stream, pcmLive, card>>
        \/ /\ ~stream[st].standby /\ stream' = [stream EXCEPT ![st] = new]
           /\ pcmLive' = pcmLive \ {stream[st].pcm} /\ active' = NULL
           /\ card' = [card EXCEPT ![st] = drained]
  <2>1. was \in Card
    BY <1>2 DEF IInv, TypeOK
  <2>2. [card EXCEPT ![st].queued = 0, ![st].gone = @ + card[st].queued]
          = [card EXCEPT ![st] = drained]
    BY <1>2, <2>1 DEF IInv, TypeOK, Card
  <2> QED BY <2>2 DEF DoOutputStandby, Update, PcmAfterStandby, ActiveAfterStandby
<1> QED BY <1>3, <1>4, <1>5

(* The routing parameter touches no stream.                                *)
LEMMA RouteStep ==
  ASSUME IInv, NEW t \in Threads, OutSetParameters(t)
  PROVE  IInv'
<1>1. /\ pc[t] = "held" /\ Unlock({"adev", arg[t].s}) /\ Return(t)
      /\ devices' = IF arg[t].route = 0 THEN devices ELSE arg[t].route
      /\ UNCHANGED <<wide, active, stream, pcmLive, card, fault>>
  BY DEF OutSetParameters, Holding, At, NoCrash
<1>2. arg[t].route \in Routes \cup {0} /\ stream[arg[t].s] \in Stream
  BY <1>1, StreamAlone DEF Call
<1>3. PcmMatchesStandby' /\ \A s \in Streams : Running(s) => stream[s].pcm \in pcmLive'
  BY <1>1 DEF IInv, PcmMatchesStandby, Running
<1>4. devices' \in Routes \cup {0, NULL}
  BY <1>1, <1>2 DEF IInv, TypeOK
<1> QED BY <1>1, <1>2, <1>3, <1>4, HolderReturns DEF IInv, TypeOK
-----------------------------------------------------------------------------
(* pcm_mmap_write moves a frame.                                           *)
LEMMA WriteFrameStep ==
  ASSUME IInv, NEW t \in Threads, WriteFrame(t)
  PROVE  IInv'
<1> DEFINE st == arg[t].s
           call == [arg[t] EXCEPT !.left = @ - 1]
           was == card[st]
           more == [was EXCEPT !.queued = @ + 1]
<1>1. /\ pc[t] = "mmap" /\ Goto(t, "mmap", call) /\ arg[t].left > 0
      /\ was.queued < KernelFrames /\ card' = [card EXCEPT ![st].queued = @ + 1]
      /\ UNCHANGED <<wide, devices, active, lock, stream, pcmLive, fault>>
  BY DEF WriteFrame, At, devVars, NoCrash
<1>2. /\ arg[t] \in Call /\ st \in Streams /\ lock[st] = t
      /\ stream[st] # NULL /\ ~stream[st].standby /\ stream[st].pcm \in pcmLive
  BY <1>1, StreamAlone DEF IInv, WriteKeepsPcm, Running
<1>3. call \in Call /\ call.s = st
  BY <1>1, <1>2 DEF Call
<1>4. card' \in [Streams -> Card]
  <2>1. was \in Card
    BY <1>2 DEF IInv, TypeOK
  <2>2. more \in Card
    BY <1>1, <2>1, AudioAssumption DEF Card
  <2>3. card' = [card EXCEPT ![st] = more]
    BY <1>1
  <2> HIDE DEF more
  <2> QED BY <2>2, <2>3 DEF IInv, TypeOK
<1> HIDE DEF call
<1>5. "mmap" \in Labels
  BY DEF Labels
<1>6. TypeOK'
  BY <1>1, <1>3, <1>4, <1>5, OneThreadMoves DEF IInv, TypeOK
<1>7. PcmMatchesStandby' /\ \A s \in Streams : Running(s) => stream[s].pcm \in pcmLive'
  BY <1>1 DEF IInv, PcmMatchesStandby, Running
<1>8. LocksHeld' /\ WriteKeepsPcm'
  BY <1>1, <1>2, <1>3, <1>7, CallGoesOn
<1> QED BY <1>6, <1>7, <1>8 DEF IInv

(* The write ends: only the count of its stream changes.                   *)
LEMMA WriteEndStep ==
  ASSUME IInv, NEW t \in Threads, WriteEnd(t)
  PROVE  IInv'
<1> DEFINE st == arg[t].s
           sum == (stream[st].written + Counted(arg[t])) % Mod
           new == [stream[st] EXCEPT !.written = sum]
<1>1. /\ pc[t] = "mmap" /\ stream' = [stream EXCEPT ![st] = new] /\ Unlock({st}) /\ Return(t)
      /\ UNCHANGED <<wide, devices, active, pcmLive, card, fault>>
  BY DEF WriteEnd, Update, At, devVars, NoCrash
<1>2. /\ arg[t] \in Call /\ st \in Streams /\ lock[st] = t /\ stream[st] \in Stream
      /\ stream[st] # NULL /\ ~stream[st].standby /\ stream[st].pcm \in pcmLive
  BY <1>1, StreamAlone DEF IInv, WriteKeepsPcm, Running
<1>3. sum \in 0 .. Mod - 1
  <2>1. Counted(arg[t]) \in Nat
    BY <1>2, AudioAssumption DEF Counted, Call
  <2>2. stream[st].written \in Nat
    BY <1>2 DEF Stream
  <2>3. \A n, k \in Nat : (n + k) % Mod \in 0 .. Mod - 1
    BY AudioAssumption
  <2> QED BY <2>1, <2>2, <2>3
<1> HIDE DEF sum
<1>4. /\ new \in Stream /\ new.standby = stream[st].standby
      /\ new.pcm = stream[st].pcm /\ new.unavailable = stream[st].unavailable
  BY <1>2, <1>3 DEF Stream
<1>5. new # NULL
  BY <1>4, AudioAssumption
<1> HIDE DEF new
<1>6. stream'[st] = new /\ \A s \in Streams \ {st} : stream'[s] = stream[s]
  BY <1>1, <1>2 DEF IInv, TypeOK
<1>7. /\ lock' \in [Mutexes -> Threads \cup {NULL}]
      /\ \A u \in Threads \ {t}, m \in Mutexes : lock[m] = u => lock'[m] = u
  BY <1>1, <1>2, UnlockOwn DEF IInv
<1>8. "idle" \in Labels /\ Goto(t, "idle", NULL)
  BY <1>1 DEF Labels, Return
<1>9. TypeOK'
  BY <1>1, <1>4, <1>7, <1>8, OneThreadMoves DEF IInv, TypeOK
<1>10. \A s \in Streams : Running(s) => stream[s].pcm \in pcmLive'
  BY <1>1 DEF IInv, PcmMatchesStandby, Running
<1>11. PcmMatchesStandby'
  <2>1. Running(st) /\ ~stream[st].unavailable
    BY <1>2 DEF Running, IInv, PcmMatchesStandby
  <2>2. \A s \in Streams \ {st} : Running(s) => stream[s].pcm # stream[st].pcm
    BY <1>2, <2>1 DEF IInv, PcmMatchesStandby
  <2>3. /\ ~stream'[st].standby /\ ~stream'[st].unavailable
        /\ stream'[st].pcm = stream[st].pcm /\ stream'[st].pcm \in pcmLive'
    BY <1>1, <1>2, <1>4, <1>6, <2>1
  <2> QED BY <1>2, <1>6, <1>10, <2>2, <2>3, OneStreamChanges DEF IInv
<1>12. LocksHeld' /\ WriteKeepsPcm'
  BY <1>1, <1>2, <1>5, <1>6, <1>7, <1>8, <1>10, CallGoesOn
<1> QED BY <1>9, <1>11, <1>12 DEF IInv

(* A step of the position query: no stream, pcm or mutex is touched.       *)
LEMMA PositionStep ==
  ASSUME IInv, NEW t \in Threads,
         PositionCheck(t) \/ PositionStamp(t) \/ PositionCompute(t)
  PROVE  IInv'
<1> USE AudioAssumption DEF At, Alive, NoCrash, Return
<1>0. /\ pc[t] \in {"check", "stamp", "compute"} => 
           arg[t] \in Call /\ arg[t].s \in Streams /\ stream[arg[t].s] \in Stream
      /\ stream[arg[t].s] # NULL \/ pc[t] = "idle"
  BY DEF IInv, TypeOK, LocksHeld, Call
<1>1. CASE PositionCheck(t)
  <2>1. CASE Return(t)
    BY <1>1, <2>1, QuietStep DEF PositionCheck, Labels, IInv, TypeOK, callVars
  <2>2. CASE Goto(t, "stamp", [arg[t] EXCEPT !.pcm = stream[arg[t].s].pcm])
    <3>1. [arg[t] EXCEPT !.pcm = stream[arg[t].s].pcm] \in Call
      BY <1>0, <1>1 DEF PositionCheck, Call, Stream
    <3>2. [arg[t] EXCEPT !.pcm = stream[arg[t].s].pcm].s = arg[t].s
      BY <1>0, <1>1 DEF PositionCheck, Call
    <3> QED BY <1>0, <1>1, <2>2, <3>1, <3>2, QuietStep
            DEF PositionCheck, Labels, IInv, TypeOK
  <2> QED BY <1>1, <2>1, <2>2 DEF PositionCheck
<1>2. CASE PositionStamp(t)
  <2> DEFINE c == [arg[t] EXCEPT !.avail = KernelFrames - card[arg[t].s].queued]
  <2>1. CASE Return(t) /\ UNCHANGED <<devVars, lock, stream, pcmLive, card>> /\ NoCrash
    BY <2>1, QuietStep DEF Labels, IInv, TypeOK
  <2>2. CASE Goto(t, "compute", c) /\ UNCHANGED <<devVars, lock, stream, pcmLive, card>>
             /\ NoCrash
    <3>1. KernelFrames - card[arg[t].s].queued \in Nat
      BY <1>0, <1>2 DEF PositionStamp, IInv, TypeOK, Card
    <3>2. c \in Call /\ c.s = arg[t].s
      BY <1>0, <1>2, <3>1 DEF PositionStamp, Call
    <3> HIDE DEF c
    <3> QED BY <1>0, <1>2, <2>2, <3>2, QuietStep
            DEF PositionStamp, Labels, IInv, TypeOK
  <2>3. CASE \E kind \in {"null_pcm", "use_after_close"} : Crash(kind)
    BY <2>3 DEF Crash, IInv, TypeOK, LocksHeld, PcmMatchesStandby, WriteKeepsPcm,
                Running, devVars, callVars
  <2> QED BY <1>2, <2>1, <2>2, <2>3 DEF PositionStamp
<1>3. CASE PositionCompute(t)
  <2> DEFINE st == arg[t].s
             f == SignedFrames(stream[st].written, arg[t].avail)
  <2>1. stream[st].written \in Nat /\ arg[t].avail \in Nat /\ st \in Streams
    BY <1>0, <1>3 DEF PositionCompute, Stream, Call
  <2>2. f \in Int
    BY <2>1 DEF SignedFrames
  <2> HIDE DEF f
  <2>3. card' \in [Streams -> Card]
    <3>1. Reported(f, card[st].reported) \in Nat
      BY <2>1, <2>2 DEF Reported, IInv, TypeOK, Card
    <3>2. card' = [card EXCEPT ![st].reported = Reported(f, card[st].reported)]
      BY <1>3 DEF PositionCompute, f
    <3> QED BY <2>1, <3>1, <3>2 DEF IInv, TypeOK, Card
  <2> QED BY <1>3, <2>3, QuietStep DEF PositionCompute, Labels, devVars
<1> QED BY <1>1, <1>2, <1>3
-----------------------------------------------------------------------------
(* A call starts.                                                          *)
LEMMA BeginStep ==
  ASSUME IInv, NEW t \in Threads, NEW s \in Streams,
         \/ OutStandby(t, s) \/ GetPosition(t, s)
         \/ \E n \in Chunks : Write(t, s, n)
         \/ \E val \in Routes \cup {0} : SetRouting(t, s, val)
  PROVE  IInv'
<1>1. PICK label \in {"first", "check"}, call \in Call :
        call.s = s /\ Begin(t, label, call)
  <2>1. CASE OutStandby(t, s)
    <3>1. NewCall("standby", s) \in Call /\ NewCall("standby", s).s = s
      BY AudioAssumption DEF NewCall, Call, Ops
    <3> QED BY <2>1, <3>1 DEF OutStandby
  <2>2. CASE GetPosition(t, s)
    <3>1. NewCall("position", s) \in Call /\ NewCall("position", s).s = s
      BY AudioAssumption DEF NewCall, Call, Ops
    <3> QED BY <2>2, <3>1 DEF GetPosition
  <2>3. ASSUME NEW n \in Chunks, Write(t, s, n)
        PROVE  \E label \in {"first", "check"}, call \in Call :
                 call.s = s /\ Begin(t, label, call)
    <3> DEFINE call == [NewCall("write", s) EXCEPT !.frames = n, !.left = n]
    <3>1. call \in Call /\ call.s = s
      BY <2>3, NewCallType DEF Ops
    <3> QED BY <2>3, <3>1 DEF Write
  <2>4. ASSUME NEW val \in Routes \cup {0}, SetRouting(t, s, val)
        PROVE  \E label \in {"first", "check"}, call \in Call :
                 call.s = s /\ Begin(t, label, call)
    <3> DEFINE call == [NewCall("route", s) EXCEPT !.route = val]
    <3>1. call \in Call /\ call.s = s
      BY <2>4 DEF NewCall, Call, Ops
    <3> QED BY <2>4, <3>1 DEF SetRouting
  <2> QED BY <2>1, <2>2, <2>3, <2>4
<1>2. /\ Goto(t, label, call) /\ stream[call.s] # NULL
      /\ UNCHANGED <<wide, devVars, lock, stream, pcmLive>> /\ fault' = fault
      /\ card' \in [Streams -> Card]
  BY <1>1 DEF Begin, NoCrash, IInv, TypeOK
<1>3. label \in Labels
  BY DEF Labels
<1> QED BY <1>2, <1>3, QuietStep

(* The callers open and close devices and streams; the card plays.  A      *)
(* stream is closed when no call is on it.                                 *)
LEMMA LifeCycleStep ==
  ASSUME IInv,
         \/ AdevOpen \/ AdevClose
         \/ \E s \in Streams : OpenOutputStream(s) \/ CloseOutputStream(s) \/ Play(s)
  PROVE  IInv'
<1> USE AudioAssumption DEF IInv, Alive, NoCrash, devVars, callVars
<1>1. CASE AdevOpen \/ AdevClose
  BY <1>1, StillStep DEF AdevOpen, AdevClose, TypeOK
<1>2. ASSUME NEW s \in Streams, Play(s)
      PROVE  IInv'
  <2>1. card[s].queued > 0 /\ card' = [card EXCEPT ![s].queued = @ - 1, ![s].gone = @ + 1]
    BY <1>2 DEF Play
  <2>2. card' \in [Streams -> Card]
    BY <2>1 DEF TypeOK, Card
  <2> QED BY <1>2, <2>2, StillStep DEF Play, TypeOK
<1>3. ASSUME NEW s \in Streams, OpenOutputStream(s)
      PROVE  IInv'
  <2>1. /\ NewStream \in Stream /\ NewStream # NULL /\ NewStream.standby
        /\ NewStream.pcm = NULL /\ ~NewStream.unavailable
    <3>1. NewStream \in Stream
      BY DEF NewStream, Stream
    <3> QED BY <3>1 DEF NewStream
  <2>2. NewCard \in Card
    BY DEF NewCard, Card
  <2>3. stream'[s] = NewStream /\ \A r \in Streams \ {s} : stream'[r] = stream[r]
    BY <1>3 DEF OpenOutputStream, Update, TypeOK
  <2>4. TypeOK'
    BY <1>3, <2>1, <2>2 DEF OpenOutputStream, Update, TypeOK
  <2>5. stream[s] = NULL /\ UNCHANGED <<lock, pcmLive, pc, arg>>
    BY <1>3 DEF OpenOutputStream
  <2>6. LocksHeld' /\ PcmMatchesStandby'
    BY <2>1, <2>3, <2>5 DEF LocksHeld, PcmMatchesStandby, Running, Call
  <2>7. WriteKeepsPcm'
    BY <2>3, <2>5 DEF LocksHeld, WriteKeepsPcm, Running, Call
  <2> QED BY <2>4, <2>6, <2>7
<1>4. ASSUME NEW s \in Streams, CloseOutputStream(s)
      PROVE  IInv'
  <2>1. stream'[s] = NULL /\ \A r \in Streams \ {s} : stream'[r] = stream[r]
    BY <1>4 DEF CloseOutputStream, Update, TypeOK
  <2>2. TypeOK'
    BY <1>4 DEF CloseOutputStream, Update, TypeOK
  <2>3. /\ \A t \in Threads : pc[t] # "idle" => arg[t].s \in Streams \ {s}
        /\ UNCHANGED <<lock, pcmLive, pc, arg>>
    BY <1>4 DEF CloseOutputStream, Busy, LocksHeld, Call
  <2>4. LocksHeld' /\ PcmMatchesStandby'
    BY <2>1, <2>3 DEF LocksHeld, PcmMatchesStandby, Running
  <2>5. WriteKeepsPcm'
    BY <2>1, <2>3 DEF WriteKeepsPcm, Running
  <2> QED BY <2>2, <2>4, <2>5
<1> QED BY <1>1, <1>2, <1>3, <1>4

(* Every step preserves the invariant.                                     *)
LEMMA NextIInv == IInv /\ [Next]_vars => IInv'
<1> SUFFICES ASSUME IInv, [Next]_vars
             PROVE  IInv'
  OBVIOUS
<1>1. CASE UNCHANGED vars
  BY <1>1 DEF vars, devVars, callVars, IInv, TypeOK, LocksHeld, PcmMatchesStandby,
     WriteKeepsPcm, Running
<1>2. ASSUME NEW t \in Threads, Step(t)
      PROVE  IInv'
  BY <1>2, TakeStep, WriteStartedStep, WriteStartStep, WriteStartFailsStep,
     WriteFrameStep, WriteEndStep, StandbyStep, RouteStep, PositionStep DEF Step
<1>3. CASE Next
  BY <1>2, <1>3, BeginStep, LifeCycleStep DEF Next
<1> QED BY <1>1, <1>3

(* The invariant holds in every state, whatever the callers do.            *)
THEOREM IInvHolds == Spec => []IInv
BY InitIInv, NextIInv, PTL DEF Spec

(* Types are kept, and with them the bounds of the kernel buffer and of    *)
(* the frame counter.                                                      *)
THEOREM TypeCorrect == Spec => []TypeOK
<1>1. IInv => TypeOK
  BY DEF IInv
<1> QED BY <1>1, IInvHolds, PTL

(* A stream has its own open pcm exactly while it is out of standby.       *)
THEOREM PcmAgreesWithStandby == Spec => []PcmMatchesStandby
<1>1. IInv => PcmMatchesStandby
  BY DEF IInv
<1> QED BY <1>1, IInvHolds, PTL

(* No other call takes the pcm from under a write.                         *)
THEOREM WritesKeepTheirPcm == Spec => []WriteKeepsPcm
<1>1. IInv => WriteKeepsPcm
  BY DEF IInv
<1> QED BY <1>1, IInvHolds, PTL
-----------------------------------------------------------------------------
(* The converse of LocksHeld: a mutex is held only by a call that is at a  *)
(* step where it has to be.                                                *)
MutexHeld ==
  /\ lock["adev"] # NULL => pc[lock["adev"]] \in {"second", "held"}
  /\ \A s \in Streams : lock[s] # NULL =>
       pc[lock[s]] \in {"held", "mmap"} /\ arg[lock[s]].s = s

(* One thread moves: the others hold what they held, or less.              *)
LEMMA MoverHolds ==
  ASSUME TypeOK, MutexHeld, NEW t \in Threads,
         \A u \in Threads \ {t} : pc'[u] = pc[u] /\ arg'[u] = arg[u],
         \A m \in Mutexes : lock'[m] \in {lock[m], NULL, t},
         lock'["adev"] = t => pc'[t] \in {"second", "held"},
         \A s \in Streams : lock'[s] = t => pc'[t] \in {"held", "mmap"} /\ arg'[t].s = s
  PROVE  MutexHeld'
<1>1. \A m \in Mutexes : lock[m] \in Threads \cup {NULL}
  BY DEF TypeOK
<1>2. ASSUME NEW s \in Streams, lock'[s] \notin {NULL, t}
      PROVE  pc'[lock'[s]] \in {"held", "mmap"} /\ arg'[lock'[s]].s = s
  <2>1. lock'[s] = lock[s] /\ lock[s] \in Threads \ {t} /\ lock[s] # NULL
    BY <1>1, <1>2 DEF Mutexes
  <2> QED BY <2>1 DEF MutexHeld
<1>3. lock'["adev"] \notin {NULL, t} => pc'[lock'["adev"]] \in {"second", "held"}
  <2> SUFFICES ASSUME lock'["adev"] \notin {NULL, t}
               PROVE  pc'[lock'["adev"]] \in {"second", "held"}
    OBVIOUS
  <2>1. lock'["adev"] = lock["adev"] /\ lock["adev"] \in Threads \ {t} /\ lock["adev"] # NULL
    BY <1>1 DEF Mutexes
  <2> QED BY <2>1 DEF MutexHeld
<1> QED BY <1>2, <1>3 DEF MutexHeld

(* A call that holds no mutex, and takes none, moves on.                   *)
LEMMA BareStep ==
  ASSUME IInv, MutexHeld, NEW t \in Threads, NEW label, NEW call, Goto(t, label, call),
         pc[t] \notin {"second", "held", "mmap"}, lock' = lock
  PROVE  MutexHeld'
<1>1. \A m \in Mutexes : lock[m] # t
  BY AudioAssumption DEF MutexHeld, Mutexes
<1>2. \A u \in Threads \ {t} : pc'[u] = pc[u] /\ arg'[u] = arg[u]
  BY DEF Goto, IInv, TypeOK
<1> QED BY <1>1, <1>2, MoverHolds DEF IInv, Mutexes

(* The holder of both mutexes gives back that of the device at least, and  *)
(* that of its stream unless it goes on to write.                          *)
LEMMA GiveBackStep ==
  ASSUME IInv, MutexHeld, NEW t \in Threads, pc[t] = "held", NEW ms,
         Unlock(ms), "adev" \in ms,
         \/ Return(t) /\ arg[t].s \in ms
         \/ Goto(t, "mmap", arg[t])
  PROVE  MutexHeld'
<1>1. \A u \in Threads \ {t} : pc'[u] = pc[u] /\ arg'[u] = arg[u]
  BY DEF Return, Goto, IInv, TypeOK
<1>2. \A m \in Mutexes : lock'[m] = (IF m \in ms THEN NULL ELSE lock[m])
  BY DEF Unlock
<1>3. lock'["adev"] # t
  BY <1>2, AudioAssumption DEF Mutexes
<1>4. ASSUME NEW s \in Streams, lock'[s] = t
      PROVE  pc'[t] \in {"held", "mmap"} /\ arg'[t].s = s
  <2>1. lock[s] = t /\ s \notin ms
    BY <1>2, <1>4, AudioAssumption DEF Mutexes
  <2>2. arg[t].s = s
    BY <2>1, AudioAssumption DEF MutexHeld
  <2> QED BY <2>1, <2>2 DEF Goto, IInv, TypeOK
<1> QED BY <1>1, <1>2, <1>3, <1>4, MoverHolds DEF IInv

(* A mutex is taken.                                                       *)
LEMMA TakesStep ==
  ASSUME IInv, MutexHeld, NEW t \in Threads, TakeFirst(t) \/ TakeSecond(t)
  PROVE  MutexHeld'
<1> USE AudioAssumption DEF TakeFirst, TakeSecond, Take, Order, At, Goto
<1>1. /\ \A u \in Threads \ {t} : pc'[u] = pc[u] /\ arg'[u] = arg[u]
      /\ arg'[t] = arg[t] /\ arg[t] \in Call /\ arg[t].s \in Streams
  BY DEF IInv, TypeOK, LocksHeld, Call
<1>2. CASE TakeFirst(t)
  <2>1. lock' = [lock EXCEPT !["adev"] = t] /\ pc'[t] = "second"
    BY <1>2 DEF IInv, TypeOK
  <2>2. \A m \in Mutexes : lock'[m] = IF m = "adev" THEN t ELSE lock[m]
    BY <2>1 DEF IInv, TypeOK
  <2>3. \A s \in Streams : lock'[s] # t
    BY <1>2, <2>2 DEF MutexHeld, Mutexes
  <2> QED BY <1>1, <2>1, <2>2, <2>3, MoverHolds DEF IInv
<1>3. CASE TakeSecond(t)
  <2>1. lock' = [lock EXCEPT ![arg[t].s] = t] /\ pc'[t] = "held"
    BY <1>3 DEF IInv, TypeOK
  <2>2. \A m \in Mutexes : lock'[m] = IF m = arg[t].s THEN t ELSE lock[m]
    BY <1>1, <2>1 DEF IInv, TypeOK, Mutexes
  <2>3. \A s \in Streams : lock'[s] = t => arg[t].s = s
    BY <1>3, <2>2 DEF MutexHeld, Mutexes
  <2> QED BY <1>1, <2>1, <2>2, <2>3, MoverHolds DEF IInv
<1> QED BY <1>2, <1>3

(* pcm_mmap_write moves a frame, or is over.                               *)
LEMMA MmapStep ==
  ASSUME IInv, MutexHeld, NEW t \in Threads, WriteFrame(t) \/ WriteEnd(t)
  PROVE  MutexHeld'
<1>1. /\ pc[t] = "mmap" /\ arg[t] \in Call
      /\ \A u \in Threads \ {t} : pc'[u] = pc[u] /\ arg'[u] = arg[u]
  BY DEF WriteFrame, WriteEnd, At, Return, Goto, IInv, TypeOK, LocksHeld
<1>2. lock["adev"] # t /\ \A s \in Streams : lock[s] = t => s = arg[t].s
  BY <1>1, AudioAssumption DEF MutexHeld
<1>3. CASE WriteFrame(t)
  <2>1. lock' = lock /\ pc'[t] = "mmap" /\ arg'[t] = [arg[t] EXCEPT !.left = @ - 1]
    BY <1>3 DEF WriteFrame, Goto, IInv, TypeOK
  <2>2. [arg[t] EXCEPT !.left = @ - 1].s = arg[t].s
    BY <1>1 DEF Call
  <2> QED BY <1>1, <1>2, <2>1, <2>2, MoverHolds DEF IInv
<1>4. CASE WriteEnd(t)
  <2>1. \A m \in Mutexes : lock'[m] = IF m = arg[t].s THEN NULL ELSE lock[m]
    BY <1>4 DEF WriteEnd, Unlock
  <2>2. lock'["adev"] # t /\ \A s \in Streams : lock'[s] # t
    BY <1>2, <2>1, AudioAssumption DEF Mutexes
  <2> QED BY <1>1, <2>1, <2>2, MoverHolds DEF IInv
<1> QED BY <1>3, <1>4

LEMMA NextMutexHeld == IInv /\ MutexHeld /\ [Next]_vars => MutexHeld'
<1> SUFFICES ASSUME IInv, MutexHeld, [Next]_vars
             PROVE  MutexHeld'
  OBVIOUS
<1>1. CASE UNCHANGED vars
  BY <1>1 DEF vars, callVars, MutexHeld
<1>2. ASSUME NEW t \in Threads, Step(t)
      PROVE  MutexHeld'
  <2>1. CASE TakeFirst(t) \/ TakeSecond(t)
    BY <2>1, TakesStep
  <2>2. CASE WriteFrame(t) \/ WriteEnd(t)
    BY <2>2, MmapStep
  <2>3. CASE WriteStarted(t) \/ WriteStart(t)
    BY <2>3, GiveBackStep DEF WriteStarted, WriteStart, Holding, At, Released
  <2>4. CASE WriteStartFails(t) \/ DoOutputStandby(t) \/ OutSetParameters(t)
    <3>1. pc[t] = "held" /\ Unlock({"adev", arg[t].s}) /\ Return(t)
      BY <2>4 DEF WriteStartFails, DoOutputStandby, OutSetParameters, Holding, At
    <3> QED BY <3>1, GiveBackStep
  <2>5. CASE PositionCheck(t) \/ PositionStamp(t) \/ PositionCompute(t)
    <3>1. CASE \E kind \in {"null_pcm", "use_after_close"} : Crash(kind)
      BY <3>1 DEF Crash, callVars, MutexHeld
    <3>2. CASE ~\E kind \in {"null_pcm", "use_after_close"} : Crash(kind)
      <4>1. /\ pc[t] \notin {"second", "held", "mmap"} /\ lock' = lock
            /\ \E label, call : Goto(t, label, call)
        BY <2>5, <3>2 DEF PositionCheck, PositionStamp, PositionCompute, At, Return
      <4> QED BY <4>1, BareStep
    <3> QED BY <3>1, <3>2
  <2> QED BY <1>2, <2>1, <2>2, <2>3, <2>4, <2>5 DEF Step
<1>3. ASSUME NEW t \in Threads, NEW label, NEW call, Begin(t, label, call)
      PROVE  MutexHeld'
  BY <1>3, BareStep DEF Begin, At
<1>4. CASE AdevOpen \/ AdevClose
  BY <1>4 DEF AdevOpen, AdevClose, callVars, MutexHeld
<1>5. ASSUME NEW s \in Streams, OpenOutputStream(s) \/ CloseOutputStream(s) \/ Play(s)
      PROVE  MutexHeld'
  BY <1>5 DEF OpenOutputStream, CloseOutputStream, Play, callVars, MutexHeld
<1>6. ASSUME NEW t \in Threads, NEW s \in Streams,
             \/ OutStandby(t, s) \/ GetPosition(t, s)
             \/ \E n \in Chunks : Write(t, s, n)
             \/ \E val \in Routes \cup {0} : SetRouting(t, s, val)
      PROVE  MutexHeld'
  BY <1>3, <1>6 DEF OutStandby, GetPosition, Write, SetRouting
<1> QED BY <1>1, <1>2, <1>4, <1>5, <1>6 DEF Next

THEOREM MutexesAreHeld == Spec => []MutexHeld
<1>1. Init => MutexHeld
  BY AudioAssumption DEF Init, MutexHeld, Mutexes
<1> QED BY <1>1, IInvHolds, NextMutexHeld, PTL DEF Spec

(* No mutex is left behind, and every chain of waits for mutexes ends: at  *)
(* the latest, after the mutex of the device and that of a stream, at a    *)
(* write that waits for the card.                                          *)
THEOREM NoCircularWait == Spec => []WaitsEnd
<1>1. IInv /\ MutexHeld => WaitsEnd
  <2> SUFFICES ASSUME IInv, MutexHeld
               PROVE  WaitsEnd
    OBVIOUS
  <2>1. ASSUME NEW m \in Mutexes, lock[m] # NULL
        PROVE  pc[lock[m]] # "idle"
    BY <2>1 DEF MutexHeld, Mutexes
  <2>2. \A t \in Threads : pc[t] \notin {"first", "second"} => Wanted(t) = {}
    BY DEF Wanted
  <2>3. \A t \in Threads : pc[t] = "second" => Wanted(t) = {arg[t].s} /\ arg[t].s \in Streams
    BY DEF Wanted, Order, IInv, LocksHeld, Call
  <2>4. \A t \in Threads : pc[t] = "first" => Wanted(t) = {"adev"}
    BY DEF Wanted, Order
  <2>5. ASSUME NEW t \in Threads, NEW u \in Threads, NEW v \in Threads,
               WaitsFor(t, u), WaitsFor(u, v)
        PROVE  pc[v] = "mmap"
    <3>1. pc[u] = "second" /\ lock[arg[u].s] = v /\ arg[u].s \in Streams
      BY <2>2, <2>3, <2>4, <2>5, AudioAssumption DEF WaitsFor, MutexHeld
    <3>2. lock["adev"] = u /\ pc[v] \in {"held", "mmap"}
      BY <3>1, AudioAssumption DEF MutexHeld, IInv, LocksHeld
    <3> QED BY <3>1, <3>2 DEF IInv, LocksHeld
  <2> QED BY <2>1, <2>5 DEF WaitsEnd
<1> QED BY <1>1, IInvHolds, MutexesAreHeld, PTL
=============================================================================
