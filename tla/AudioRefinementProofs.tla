----------------------- MODULE AudioRefinementProofs -----------------------
(***************************************************************************)
(* Proof that AudioHal implements Playback under the mapping of module     *)
(* AudioHal, whatever the callers do.  A stream is in its write from the   *)
(* step that gives the mutex of the device back to the end of              *)
(* pcm_mmap_write; it goes out of standby, breaks and goes back to standby *)
(* in the step of the call that holds both mutexes; the waits for them,    *)
(* the frames, the routing and the position query change nothing here.     *)
(***************************************************************************)
EXTENDS AudioHalProofs

states == [s \in Streams |-> StateOf(s)]
pcms   == [s \in Streams |-> PcmOf(s)]
mapped == <<states, pcms, pcmLive>>

(* Steps that change the state and the pcm of no stream.                   *)
LEMMA SameStreams ==
  ASSUME pcmLive' = pcmLive,
         \A s \in Streams : StateOf(s)' = StateOf(s) /\ PcmOf(s)' = PcmOf(s)
  PROVE  UNCHANGED mapped
  BY DEF mapped, states, pcms

(* Steps that change those of one stream.                                  *)
LEMMA OneStream ==
  ASSUME NEW s \in Streams,
         \A r \in Streams \ {s} : StateOf(r)' = StateOf(r) /\ PcmOf(r)' = PcmOf(r)
  PROVE  /\ states' = [states EXCEPT ![s] = StateOf(s)']
         /\ pcms' = [pcms EXCEPT ![s] = PcmOf(s)']
         /\ states[s] = StateOf(s) /\ pcms[s] = PcmOf(s)
  BY DEF states, pcms

(* What the state of a stream depends on.                                  *)
LEMMA SameState ==
  ASSUME NEW s \in Streams, stream'[s] = stream[s], InWrite(s)' <=> InWrite(s)
  PROVE  StateOf(s)' = StateOf(s) /\ PcmOf(s)' = PcmOf(s)
  BY DEF StateOf, PcmOf, Running

(* A stream that is written to runs, and one call writes to it.            *)
LEMMA OneWriter ==
  ASSUME IInv, NEW t \in Threads, pc[t] = "mmap"
  PROVE  /\ arg[t] \in Call /\ arg[t].s \in Streams /\ InWrite(arg[t].s)
         /\ Running(arg[t].s) /\ stream[arg[t].s] \in Stream
         /\ \A u \in Threads \ {t} : pc[u] = "mmap" => arg[u].s # arg[t].s
<1>1. arg[t] \in Call /\ arg[t].s \in Streams /\ InWrite(arg[t].s)
  BY DEF IInv, LocksHeld, Call, InWrite
<1>2. Running(arg[t].s) /\ stream[arg[t].s] \in Stream
  BY <1>1 DEF IInv, TypeOK, WriteKeepsPcm, Running
<1>3. \A u \in Threads \ {t} : pc[u] = "mmap" => arg[u].s # arg[t].s
  BY DEF IInv, WriteKeepsPcm
<1> QED BY <1>1, <1>2, <1>3

(* The states of a stream nobody writes to, read from its record.          *)
LEMMA IdleState ==
  ASSUME NEW s \in Streams, stream[s] # NULL, ~InWrite(s)
  PROVE  /\ ~stream[s].standby => StateOf(s) = "running" /\ PcmOf(s) = stream[s].pcm
         /\ stream[s].standby /\ ~stream[s].unavailable
              => StateOf(s) = "standby" /\ PcmOf(s) = NULL
         /\ stream[s].standby /\ stream[s].unavailable
              => StateOf(s) = "broken" /\ PcmOf(s) = NULL
  BY DEF StateOf, PcmOf, Running

(* A call moves on with the streams and pcms as they are, neither into nor *)
(* out of its write.                                                       *)
LEMMA StutterStep ==
  ASSUME IInv, NEW t \in Threads, NEW label, NEW call, Goto(t, label, call),
         UNCHANGED <<stream, pcmLive>>,
         \/ pc[t] # "mmap" /\ label # "mmap"
         \/ pc[t] = "mmap" /\ label = "mmap" /\ call.s = arg[t].s
  PROVE  UNCHANGED mapped
<1>1. /\ \A u \in Threads \ {t} : pc'[u] = pc[u] /\ arg'[u] = arg[u]
      /\ pc'[t] = label /\ arg'[t] = call
  BY DEF Goto, IInv, TypeOK
<1>2. \A s \in Streams : InWrite(s)' <=> InWrite(s)
  BY <1>1 DEF InWrite
<1> QED BY <1>2, SameState, SameStreams

(* The holder of both mutexes moves on: nobody writes to its stream.       *)
LEMMA HolderMoves ==
  ASSUME IInv, NEW t \in Threads, pc[t] = "held", NEW st, st = arg[t].s,
         NEW label, NEW call, Goto(t, label, call), label = "mmap" => call.s = st
  PROVE  /\ st \in Streams /\ stream[st] \in Stream /\ stream[st] # NULL
         /\ ~InWrite(st) /\ (InWrite(st)' <=> label = "mmap")
         /\ \A s \in Streams \ {st} : InWrite(s)' <=> InWrite(s)
<1>1. /\ \A u \in Threads \ {t} : pc'[u] = pc[u] /\ arg'[u] = arg[u]
      /\ pc'[t] = label /\ arg'[t] = call
  BY DEF Goto, IInv, TypeOK
<1>2. /\ st \in Streams /\ stream[st] \in Stream
      /\ \A u \in Threads \ {t} : pc[u] = "mmap" => arg[u].s # st
  BY HolderAlone
<1>3. stream[st] # NULL
  BY <1>2, AudioAssumption
<1>4. ~InWrite(st) /\ (InWrite(st)' <=> label = "mmap")
  BY <1>1, <1>2 DEF InWrite
<1>5. \A s \in Streams \ {st} : InWrite(s)' <=> InWrite(s)
  BY <1>1 DEF InWrite
<1> QED BY <1>2, <1>3, <1>4, <1>5
-----------------------------------------------------------------------------
(* A write to a running stream.                                            *)
LEMMA StartedResumes ==
  ASSUME IInv, NEW t \in Threads, WriteStarted(t)
  PROVE  [Promise!Next]_mapped
<1>0. PICK st \in Streams : st = arg[t].s
  BY DEF IInv, LocksHeld, Call, WriteStarted, Holding, At
<1>1. /\ pc[t] = "held" /\ Goto(t, "mmap", arg[t]) /\ ~stream[st].standby
      /\ UNCHANGED <<stream, pcmLive>>
  BY <1>0 DEF WriteStarted, Holding, At
<1>2. /\ st \in Streams /\ stream[st] # NULL /\ ~InWrite(st) /\ InWrite(st)'
      /\ \A s \in Streams \ {st} : InWrite(s)' <=> InWrite(s)
  BY <1>0, <1>1, HolderMoves
<1>3. StateOf(st) = "running" /\ PcmOf(st) = stream[st].pcm
  BY <1>1, <1>2, IdleState
<1>4. StateOf(st)' = "writing" /\ PcmOf(st)' = stream[st].pcm
  BY <1>1, <1>2 DEF StateOf, PcmOf, Running
<1>5. \A r \in Streams \ {st} : StateOf(r)' = StateOf(r) /\ PcmOf(r)' = PcmOf(r)
  BY <1>1, <1>2, SameState
<1>6. /\ states' = [states EXCEPT ![st] = "writing"] /\ states[st] = "running"
      /\ pcms' = [pcms EXCEPT ![st] = pcms[st]]
  BY <1>2, <1>3, <1>4, <1>5, OneStream
<1>7. pcms' = pcms
  BY <1>6 DEF pcms
<1>8. Promise!Resume(st)
  BY <1>1, <1>6, <1>7 DEF Promise!Resume, Promise!Move, states, pcms
<1> QED BY <1>2, <1>8 DEF Promise!Next

(* The write that opens the pcm of a stream in standby.                    *)
LEMMA StartStarts ==
  ASSUME IInv, NEW t \in Threads, WriteStart(t)
  PROVE  [Promise!Next]_mapped
<1>0. PICK st \in Streams : st = arg[t].s
  BY DEF IInv, LocksHeld, Call, WriteStart, Holding, At
<1>1. /\ pc[t] = "held" /\ Goto(t, "mmap", arg[t])
      /\ stream[st].standby /\ ~stream[st].unavailable
  BY <1>0 DEF WriteStart, Holding, At
<1>2. /\ st \in Streams /\ stream[st] \in Stream /\ stream[st] # NULL
      /\ ~InWrite(st) /\ InWrite(st)'
      /\ \A s \in Streams \ {st} : InWrite(s)' <=> InWrite(s)
  BY <1>0, <1>1, HolderMoves
<1>3. PICK p \in Pcms \ pcmLive :
        /\ pcmLive' = pcmLive \cup {p}
        /\ stream' = [stream EXCEPT ![st] =
                        [stream[st] EXCEPT !.pcm = p, !.standby = FALSE]]
  BY <1>0 DEF WriteStart, Update, SetsStandby
<1> DEFINE new == [stream[st] EXCEPT !.pcm = p, !.standby = FALSE]
<1>4. new.pcm = p /\ ~new.standby /\ new \in Stream
  BY <1>2, <1>3 DEF Stream
<1>5. stream'[st] = new /\ \A r \in Streams \ {st} : stream'[r] = stream[r]
  BY <1>2, <1>3 DEF IInv, TypeOK
<1> HIDE DEF new
<1>6. StateOf(st) = "standby"
  BY <1>1, <1>2, IdleState
<1>7. StateOf(st)' = "writing" /\ PcmOf(st)' = p
  BY <1>2, <1>4, <1>5, AudioAssumption DEF StateOf, PcmOf, Running
<1>8. \A r \in Streams \ {st} : StateOf(r)' = StateOf(r) /\ PcmOf(r)' = PcmOf(r)
  BY <1>2, <1>5, SameState
<1>9. /\ states' = [states EXCEPT ![st] = "writing"] /\ states[st] = "standby"
      /\ pcms' = [pcms EXCEPT ![st] = p]
  BY <1>2, <1>6, <1>7, <1>8, OneStream
<1>10. Promise!Start(st)
  BY <1>3, <1>9 DEF Promise!Start, Promise!Move, states, pcms
<1> QED BY <1>2, <1>10 DEF Promise!Next

(* The write whose pcm does not open.                                      *)
LEMMA StartFailsBreaks ==
  ASSUME IInv, NEW t \in Threads, WriteStartFails(t)
  PROVE  [Promise!Next]_mapped
<1>0. PICK st \in Streams : st = arg[t].s
  BY DEF IInv, LocksHeld, Call, WriteStartFails, Holding, At
<1>1. pc[t] = "held" /\ Goto(t, "idle", NULL) /\ stream[st].standby /\ pcmLive' = pcmLive
  BY <1>0 DEF WriteStartFails, Holding, At, Return
<1>2. /\ st \in Streams /\ stream[st] \in Stream /\ stream[st] # NULL
      /\ ~InWrite(st) /\ ~InWrite(st)'
      /\ \A s \in Streams \ {st} : InWrite(s)' <=> InWrite(s)
  BY <1>0, <1>1, HolderMoves
<1>3. CASE stream[st].unavailable
  BY <1>0, <1>1, <1>3, StutterStep DEF WriteStartFails
<1>4. CASE ~stream[st].unavailable
  <2> DEFINE new == [stream[st] EXCEPT !.pcm = Closed, !.unavailable = TRUE]
  <2>1. new.standby /\ new.unavailable /\ new \in Stream
    BY <1>1, <1>2 DEF Stream
  <2>2. stream' = [stream EXCEPT ![st] = new]
    BY <1>0, <1>4 DEF WriteStartFails, Update
  <2>3. stream'[st] = new /\ \A r \in Streams \ {st} : stream'[r] = stream[r]
    BY <1>2, <2>2 DEF IInv, TypeOK
  <2> HIDE DEF new
  <2>4. StateOf(st) = "standby" /\ PcmOf(st) = NULL
    BY <1>1, <1>2, <1>4, IdleState
  <2>5. StateOf(st)' = "broken" /\ PcmOf(st)' = NULL
    BY <1>2, <2>1, <2>3, AudioAssumption DEF StateOf, PcmOf, Running
  <2>6. \A r \in Streams \ {st} : StateOf(r)' = StateOf(r) /\ PcmOf(r)' = PcmOf(r)
    BY <1>2, <2>3, SameState
  <2>7. /\ states' = [states EXCEPT ![st] = "broken"] /\ states[st] = "standby"
        /\ pcms' = [pcms EXCEPT ![st] = pcms[st]]
    BY <1>2, <2>4, <2>5, <2>6, OneStream
  <2>8. pcms' = pcms
    BY <2>7 DEF pcms
  <2>9. Promise!Fail(st)
    BY <1>1, <2>7, <2>8 DEF Promise!Fail, Promise!Move, states, pcms
  <2> QED BY <1>2, <2>9 DEF Promise!Next
<1> QED BY <1>3, <1>4

(* Standby of a running stream; one in standby stays there.                *)
LEMMA StandbyStops ==
  ASSUME IInv, NEW t \in Threads, DoOutputStandby(t)
  PROVE  [Promise!Next]_mapped
<1>0. PICK st \in Streams : st = arg[t].s
  BY DEF IInv, LocksHeld, Call, DoOutputStandby, Holding, At
<1>1. pc[t] = "held" /\ Goto(t, "idle", NULL)
  BY <1>0 DEF DoOutputStandby, Holding, At, Return
<1>2. /\ st \in Streams /\ stream[st] \in Stream /\ stream[st] # NULL
      /\ ~InWrite(st) /\ ~InWrite(st)'
      /\ \A s \in Streams \ {st} : InWrite(s)' <=> InWrite(s)
  BY <1>0, <1>1, HolderMoves
<1>3. CASE stream[st].standby
  BY <1>0, <1>1, <1>3, StutterStep DEF DoOutputStandby
<1>4. CASE ~stream[st].standby
  <2> DEFINE new == [stream[st] EXCEPT !.pcm = NULL, !.standby = TRUE]
  <2>1. new.standby /\ new.unavailable = stream[st].unavailable /\ new \in Stream
    BY <1>2 DEF Stream
  <2>2. stream' = [stream EXCEPT ![st] = new] /\ pcmLive' = pcmLive \ {stream[st].pcm}
    BY <1>0, <1>4 DEF DoOutputStandby, Update, PcmAfterStandby
  <2>3. stream'[st] = new /\ \A r \in Streams \ {st} : stream'[r] = stream[r]
    BY <1>2, <2>2 DEF IInv, TypeOK
  <2> HIDE DEF new
  <2>4. ~stream[st].unavailable
    BY <1>2, <1>4 DEF IInv, PcmMatchesStandby
  <2>5. StateOf(st) = "running" /\ PcmOf(st) = stream[st].pcm
    BY <1>2, <1>4, IdleState
  <2>6. StateOf(st)' = "standby" /\ PcmOf(st)' = NULL
    BY <1>2, <2>1, <2>3, <2>4, AudioAssumption DEF StateOf, PcmOf, Running
  <2>7. \A r \in Streams \ {st} : StateOf(r)' = StateOf(r) /\ PcmOf(r)' = PcmOf(r)
    BY <1>2, <2>3, SameState
  <2>8. /\ states' = [states EXCEPT ![st] = "standby"] /\ states[st] = "running"
        /\ pcms' = [pcms EXCEPT ![st] = NULL] /\ pcmLive' = pcmLive \ {pcms[st]}
    BY <1>2, <2>2, <2>5, <2>6, <2>7, OneStream
  <2>9. Promise!Standby(st)
    BY <2>8 DEF Promise!Standby, Promise!Move, states, pcms
  <2> QED BY <1>2, <2>9 DEF Promise!Next
<1> QED BY <1>3, <1>4

(* The end of pcm_mmap_write.                                              *)
LEMMA WriteEndFinishes ==
  ASSUME IInv, NEW t \in Threads, WriteEnd(t)
  PROVE  [Promise!Next]_mapped
<1>0. PICK st \in Streams : st = arg[t].s
  BY DEF IInv, LocksHeld, Call, WriteEnd, At
<1> DEFINE n == (stream[st].written + Counted(arg[t])) % Mod
           new == [stream[st] EXCEPT !.written = n]
<1>1. /\ pc[t] = "mmap" /\ pcmLive' = pcmLive
      /\ stream' = [stream EXCEPT ![st] = new]
  BY <1>0 DEF WriteEnd, At, Update
<1>2. /\ st \in Streams /\ InWrite(st) /\ Running(st) /\ stream[st] \in Stream
      /\ \A u \in Threads \ {t} : pc[u] = "mmap" => arg[u].s # st
  BY <1>0, <1>1, OneWriter
<1>3. /\ \A u \in Threads \ {t} : pc'[u] = pc[u] /\ arg'[u] = arg[u]
      /\ pc'[t] = "idle"
  BY DEF WriteEnd, Return, Goto, IInv, TypeOK
<1>4. ~InWrite(st)' /\ \A s \in Streams \ {st} : InWrite(s)' <=> InWrite(s)
  BY <1>0, <1>1, <1>2, <1>3 DEF InWrite
<1> HIDE DEF n
<1>5. new.standby = stream[st].standby /\ new.pcm = stream[st].pcm
      /\ stream[st].standby = FALSE
  BY <1>2 DEF Stream, Running
<1>6. stream'[st] = new /\ \A r \in Streams \ {st} : stream'[r] = stream[r]
  BY <1>1, <1>2 DEF IInv, TypeOK
<1>7. new # NULL
  <2>1. n \in 0 .. Mod - 1
    <3>1. Counted(arg[t]) \in Nat /\ stream[st].written \in Nat
      BY <1>1, <1>2, OneWriter, AudioAssumption DEF Counted, Call, Stream
    <3> QED BY <3>1, AudioAssumption DEF n
  <2>2. new \in Stream
    BY <1>2, <2>1 DEF Stream
  <2> QED BY <2>2, AudioAssumption
<1> HIDE DEF new
<1>8. StateOf(st) = "writing" /\ PcmOf(st) = stream[st].pcm
  BY <1>2 DEF StateOf, PcmOf, Running
<1>9. StateOf(st)' = "running" /\ PcmOf(st)' = stream[st].pcm
  BY <1>4, <1>5, <1>6, <1>7 DEF StateOf, PcmOf, Running
<1>10. \A r \in Streams \ {st} : StateOf(r)' = StateOf(r) /\ PcmOf(r)' = PcmOf(r)
  BY <1>4, <1>6, SameState
<1>11. /\ states' = [states EXCEPT ![st] = "running"] /\ states[st] = "writing"
       /\ pcms' = [pcms EXCEPT ![st] = pcms[st]]
  BY <1>2, <1>8, <1>9, <1>10, OneStream
<1>12. pcms' = pcms
  BY <1>11 DEF pcms
<1>13. Promise!Finish(st)
  BY <1>1, <1>11, <1>12 DEF Promise!Finish, Promise!Move, states, pcms
<1> QED BY <1>2, <1>13 DEF Promise!Next
-----------------------------------------------------------------------------
(* A stream is opened.                                                     *)
LEMMA OpenOpens ==
  ASSUME IInv, NEW s \in Streams, OpenOutputStream(s)
  PROVE  [Promise!Next]_mapped
<1>1. /\ stream[s] = NULL /\ UNCHANGED <<pcmLive, pc, arg>>
      /\ stream'[s] = NewStream /\ \A r \in Streams \ {s} : stream'[r] = stream[r]
  BY DEF OpenOutputStream, Update, callVars, IInv, TypeOK
<1>2. /\ NewStream.standby /\ ~NewStream.unavailable /\ NewStream # NULL
  <2>1. NewStream \in Stream
    BY AudioAssumption DEF NewStream, Stream
  <2> QED BY <2>1, AudioAssumption DEF NewStream
<1>3. \A r \in Streams : InWrite(r)' <=> InWrite(r)
  BY <1>1 DEF InWrite
<1>4. ~InWrite(s)
  BY <1>1 DEF InWrite, IInv, WriteKeepsPcm, Running
<1>5. StateOf(s) = "closed" /\ PcmOf(s) = NULL
  BY <1>1 DEF StateOf, PcmOf, Running
<1>6. StateOf(s)' = "standby" /\ PcmOf(s)' = NULL
  BY <1>1, <1>2, <1>3, <1>4 DEF StateOf, PcmOf, Running
<1>7. \A r \in Streams \ {s} : StateOf(r)' = StateOf(r) /\ PcmOf(r)' = PcmOf(r)
  BY <1>1, <1>3, SameState
<1>8. /\ states' = [states EXCEPT ![s] = "standby"] /\ states[s] = "closed"
      /\ pcms' = [pcms EXCEPT ![s] = pcms[s]]
  BY <1>5, <1>6, <1>7, OneStream
<1>9. pcms' = pcms
  BY <1>8 DEF pcms
<1>10. Promise!Open(s)
  BY <1>1, <1>8, <1>9 DEF Promise!Open, Promise!Move, states, pcms
<1> QED BY <1>10 DEF Promise!Next

(* A stream is closed, at any time but during a call.                      *)
LEMMA CloseCloses ==
  ASSUME IInv, NEW s \in Streams, CloseOutputStream(s)
  PROVE  [Promise!Next]_mapped
<1>1. /\ stream[s] # NULL /\ ~Busy(s) /\ UNCHANGED <<pcmLive, pc, arg>>
      /\ stream'[s] = NULL /\ \A r \in Streams \ {s} : stream'[r] = stream[r]
  BY DEF CloseOutputStream, Update, callVars, IInv, TypeOK
<1>2. \A r \in Streams : InWrite(r)' <=> InWrite(r)
  BY <1>1 DEF InWrite
<1>3. ~InWrite(s)
  BY <1>1 DEF InWrite, Busy
<1>4. StateOf(s) \in {"standby", "running", "broken"}
  BY <1>1, <1>3 DEF StateOf
<1>5. StateOf(s)' = "closed" /\ PcmOf(s)' = NULL
  BY <1>1 DEF StateOf, PcmOf, Running
<1>6. \A r \in Streams \ {s} : StateOf(r)' = StateOf(r) /\ PcmOf(r)' = PcmOf(r)
  BY <1>1, <1>2, SameState
<1>7. /\ states' = [states EXCEPT ![s] = "closed"]
      /\ states[s] \in {"standby", "running", "broken"}
      /\ pcms' = [pcms EXCEPT ![s] = NULL]
  BY <1>4, <1>5, <1>6, OneStream
<1>8. Promise!Close(s)
  BY <1>1, <1>7 DEF Promise!Close, states, pcms
<1> QED BY <1>8 DEF Promise!Next

(* Nothing changes for the streams.                                        *)
LEMMA NothingMoves ==
  ASSUME IInv, UNCHANGED <<stream, pcmLive, pc, arg>>
  PROVE  UNCHANGED mapped
<1>1. \A s \in Streams : InWrite(s)' <=> InWrite(s)
  BY DEF InWrite
<1> QED BY <1>1, SameState, SameStreams

(* Every step of AudioHal is a step of Playback or leaves it as it was.    *)
LEMMA StepRefines == IInv /\ [Next]_vars => [Promise!Next]_mapped
<1> SUFFICES ASSUME IInv, [Next]_vars PROVE [Promise!Next]_mapped
  OBVIOUS
<1>1. CASE UNCHANGED vars
  BY <1>1, NothingMoves DEF vars, callVars
<1>2. ASSUME NEW t \in Threads, Step(t)
      PROVE  [Promise!Next]_mapped
  <2>1. CASE TakeFirst(t) \/ TakeSecond(t) \/ OutSetParameters(t)
    <3>1. pc[t] # "mmap" /\ UNCHANGED <<stream, pcmLive>>
      BY <2>1 DEF TakeFirst, TakeSecond, Take, OutSetParameters, Holding, At
    <3>2. \E label \in {"second", "held", "idle"}, call \in {arg[t], NULL} :
            Goto(t, label, call)
      BY <2>1 DEF TakeFirst, TakeSecond, Take, OutSetParameters, Return
    <3> QED BY <3>1, <3>2, StutterStep
  <2>2. CASE WriteFrame(t)
    <3>1. pc[t] = "mmap" /\ Goto(t, "mmap", [arg[t] EXCEPT !.left = @ - 1])
          /\ UNCHANGED <<stream, pcmLive>>
      BY <2>2 DEF WriteFrame, At
    <3>2. [arg[t] EXCEPT !.left = @ - 1].s = arg[t].s
      BY <3>1 DEF IInv, LocksHeld, Call
    <3> QED BY <3>1, <3>2, StutterStep
  <2>3. CASE PositionCheck(t) \/ PositionStamp(t) \/ PositionCompute(t)
    <3>1. CASE \E kind \in {"null_pcm", "use_after_close"} : Crash(kind)
      BY <3>1, NothingMoves DEF Crash, callVars
    <3>2. CASE ~\E kind \in {"null_pcm", "use_after_close"} : Crash(kind)
      <4>1. pc[t] # "mmap" /\ UNCHANGED <<stream, pcmLive>>
        BY <2>3, <3>2 DEF PositionCheck, PositionStamp, PositionCompute, At
      <4>2. \E label \in {"idle", "stamp", "compute"} : \E call : Goto(t, label, call)
        BY <2>3, <3>2 DEF PositionCheck, PositionStamp, PositionCompute, Return
      <4> QED BY <4>1, <4>2, StutterStep
    <3> QED BY <3>1, <3>2
  <2> QED BY <1>2, <2>1, <2>2, <2>3, StartedResumes, StartStarts, StartFailsBreaks,
             StandbyStops, WriteEndFinishes DEF Step
<1>3. ASSUME NEW t \in Threads, NEW label \in {"first", "check"}, NEW call,
             Begin(t, label, call)
      PROVE  UNCHANGED mapped
  BY <1>3, StutterStep DEF Begin, At
<1>4. ASSUME NEW t \in Threads, NEW s \in Streams,
             \/ OutStandby(t, s) \/ GetPosition(t, s)
             \/ \E n \in Chunks : Write(t, s, n)
             \/ \E val \in Routes \cup {0} : SetRouting(t, s, val)
      PROVE  UNCHANGED mapped
  BY <1>3, <1>4 DEF OutStandby, GetPosition, Write, SetRouting
<1>5. CASE AdevOpen \/ AdevClose \/ \E s \in Streams : Play(s)
  BY <1>5, NothingMoves DEF AdevOpen, AdevClose, Play, callVars
<1> QED BY <1>1, <1>2, <1>4, <1>5, OpenOpens, CloseCloses DEF Next

LEMMA InitRefines == Init => Promise!Init
  BY DEF Init, StateOf, PcmOf, Running, Promise!Init

(* The audio HAL implements its streams: nothing any number of threads do  *)
(* makes a stream run without a pcm of its own, be written to twice at     *)
(* once, lose its pcm during a write or start again after a failed open.   *)
THEOREM AudioImplementsPlayback == Spec => ImplementsPlayback
<1>1. IInv /\ [Next]_vars => [Promise!Next]_Promise!vars
  BY StepRefines DEF mapped, states, pcms, Promise!vars
<1> QED BY <1>1, InitRefines, IInvHolds, PTL DEF Spec, ImplementsPlayback, Promise!Spec
=============================================================================
