------------------------- MODULE AudioOrderlyProofs -------------------------
(***************************************************************************)
(* Proofs of what AudioHal promises to callers that keep the order of the  *)
(* audio service (Orderly): no pcm is leaked, active_output is a running   *)
(* stream, the position query goes wrong only after a failed open, no      *)
(* position is ahead of the card, and none goes back without a loss.       *)
(*                                                                         *)
(* IInv of AudioHalProofs holds for any callers.  What order adds is that  *)
(* a position query is alone on its stream (OneCaller): the pcm it tested  *)
(* is the one it uses, and the frames it computes with do not change.      *)
(***************************************************************************)
EXTENDS AudioHalProofs

PositionSteps == {"check", "stamp", "compute"}

(* The steps of a call are those of its operation.                         *)
CallSteps ==
  \A t \in Threads : pc[t] # "idle" =>
    /\ pc[t] \in PositionSteps <=> arg[t].op = "position"
    /\ pc[t] = "mmap" => arg[t].op = "write"

OneCaller ==
  \A t, u \in Threads :
    /\ pc[t] # "idle" /\ arg[t].op # "route"
    /\ pc[u] # "idle" /\ arg[u].op # "route"
    /\ arg[t].s = arg[u].s
    => t = u

(* The pcm that was tested is still the stream's when it is used.          *)
TestedPcm ==
  \A t \in Threads : pc[t] = "stamp" =>
    arg[t].pcm # NULL /\ arg[t].pcm = stream[arg[t].s].pcm

Delivered(s) == card[s].queued + card[s].gone

(* Only frames that went into the kernel buffer are counted as written.    *)
FramesCounted ==
  /\ \A s \in Streams : stream[s] # NULL => stream[s].written <= Delivered(s)
  /\ \A t \in Threads : pc[t] # "idle" =>
       LET s == arg[t].s IN
       IF pc[t] = "mmap"
       THEN /\ arg[t].left <= arg[t].frames
            /\ stream[s].written + arg[t].frames - arg[t].left <= Delivered(s)
       ELSE arg[t].left = arg[t].frames

(* What a query will compute is no more than the card has taken.           *)
StampIsPast ==
  \A t \in Threads : pc[t] = "compute" =>
    LET s == arg[t].s IN
      /\ arg[t].avail <= KernelFrames
      /\ stream[s].written - KernelFrames + arg[t].avail <= card[s].gone

(* Frames that reached the kernel are not in the count and never will be:  *)
(* the count is short of them, and is after the write in progress.         *)
CountMisses(s) ==
  /\ stream[s].written < Delivered(s)
  /\ \A t \in Threads : pc[t] = "mmap" /\ arg[t].s = s =>
       stream[s].written + arg[t].frames - arg[t].left < Delivered(s)

(* A position that lies ahead by now, and one that is being computed lower *)
(* than the last, are those of a count that misses frames.                 *)
ReportsWhole ==
  /\ \A s \in Streams :
       stream[s] # NULL /\ card[s].reported > card[s].gone => CountMisses(s)
  /\ \A t \in Threads : pc[t] = "compute" =>
       LET s == arg[t].s IN
       /\ KernelFrames - arg[t].avail <= Delivered(s)
       /\ stream[s].written = Delivered(s) =>
            card[s].reported <= stream[s].written - KernelFrames + arg[t].avail

(* A step in which no frame comes to the card and none is counted.         *)
NoFrames ==
  \A s \in Streams : /\ stream'[s] = NULL <=> stream[s] = NULL
                     /\ stream[s] # NULL => stream'[s].written = stream[s].written
                     /\ card'[s].queued + card'[s].gone = Delivered(s)

(* A call goes on with all of its frames left, or is over.                 *)
NoneWritten(t, label, call) ==
  /\ Goto(t, label, call)
  /\ label # "idle" => call.left = call.frames /\ call.frames \in Nat
                       /\ call.s \in Streams /\ stream[call.s] # NULL

FrameStep ==
  \/ NoFrames /\ UNCHANGED <<pc, arg>>
  \/ NoFrames /\ \E t \in Threads : \E label, call : NoneWritten(t, label, call)
  \/ \E t \in Threads : WriteFrame(t) \/ WriteEnd(t)
  \/ \E s \in Streams : OpenOutputStream(s) \/ CloseOutputStream(s)
-----------------------------------------------------------------------------
(* What a thread in a call works on.                                       *)
LEMMA CallTypes ==
  ASSUME IInv, NEW t \in Threads, pc[t] # "idle"
  PROVE  /\ arg[t] \in Call /\ arg[t].s \in Streams /\ arg[t].left \in Nat
         /\ arg[t].frames \in Nat /\ arg[t].avail \in Nat
         /\ stream[arg[t].s] # NULL /\ stream[arg[t].s] \in Stream
         /\ stream[arg[t].s].written \in 0 .. Mod - 1
         /\ card[arg[t].s] \in Card
<1> DEFINE s == arg[t].s
<1>1. arg[t] \in Call /\ stream[s] # NULL
  BY DEF IInv, LocksHeld
<1>2. s \in Streams /\ arg[t].frames \in Chunks \cup {0} /\ arg[t].left \in Nat
      /\ arg[t].avail \in Nat
  BY <1>1 DEF Call
<1>3. stream[s] \in Stream /\ card[s] \in Card
  BY <1>1, <1>2 DEF IInv, TypeOK
<1>4. stream[s].written \in 0 .. Mod - 1
  BY <1>3 DEF Stream
<1>5. arg[t].frames \in Nat
  <2>1. \A n \in Chunks : n \in Nat
    BY AudioAssumption
  <2> HIDE DEF s
  <2> QED BY <1>2, <2>1
<1> QED BY <1>1, <1>2, <1>3, <1>4, <1>5

(* The call of a thread after a step of its own: gone, or the same call at *)
(* a step of its operation.                                                *)
LEMMA OwnStep ==
  ASSUME IInv, CallSteps, NEW t \in Threads, Step(t)
  PROVE  /\ pc[t] # "idle"
         /\ \/ UNCHANGED callVars
            \/ Return(t)
            \/ \E label \in Labels \ {"idle"}, call \in Call :
                 /\ Goto(t, label, call)
                 /\ call.op = arg[t].op /\ call.s = arg[t].s
                 /\ label \in PositionSteps <=> arg[t].op = "position"
                 /\ label = "mmap" => arg[t].op = "write"
<1> DEFINE Moves == \E label \in Labels \ {"idle"}, call \in Call :
                      /\ Goto(t, label, call)
                      /\ call.op = arg[t].op /\ call.s = arg[t].s
                      /\ label \in PositionSteps <=> arg[t].op = "position"
                      /\ label = "mmap" => arg[t].op = "write"
<1>1. pc[t] # "idle"
  BY DEF Step, TakeFirst, TakeSecond, WriteStarted, WriteStart, WriteStartFails, WriteFrame,
     WriteEnd, DoOutputStandby, OutSetParameters, PositionCheck, PositionStamp,
     PositionCompute, Holding, At
<1>2. /\ arg[t] \in Call
      /\ pc[t] \in PositionSteps <=> arg[t].op = "position"
      /\ pc[t] = "mmap" => arg[t].op = "write"
  BY <1>1, CallTypes DEF CallSteps
<1>3. CASE TakeFirst(t) \/ TakeSecond(t)
  <2>1. Goto(t, "second", arg[t]) \/ Goto(t, "held", arg[t])
    BY <1>3 DEF TakeFirst, TakeSecond, Take
  <2>2. arg[t].op # "position"
    BY <1>2, <1>3 DEF TakeFirst, TakeSecond, At, PositionSteps
  <2>3. Moves
    BY <1>2, <2>1, <2>2 DEF Labels, PositionSteps
  <2> QED BY <1>1, <2>3
<1>4. CASE WriteStarted(t) \/ WriteStart(t)
  <2>1. Goto(t, "mmap", arg[t]) /\ arg[t].op = "write"
    BY <1>4 DEF WriteStarted, WriteStart, Holding
  <2>2. Moves
    BY <1>2, <2>1 DEF Labels, PositionSteps
  <2> QED BY <1>1, <2>2
<1>5. CASE WriteFrame(t)
  <2> DEFINE call == [arg[t] EXCEPT !.left = @ - 1]
  <2>1. Goto(t, "mmap", call) /\ arg[t].op = "write" /\ arg[t].left > 0
    BY <1>2, <1>5 DEF WriteFrame, At
  <2>2. call \in Call /\ call.op = arg[t].op /\ call.s = arg[t].s
    BY <1>2, <2>1 DEF Call
  <2> HIDE DEF call
  <2>3. Moves
    BY <1>2, <2>1, <2>2 DEF Labels, PositionSteps
  <2> QED BY <1>1, <2>3
<1>6. CASE PositionCheck(t) \/ PositionStamp(t)
  <2>1. ASSUME NEW label \in {"stamp", "compute"}, NEW call \in Call, Goto(t, label, call),
               call.op = arg[t].op /\ call.s = arg[t].s
        PROVE  Moves
    <3>1. arg[t].op = "position"
      BY <1>2, <1>6 DEF PositionCheck, PositionStamp, At, PositionSteps
    <3> QED BY <2>1, <3>1 DEF Labels, PositionSteps
  <2>2. CASE PositionCheck(t)
    <3> DEFINE call == [arg[t] EXCEPT !.pcm = stream[arg[t].s].pcm]
    <3>1. call \in Call /\ call.op = arg[t].op /\ call.s = arg[t].s
      BY <1>1, <1>2, CallTypes DEF Call, Stream
    <3>2. Return(t) \/ Goto(t, "stamp", call)
      BY <2>2 DEF PositionCheck
    <3> HIDE DEF call
    <3> QED BY <1>1, <2>1, <3>1, <3>2
  <2>3. CASE PositionStamp(t)
    <3> DEFINE call == [arg[t] EXCEPT !.avail = KernelFrames - card[arg[t].s].queued]
    <3>1. KernelFrames - card[arg[t].s].queued \in Nat
      BY <1>1, CallTypes, AudioAssumption DEF Card
    <3>2. call \in Call /\ call.op = arg[t].op /\ call.s = arg[t].s
      BY <1>2, <3>1 DEF Call
    <3>3. UNCHANGED callVars \/ Return(t) \/ Goto(t, "compute", call)
      BY <2>3 DEF PositionStamp, Crash
    <3> HIDE DEF call
    <3> QED BY <1>1, <2>1, <3>2, <3>3
  <2> QED BY <1>6, <2>2, <2>3
<1>7. CASE WriteStartFails(t) \/ WriteEnd(t) \/ DoOutputStandby(t) \/ OutSetParameters(t)
           \/ PositionCompute(t)
  BY <1>1, <1>7 DEF WriteStartFails, WriteEnd, DoOutputStandby, OutSetParameters,
     PositionCompute
<1> QED BY <1>3, <1>4, <1>5, <1>6, <1>7 DEF Step

(* Calls of an orderly client that start: one of the stream's own thread   *)
(* starts only when no other of its calls is in progress.                  *)
LEMMA CallBegins ==
  ASSUME NEW t \in Threads, NEW s \in Streams,
         \/ OutStandby(t, s) \/ GetPosition(t, s)
         \/ \E n \in Chunks : Write(t, s, n)
         \/ \E val \in Routes \cup {0} : SetRouting(t, s, val)
  PROVE  \E label \in {"first", "check"}, call \in Call :
           /\ Begin(t, label, call) /\ call.s = s /\ call.left = call.frames
           /\ label = "check" <=> call.op = "position"
           /\ call.op # "route" => Exclusive(s)
<1>1. \A o \in Ops : LET c == NewCall(o, s) IN
        c \in Call /\ c.s = s /\ c.op = o /\ c.left = c.frames
  BY AudioAssumption DEF NewCall, Call
<1>2. \A n \in Chunks : LET c == [NewCall("write", s) EXCEPT !.frames = n, !.left = n] IN
        c \in Call /\ c.s = s /\ c.op = "write" /\ c.left = c.frames
  BY AudioAssumption DEF NewCall, Call, Ops
<1>3. \A r \in Routes \cup {0} : LET c == [NewCall("route", s) EXCEPT !.route = r] IN
        c \in Call /\ c.s = s /\ c.op = "route" /\ c.left = c.frames
  BY AudioAssumption DEF NewCall, Call, Ops
<1>4. "standby" \in Ops /\ "position" \in Ops
  BY DEF Ops
<1>5. CASE OutStandby(t, s)
  BY <1>1, <1>4, <1>5 DEF OutStandby
<1>6. CASE GetPosition(t, s)
  BY <1>1, <1>4, <1>6 DEF GetPosition
<1>7. CASE \E n \in Chunks : Write(t, s, n)
  BY <1>2, <1>7 DEF Write
<1>8. CASE \E val \in Routes \cup {0} : SetRouting(t, s, val)
  BY <1>3, <1>8 DEF SetRouting
<1> QED BY <1>5, <1>6, <1>7, <1>8

(* A thread starts a call, moves on in it or returns.                      *)
LEMMA CallsMove ==
  ASSUME IInv, CallSteps, OneCaller, NEW t \in Threads, NEW label \in Labels,
         NEW call, Goto(t, label, call),
         label # "idle" =>
           /\ label \in PositionSteps <=> call.op = "position"
           /\ label = "mmap" => call.op = "write"
           /\ call.op # "route" => \A u \in Threads \ {t} :
                pc[u] # "idle" /\ arg[u].op # "route" => arg[u].s # call.s
  PROVE  CallSteps' /\ OneCaller'
<1>1. /\ pc'[t] = label /\ arg'[t] = call
      /\ \A u \in Threads \ {t} : pc'[u] = pc[u] /\ arg'[u] = arg[u]
  BY DEF Goto, IInv, TypeOK
<1>2. CallSteps'
  BY <1>1 DEF CallSteps
<1>3. OneCaller'
  BY <1>1 DEF OneCaller
<1> QED BY <1>2, <1>3

(* Every action is one of a process without a fault.                       *)
LEMMA NextAlive == Next => Alive
<1>1. ASSUME NEW t \in Threads, Step(t)
      PROVE  Alive
  <2>1. CASE TakeFirst(t) \/ TakeSecond(t) \/ WriteFrame(t) \/ WriteEnd(t)
    BY <2>1 DEF TakeFirst, TakeSecond, WriteFrame, WriteEnd, At
  <2>2. CASE \/ WriteStarted(t) \/ WriteStart(t) \/ WriteStartFails(t)
             \/ DoOutputStandby(t) \/ OutSetParameters(t)
    BY <2>2 DEF WriteStarted, WriteStart, WriteStartFails, DoOutputStandby, OutSetParameters,
       Holding, At
  <2>3. CASE PositionCheck(t) \/ PositionStamp(t) \/ PositionCompute(t)
    BY <2>3 DEF PositionCheck, PositionStamp, PositionCompute, At
  <2> QED BY <1>1, <2>1, <2>2, <2>3 DEF Step
<1>2. ASSUME NEW t \in Threads, NEW s \in Streams,
             \/ OutStandby(t, s) \/ GetPosition(t, s)
             \/ \E n \in Chunks : Write(t, s, n)
             \/ \E val \in Routes \cup {0} : SetRouting(t, s, val)
      PROVE  Alive
  BY <1>2 DEF OutStandby, GetPosition, Write, SetRouting, Begin, At
<1>3. AdevOpen \/ AdevClose => Alive
  BY DEF AdevOpen, AdevClose
<1>4. ASSUME NEW s \in Streams, OpenOutputStream(s) \/ CloseOutputStream(s) \/ Play(s)
      PROVE  Alive
  BY <1>4 DEF OpenOutputStream, CloseOutputStream, Play
<1> QED BY <1>1, <1>2, <1>3, <1>4 DEF Next

(* An orderly client's calls on a stream come one after the other.         *)
LEMMA CallsInOrder ==
  ASSUME Orderly, IInv, CallSteps, OneCaller, [Next]_vars
  PROVE  CallSteps' /\ OneCaller'
<1>1. CASE UNCHANGED callVars
  BY <1>1 DEF callVars, CallSteps, OneCaller
<1>2. ASSUME NEW t \in Threads, Step(t)
      PROVE  CallSteps' /\ OneCaller'
  <2>1. CASE Return(t)
    BY <2>1, CallsMove DEF Return, Labels
  <2>2. ASSUME NEW label \in Labels \ {"idle"}, NEW call \in Call,
               Goto(t, label, call), call.op = arg[t].op /\ call.s = arg[t].s,
               label \in PositionSteps <=> arg[t].op = "position",
               label = "mmap" => arg[t].op = "write"
        PROVE  CallSteps' /\ OneCaller'
    <3>1. pc[t] # "idle"
      BY <1>2, OwnStep
    <3>2. call.op # "route" => \A u \in Threads \ {t} :
             pc[u] # "idle" /\ arg[u].op # "route" => arg[u].s # call.s
      BY <2>2, <3>1 DEF OneCaller
    <3> QED BY <2>2, <3>2, CallsMove
  <2> QED BY <1>1, <1>2, <2>1, <2>2, OwnStep
<1>3. ASSUME NEW t \in Threads, NEW s \in Streams,
             \/ OutStandby(t, s) \/ GetPosition(t, s)
             \/ \E n \in Chunks : Write(t, s, n)
             \/ \E val \in Routes \cup {0} : SetRouting(t, s, val)
      PROVE  CallSteps' /\ OneCaller'
  <2>1. PICK label \in {"first", "check"}, call \in Call :
           /\ Begin(t, label, call) /\ call.s = s
           /\ label = "check" <=> call.op = "position"
           /\ call.op # "route" => Exclusive(s)
    BY <1>3, CallBegins
  <2>2. Goto(t, label, call) /\ label \in Labels
    BY <2>1 DEF Begin, Labels
  <2>3. label \in PositionSteps <=> call.op = "position"
    BY <2>1 DEF PositionSteps
  <2>4. call.op # "route" => \A u \in Threads \ {t} :
           pc[u] # "idle" /\ arg[u].op # "route" => arg[u].s # call.s
    BY <2>1 DEF Exclusive
  <2> QED BY <2>1, <2>2, <2>3, <2>4, CallsMove
<1>4. CASE \/ AdevOpen \/ AdevClose
           \/ \E s \in Streams : OpenOutputStream(s) \/ CloseOutputStream(s) \/ Play(s)
  <2>1. UNCHANGED callVars
    BY <1>4 DEF AdevOpen, AdevClose, OpenOutputStream, CloseOutputStream, Play
  <2> QED BY <1>1, <2>1
<1> QED BY <1>1, <1>2, <1>3, <1>4 DEF Next, vars
-----------------------------------------------------------------------------
(* A step that leaves the running streams and their pcms as they are.      *)
LEMMA SameRunning ==
  ASSUME PcmsAccounted, ActiveIsRunning, active \in Streams \cup {NULL},
         \A s \in Streams : /\ Running(s)' <=> Running(s)
                            /\ Running(s) => stream'[s].pcm = stream[s].pcm,
         pcmLive' = pcmLive, active' = active \/ active' = NULL
  PROVE  PcmsAccounted' /\ ActiveIsRunning'
<1>1. {r \in Streams : Running(r)}' = {r \in Streams : Running(r)}
  OBVIOUS
<1>2. {stream[s].pcm : s \in {r \in Streams : Running(r)}}'
        = {stream[s].pcm : s \in {r \in Streams : Running(r)}}
  OBVIOUS
<1>3. PcmsAccounted'
  BY <1>2 DEF PcmsAccounted
<1>4. ActiveIsRunning'
  BY DEF ActiveIsRunning, Running
<1> QED BY <1>3, <1>4

(* start_output_stream opens the pcm of one more running stream.           *)
LEMMA StartAccounted ==
  ASSUME IInv, PcmsAccounted, NEW t \in Threads, WriteStart(t)
  PROVE  PcmsAccounted' /\ ActiveIsRunning'
<1> DEFINE st == arg[t].s
<1>1. /\ pc[t] = "held" /\ active' = st /\ stream[st].standby
      /\ \E p \in Pcms \ pcmLive :
           /\ pcmLive' = pcmLive \cup {p}
           /\ stream' = [stream EXCEPT ![st] =
                            [stream[st] EXCEPT !.pcm = p, !.standby = FALSE]]
  BY DEF WriteStart, Holding, At, Update, SetsStandby
<1>2. st \in Streams /\ stream[st] \in Stream
  BY <1>1, HolderAlone
<1>3. PICK p \in Pcms \ pcmLive :
        /\ pcmLive' = pcmLive \cup {p}
        /\ stream' = [stream EXCEPT ![st] =
                         [stream[st] EXCEPT !.pcm = p, !.standby = FALSE]]
  BY <1>1
<1> DEFINE new == [stream[st] EXCEPT !.pcm = p, !.standby = FALSE]
<1>4. new \in Stream /\ new.pcm = p /\ ~new.standby
  BY <1>2 DEF Stream
<1>5. stream'[st] = new /\ \A s \in Streams \ {st} : stream'[s] = stream[s]
  BY <1>2, <1>3 DEF IInv, TypeOK
<1> HIDE DEF new
<1>6. new # NULL
  BY <1>4, AudioAssumption
<1>7. /\ \A s \in Streams : Running(s)' <=> s = st \/ Running(s)
      /\ stream'[st].pcm = p /\ ~Running(st)
  BY <1>1, <1>4, <1>5, <1>6 DEF Running
<1> DEFINE was == {r \in Streams : Running(r)}
           is  == {r \in Streams : Running(r)'}
<1>8. is = was \cup {st} /\ st \notin was
  BY <1>2, <1>7
<1>9. \A s \in was : stream'[s] = stream[s]
  BY <1>5, <1>8
<1>10. pcmLive = {stream[s].pcm : s \in was}
  BY DEF PcmsAccounted
<1> HIDE DEF was, is
<1>11. {stream'[s].pcm : s \in is} = {stream[s].pcm : s \in was} \cup {p}
  BY <1>7, <1>8, <1>9
<1>12. PcmsAccounted'
  BY <1>3, <1>10, <1>11 DEF PcmsAccounted, is
<1>13. ActiveIsRunning'
  BY <1>1, <1>2, <1>7 DEF ActiveIsRunning
<1> QED BY <1>12, <1>13

(* Standby closes the pcm of the stream that stops, and of no other.       *)
LEMMA StandbyAccounted ==
  ASSUME IInv, PcmsAccounted, ActiveIsRunning, NEW t \in Threads, DoOutputStandby(t)
  PROVE  PcmsAccounted' /\ ActiveIsRunning'
<1> DEFINE st == arg[t].s
<1>1. pc[t] = "held"
  BY DEF DoOutputStandby, Holding, At
<1>2. st \in Streams /\ stream[st] \in Stream
  BY <1>1, HolderAlone
<1>3. CASE stream[st].standby
  <2>1. UNCHANGED <<active, stream, pcmLive>>
    BY <1>3 DEF DoOutputStandby
  <2> QED BY <2>1, SameRunning DEF Running, IInv, TypeOK
<1>4. CASE ~stream[st].standby
  <2> DEFINE new == [stream[st] EXCEPT !.pcm = NULL, !.standby = TRUE]
             was == {r \in Streams : Running(r)}
             is  == {r \in Streams : Running(r)'}
  <2>1. /\ pcmLive' = pcmLive \ {stream[st].pcm} /\ active' = NULL
        /\ stream' = [stream EXCEPT ![st] = new]
    BY <1>4 DEF DoOutputStandby, Update, PcmAfterStandby, ActiveAfterStandby
  <2>2. new.standby
    BY <1>2 DEF Stream
  <2>3. stream'[st] = new /\ \A s \in Streams \ {st} : stream'[s] = stream[s]
    BY <1>2, <2>1 DEF IInv, TypeOK
  <2> HIDE DEF new
  <2>4. \A s \in Streams : Running(s)' <=> s # st /\ Running(s)
    BY <2>2, <2>3 DEF Running
  <2>5. Running(st)
    BY <1>2, <1>4, AudioAssumption DEF Running
  <2>6. is = was \ {st} /\ st \in was
    BY <1>2, <2>4, <2>5
  <2>7. \A s \in is : stream'[s] = stream[s] /\ stream[s].pcm # stream[st].pcm
    BY <1>2, <2>3, <2>4, <2>5 DEF IInv, PcmMatchesStandby
  <2>8. pcmLive = {stream[s].pcm : s \in was}
    BY DEF PcmsAccounted
  <2> HIDE DEF was, is
  <2>9. {stream'[s].pcm : s \in is} = {stream[s].pcm : s \in was} \ {stream[st].pcm}
    BY <2>6, <2>7
  <2>10. PcmsAccounted'
    BY <2>1, <2>8, <2>9 DEF PcmsAccounted, is
  <2> QED BY <2>1, <2>10 DEF ActiveIsRunning
<1> QED BY <1>3, <1>4

(* A stream in standby stays in standby: it is opened, closed, or its      *)
(* start fails; and a write ends.                                          *)
LEMMA OneStreamAccounted ==
  ASSUME IInv, PcmsAccounted, ActiveIsRunning, pcmLive' = pcmLive,
         active' = active \/ active' = NULL,
         NEW st \in Streams, NEW new, stream' = [stream EXCEPT ![st] = new],
         \/ ~Running(st) /\ (new = NULL \/ new.standby)
         \/ Running(st) /\ new # NULL /\ ~new.standby /\ new.pcm = stream[st].pcm
  PROVE  PcmsAccounted' /\ ActiveIsRunning'
<1>1. stream'[st] = new /\ \A s \in Streams \ {st} : stream'[s] = stream[s]
  BY DEF IInv, TypeOK
<1>2. \A s \in Streams : /\ Running(s)' <=> Running(s)
                         /\ Running(s) => stream'[s].pcm = stream[s].pcm
  BY <1>1 DEF Running
<1> QED BY <1>2, SameRunning DEF IInv, TypeOK

(* Every step keeps the account of pcms, with orderly callers.             *)
LEMMA AccountsKept ==
  ASSUME Orderly, IInv, PcmsAccounted, ActiveIsRunning, [Next]_vars
  PROVE  PcmsAccounted' /\ ActiveIsRunning'
<1>1. ASSUME stream' = stream, pcmLive' = pcmLive, active' = active \/ active' = NULL
      PROVE  PcmsAccounted' /\ ActiveIsRunning'
  BY <1>1, SameRunning DEF Running, IInv, TypeOK
<1>2. ASSUME NEW t \in Threads,
             \/ TakeFirst(t) \/ TakeSecond(t) \/ WriteStarted(t) \/ WriteFrame(t)
             \/ OutSetParameters(t)
             \/ PositionCheck(t) \/ PositionStamp(t) \/ PositionCompute(t)
      PROVE  PcmsAccounted' /\ ActiveIsRunning'
  <2>1. stream' = stream /\ pcmLive' = pcmLive /\ active' = active
    BY <1>2 DEF TakeFirst, TakeSecond, Take, WriteStarted, WriteFrame, OutSetParameters,
       PositionCheck, PositionStamp, PositionCompute, Crash, devVars
  <2> QED BY <1>1, <2>1
<1>3. ASSUME NEW t \in Threads, WriteStartFails(t)
      PROVE  PcmsAccounted' /\ ActiveIsRunning'
  <2> DEFINE st == arg[t].s
             new == [stream[st] EXCEPT !.pcm = Closed, !.unavailable = TRUE]
  <2>1. pc[t] = "held" /\ stream[st].standby /\ pcmLive' = pcmLive
    BY <1>3 DEF WriteStartFails, Holding, At
  <2>2. st \in Streams /\ stream[st] \in Stream
    BY <2>1, HolderAlone
  <2>3. new.standby /\ ~Running(st)
    BY <2>1, <2>2 DEF Stream, Running
  <2>4. \/ stream' = stream /\ active' = active
        \/ stream' = [stream EXCEPT ![st] = new] /\ active' = NULL
    BY <1>3 DEF WriteStartFails, Update
  <2> HIDE DEF new
  <2> QED BY <1>1, <2>1, <2>2, <2>3, <2>4, OneStreamAccounted
<1>4. ASSUME NEW t \in Threads, WriteEnd(t)
      PROVE  PcmsAccounted' /\ ActiveIsRunning'
  <2> DEFINE st == arg[t].s
             new == [stream[st] EXCEPT !.written = (@ + Counted(arg[t])) % Mod]
  <2>1. pc[t] = "mmap" /\ pcmLive' = pcmLive /\ active' = active
        /\ stream' = [stream EXCEPT ![st] = new]
    BY <1>4 DEF WriteEnd, At, Update, devVars
  <2>2. st \in Streams /\ stream[st] \in Stream /\ Running(st)
    BY <2>1, CallTypes DEF IInv, WriteKeepsPcm
  <2>3. new.standby = stream[st].standby /\ new.pcm = stream[st].pcm
    BY <2>2 DEF Stream
  <2>4. new # NULL
    <3>1. (stream[st].written + Counted(arg[t])) % Mod \in 0 .. Mod - 1
      <4>1. stream[st].written \in Nat /\ Counted(arg[t]) \in Nat
        BY <2>1, CallTypes DEF Counted
      <4>2. \A n, k \in Nat : (n + k) % Mod \in 0 .. Mod - 1
        BY AudioAssumption
      <4> QED BY <4>1, <4>2
    <3>2. new \in Stream
      BY <2>2, <3>1 DEF Stream
    <3> QED BY <3>2, AudioAssumption
  <2> HIDE DEF new
  <2> QED BY <2>1, <2>2, <2>3, <2>4, OneStreamAccounted DEF Running
<1>5. ASSUME NEW t \in Threads, NEW s \in Streams,
             \/ OutStandby(t, s) \/ GetPosition(t, s)
             \/ \E n \in Chunks : Write(t, s, n)
             \/ \E val \in Routes \cup {0} : SetRouting(t, s, val)
      PROVE  PcmsAccounted' /\ ActiveIsRunning'
  <2>1. stream' = stream /\ pcmLive' = pcmLive /\ active' = active
    BY <1>5 DEF OutStandby, GetPosition, Write, SetRouting, Begin, devVars
  <2> QED BY <1>1, <2>1
<1>6. CASE AdevOpen \/ AdevClose \/ \E s \in Streams : Play(s)
  <2>1. stream' = stream /\ pcmLive' = pcmLive /\ (active' = active \/ active' = NULL)
    BY <1>6 DEF AdevOpen, AdevClose, Play, devVars
  <2> QED BY <1>1, <2>1
<1>7. ASSUME NEW s \in Streams, OpenOutputStream(s) \/ CloseOutputStream(s)
      PROVE  PcmsAccounted' /\ ActiveIsRunning'
  <2>1. /\ ~Running(s) /\ pcmLive' = pcmLive /\ active' = active
        /\ \/ stream' = [stream EXCEPT ![s] = NewStream]
           \/ stream' = [stream EXCEPT ![s] = NULL]
    BY <1>7 DEF OpenOutputStream, CloseOutputStream, Update, Running, devVars
  <2>2. NewStream.standby
    BY DEF NewStream
  <2> QED BY <2>1, <2>2, OneStreamAccounted
<1>8. CASE UNCHANGED vars
  BY <1>1, <1>8 DEF vars, devVars
<1> QED BY <1>2, <1>3, <1>4, <1>5, <1>6, <1>7, <1>8, StartAccounted, StandbyAccounted
        DEF Next, Step
-----------------------------------------------------------------------------
(* A step touches its own stream and, in a route call, no stream at all.   *)
LEMMA StepIsLocal ==
  ASSUME IInv, CallSteps, NEW t \in Threads, Step(t)
  PROVE  /\ \A u \in Threads \ {t} : pc'[u] = pc[u] /\ arg'[u] = arg[u]
         /\ \A s \in Streams : s # arg[t].s \/ arg[t].op = "route" =>
              stream'[s] = stream[s] /\ card'[s] = card[s]
<1>1. \A u \in Threads \ {t} : pc'[u] = pc[u] /\ arg'[u] = arg[u]
  BY OwnStep DEF callVars, Return, Goto, IInv, TypeOK
<1>2. ASSUME NEW s \in Streams, s # arg[t].s
      PROVE  stream'[s] = stream[s] /\ card'[s] = card[s]
  <2>1. \/ stream' = stream
        \/ \E new : stream' = [stream EXCEPT ![arg[t].s] = new]
    BY DEF Step, TakeFirst, TakeSecond, Take, WriteStarted, WriteStart, WriteStartFails,
       WriteFrame, WriteEnd, DoOutputStandby, OutSetParameters, PositionCheck,
       PositionStamp, PositionCompute, Crash, Update
  <2>2. \/ card' = card
        \/ \E new : card' = [card EXCEPT ![arg[t].s] = new]
    BY DEF Step, TakeFirst, TakeSecond, Take, WriteStarted, WriteStart, WriteStartFails,
       WriteFrame, WriteEnd, DoOutputStandby, OutSetParameters, PositionCheck,
       PositionStamp, PositionCompute, Crash
  <2> QED BY <1>2, <2>1, <2>2 DEF IInv, TypeOK
<1>3. CASE arg[t].op = "route"
  <2>1. pc[t] # "idle" => pc[t] \notin PositionSteps \cup {"mmap"}
    BY <1>3 DEF CallSteps
  <2>2. TakeFirst(t) \/ TakeSecond(t) \/ OutSetParameters(t)
    BY <1>3, <2>1 DEF Step, WriteStarted, WriteStart, WriteStartFails, WriteFrame,
       WriteEnd, DoOutputStandby, PositionCheck, PositionStamp, PositionCompute,
       Holding, At, PositionSteps
  <2> QED BY <1>1, <2>2 DEF TakeFirst, TakeSecond, Take, OutSetParameters
<1> QED BY <1>1, <1>2, <1>3

(* Between the steps of a position query its stream does not change, and   *)
(* of its card only the frames that play move, out of the kernel buffer.   *)
LEMMA QueryAlone ==
  ASSUME IInv, CallSteps, OneCaller, NEW u \in Threads, pc[u] \in PositionSteps,
         [Next]_vars, ~Step(u)
  PROVE  LET s == arg[u].s IN
         /\ pc'[u] = pc[u] /\ arg'[u] = arg[u] /\ stream'[s] = stream[s]
         /\ card[s].gone <= card'[s].gone /\ card'[s].reported = card[s].reported
         /\ card'[s].queued + card'[s].gone = Delivered(s)
<1> DEFINE s == arg[u].s
           Kept == /\ pc'[u] = pc[u] /\ arg'[u] = arg[u] /\ stream'[s] = stream[s]
                   /\ card[s].gone <= card'[s].gone
                   /\ card'[s].reported = card[s].reported
                   /\ card'[s].queued + card'[s].gone = Delivered(s)
<1>1. /\ pc[u] # "idle" /\ arg[u].op = "position" /\ s \in Streams
      /\ stream[s] # NULL /\ card[s] \in Card /\ card[s].gone \in Nat
      /\ card[s].queued \in Int
  <2>1. pc[u] # "idle"
    BY DEF PositionSteps
  <2> QED BY <2>1, CallTypes, AudioAssumption DEF CallSteps, Card
<1>2. ASSUME pc'[u] = pc[u], arg'[u] = arg[u], stream'[s] = stream[s], card'[s] = card[s]
      PROVE  Kept
  BY <1>1, <1>2 DEF Delivered
<1> HIDE DEF s, Kept
<1>3. ASSUME NEW t \in Threads, Step(t)
      PROVE  Kept
  <2>1. t # u /\ pc[t] # "idle"
    BY <1>3, OwnStep
  <2>2. s # arg[t].s \/ arg[t].op = "route"
    BY <1>1, <2>1 DEF OneCaller, s
  <2> QED BY <1>1, <1>2, <1>3, <2>1, <2>2, StepIsLocal
<1>4. ASSUME NEW t \in Threads, NEW r \in Streams,
             \/ OutStandby(t, r) \/ GetPosition(t, r)
             \/ \E n \in Chunks : Write(t, r, n)
             \/ \E val \in Routes \cup {0} : SetRouting(t, r, val)
      PROVE  Kept
  <2>1. PICK label, call : Begin(t, label, call)
    BY <1>4 DEF OutStandby, GetPosition, Write, SetRouting
  <2>2. t # u
    BY <1>1, <2>1 DEF Begin, At
  <2> QED BY <1>2, <2>1, <2>2 DEF Begin, Goto, IInv, TypeOK
<1>5. ASSUME AdevOpen \/ AdevClose
      PROVE  Kept
  <2>1. UNCHANGED <<pc, arg, stream, card>>
    BY <1>5 DEF AdevOpen, AdevClose, callVars
  <2> QED BY <1>2, <2>1
<1>6. ASSUME NEW r \in Streams, OpenOutputStream(r) \/ CloseOutputStream(r)
      PROVE  Kept
  <2>1. r # s
    BY <1>1, <1>6 DEF OpenOutputStream, CloseOutputStream, Busy, s
  <2>2. UNCHANGED <<pc, arg>>
    BY <1>6 DEF OpenOutputStream, CloseOutputStream, callVars
  <2>3. stream'[s] = stream[s] /\ card'[s] = card[s]
    BY <1>1, <1>6, <2>1 DEF OpenOutputStream, CloseOutputStream, Update, IInv, TypeOK
  <2> QED BY <1>2, <2>2, <2>3
<1>7. ASSUME NEW r \in Streams, Play(r)
      PROVE  Kept
  <2>1. /\ UNCHANGED <<pc, arg, stream>>
        /\ card' = [card EXCEPT ![r].queued = @ - 1, ![r].gone = @ + 1]
    BY <1>7 DEF Play, callVars
  <2>2. /\ card'[s].gone = IF s = r THEN card[s].gone + 1 ELSE card[s].gone
        /\ card'[s].queued = IF s = r THEN card[s].queued - 1 ELSE card[s].queued
        /\ card'[s].reported = card[s].reported
    BY <1>1, <2>1 DEF IInv, TypeOK, Card
  <2> QED BY <1>1, <2>1, <2>2 DEF Kept, Delivered
<1>8. ASSUME UNCHANGED vars
      PROVE  Kept
  <2>1. UNCHANGED <<pc, arg, stream, card>>
    BY <1>8 DEF vars, callVars
  <2> QED BY <1>2, <2>1
<1>9. Kept
  BY <1>3, <1>4, <1>5, <1>6, <1>7, <1>8 DEF Next
<1> QED BY <1>9 DEF Kept, s

(* A query comes to its later steps by its earlier ones.                   *)
LEMMA QueryGoesOn ==
  ASSUME IInv, CallSteps, NEW u \in Threads, [Next]_vars, pc'[u] \in {"stamp", "compute"}
  PROVE  /\ pc[u] \in PositionSteps
         /\ Step(u) => \/ PositionCheck(u)
                       \/ PositionStamp(u)
<1>1. ASSUME NEW t \in Threads, Step(t)
      PROVE  /\ pc[u] \in PositionSteps
             /\ t = u => PositionCheck(u) \/ PositionStamp(u)
  <2>1. CASE t # u
    BY <1>1, <2>1, StepIsLocal DEF PositionSteps
  <2>2. CASE t = u
    <3>1. \A label, call : Goto(t, label, call) => pc'[u] = label
      BY <2>2 DEF Goto, IInv, TypeOK
    <3>2. PositionCheck(t) \/ PositionStamp(t)
      <4>1. ~(TakeFirst(t) \/ TakeSecond(t) \/ WriteStarted(t) \/ WriteStart(t))
        BY <3>1 DEF TakeFirst, TakeSecond, Take, WriteStarted, WriteStart
      <4>2. ~(WriteStartFails(t) \/ WriteFrame(t) \/ WriteEnd(t))
        BY <3>1 DEF WriteStartFails, WriteFrame, WriteEnd, Return
      <4>3. ~(DoOutputStandby(t) \/ OutSetParameters(t) \/ PositionCompute(t))
        BY <3>1 DEF DoOutputStandby, OutSetParameters, PositionCompute, Return
      <4> QED BY <1>1, <4>1, <4>2, <4>3 DEF Step
    <3> QED BY <2>2, <3>2 DEF PositionCheck, PositionStamp, At, PositionSteps
  <2> QED BY <2>1, <2>2
<1>2. ASSUME NEW t \in Threads, NEW r \in Streams,
             \/ OutStandby(t, r) \/ GetPosition(t, r)
             \/ \E n \in Chunks : Write(t, r, n)
             \/ \E val \in Routes \cup {0} : SetRouting(t, r, val)
      PROVE  pc[u] \in PositionSteps
  <2>1. PICK label \in {"first", "check"}, call \in Call : Begin(t, label, call)
    BY <1>2, CallBegins
  <2> QED BY <2>1 DEF Begin, Goto, IInv, TypeOK, PositionSteps
<1>3. ASSUME pc' = pc
      PROVE  pc[u] \in PositionSteps
  BY <1>3 DEF PositionSteps
<1>4. ASSUME \/ AdevOpen \/ AdevClose
             \/ \E r \in Streams : OpenOutputStream(r) \/ CloseOutputStream(r) \/ Play(r)
             \/ UNCHANGED vars
      PROVE  pc' = pc
  BY <1>4 DEF AdevOpen, AdevClose, OpenOutputStream, CloseOutputStream, Play, callVars, vars
<1>5. pc[u] \in PositionSteps
  BY <1>1, <1>2, <1>3, <1>4 DEF Next
<1> QED BY <1>1, <1>5

(* The pcm a query tested is the one it uses.                              *)
LEMMA TestedPcmKept ==
  ASSUME IInv, CallSteps, OneCaller, TestedPcm, [Next]_vars
  PROVE  TestedPcm'
<1> SUFFICES ASSUME NEW u \in Threads, pc'[u] = "stamp"
             PROVE  arg'[u].pcm # NULL /\ arg'[u].pcm = stream'[arg'[u].s].pcm
  BY DEF TestedPcm
<1>1. pc[u] \in PositionSteps
  BY QueryGoesOn
<1>2. CASE Step(u)
  <2>1. PositionCheck(u) \/ PositionStamp(u)
    BY <1>2, QueryGoesOn
  <2>2. CASE PositionCheck(u)
    <3> DEFINE p == stream[arg[u].s].pcm
    <3>1. arg[u] \in Call
      BY <2>2, CallTypes DEF PositionCheck, At
    <3>2. p # NULL /\ Goto(u, "stamp", [arg[u] EXCEPT !.pcm = p]) /\ stream' = stream
      BY <2>2 DEF PositionCheck, Return, Goto, IInv, TypeOK
    <3>3. arg'[u] = [arg[u] EXCEPT !.pcm = p]
      BY <3>2 DEF Goto, IInv, TypeOK
    <3>4. arg'[u].pcm = p /\ arg'[u].s = arg[u].s
      BY <3>1, <3>3 DEF Call
    <3> QED BY <3>2, <3>4
  <2>3. CASE PositionStamp(u)
    <3>1. UNCHANGED <<pc, arg, stream>>
      BY <2>3 DEF PositionStamp, Crash, callVars, Return, Goto, IInv, TypeOK
    <3> QED BY <3>1 DEF TestedPcm
  <2> QED BY <2>1, <2>2, <2>3
<1>3. CASE ~Step(u)
  BY <1>1, <1>3, QueryAlone DEF TestedPcm
<1> QED BY <1>2, <1>3

(* A query runs into a closed pcm only when the stream's failed to open.   *)
LEMMA FaultsExplained ==
  ASSUME IInv, TestedPcm, FaultNeedsFailedOpen, [Next]_vars
  PROVE  FaultNeedsFailedOpen'
<1>1. CASE UNCHANGED vars
  BY <1>1 DEF vars, callVars, FaultNeedsFailedOpen, Busy
<1>2. CASE Next /\ fault' = fault
  BY <1>2, NextAlive DEF Alive, FaultNeedsFailedOpen
<1>3. ASSUME NEW t \in Threads, PositionStamp(t), fault' # fault
      PROVE  FaultNeedsFailedOpen'
  <2> DEFINE st == arg[t].s
  <2>1. pc[t] = "stamp" /\ arg[t].pcm # NULL /\ arg[t].pcm = stream[st].pcm
    BY <1>3 DEF PositionStamp, At, TestedPcm
  <2>2. st \in Streams /\ stream[st] # NULL /\ stream[st] \in Stream
    BY <2>1, CallTypes
  <2>3. Crash("use_after_close") /\ stream[st].pcm \notin pcmLive
    BY <1>3, <2>1 DEF PositionStamp, NoCrash
  <2>4. stream[st].unavailable
    BY <2>1, <2>2, <2>3 DEF IInv, PcmMatchesStandby
  <2>5. Busy(st)
    BY <2>1 DEF Busy
  <2>6. fault' = "use_after_close" /\ UNCHANGED <<stream, pc, arg>>
    BY <2>3 DEF Crash, callVars
  <2> QED BY <2>2, <2>4, <2>5, <2>6 DEF FaultNeedsFailedOpen, Busy
<1>4. ASSUME NEW t \in Threads, Step(t)
      PROVE  fault' = fault \/ PositionStamp(t)
  <2>1. CASE TakeFirst(t) \/ TakeSecond(t) \/ WriteFrame(t) \/ WriteEnd(t)
    BY <2>1 DEF TakeFirst, TakeSecond, Take, WriteFrame, WriteEnd, NoCrash
  <2>2. CASE \/ WriteStarted(t) \/ WriteStart(t) \/ WriteStartFails(t)
             \/ DoOutputStandby(t) \/ OutSetParameters(t)
    BY <2>2 DEF WriteStarted, WriteStart, WriteStartFails, DoOutputStandby, OutSetParameters,
       NoCrash
  <2>3. CASE PositionCheck(t) \/ PositionCompute(t)
    BY <2>3 DEF PositionCheck, PositionCompute, NoCrash
  <2> QED BY <1>4, <2>1, <2>2, <2>3 DEF Step
<1>5. ASSUME NEW t \in Threads, NEW s \in Streams,
             \/ OutStandby(t, s) \/ GetPosition(t, s)
             \/ \E n \in Chunks : Write(t, s, n)
             \/ \E val \in Routes \cup {0} : SetRouting(t, s, val)
      PROVE  fault' = fault
  BY <1>5 DEF OutStandby, GetPosition, Write, SetRouting, Begin, NoCrash
<1>6. AdevOpen \/ AdevClose => fault' = fault
  BY DEF AdevOpen, AdevClose, NoCrash
<1>7. ASSUME NEW s \in Streams, OpenOutputStream(s) \/ CloseOutputStream(s) \/ Play(s)
      PROVE  fault' = fault
  BY <1>7 DEF OpenOutputStream, CloseOutputStream, Play, NoCrash
<1>8. Next => fault' = fault \/ \E t \in Threads : PositionStamp(t)
  BY <1>4, <1>5, <1>6, <1>7 DEF Next
<1> QED BY <1>1, <1>2, <1>3, <1>8
-----------------------------------------------------------------------------
(* The types of what the frames are counted in.                            *)
LEMMA CardTypes ==
  ASSUME IInv, NEW s \in Streams
  PROVE  /\ card[s] \in Card /\ card[s].queued \in 0 .. KernelFrames
         /\ card[s].gone \in Nat /\ card[s].reported \in Nat
         /\ Delivered(s) \in Nat
         /\ stream[s] # NULL => stream[s].written \in 0 .. Mod - 1
<1>1. card[s] \in Card /\ (stream[s] # NULL => stream[s] \in Stream)
  BY DEF IInv, TypeOK
<1>2. /\ card[s].queued \in 0 .. KernelFrames /\ card[s].gone \in Nat
      /\ card[s].reported \in Nat
  BY <1>1 DEF Card
<1>3. stream[s] # NULL => stream[s].written \in 0 .. Mod - 1
  BY <1>1 DEF Stream
<1> QED BY <1>1, <1>2, <1>3, AudioAssumption DEF Delivered

(* Frames stay counted over a step in which none comes or is counted.      *)
LEMMA FramesStay ==
  ASSUME IInv, FramesCounted, NoFrames, NEW t \in Threads, NEW label, NEW call,
         NoneWritten(t, label, call)
  PROVE  FramesCounted'
<1> USE DEF NoFrames, NoneWritten
<1>1. /\ pc'[t] = label /\ arg'[t] = call
      /\ \A u \in Threads \ {t} : pc'[u] = pc[u] /\ arg'[u] = arg[u]
  BY DEF Goto, IInv, TypeOK
<1>2. ASSUME NEW s \in Streams, stream'[s] # NULL
      PROVE  stream'[s].written <= card'[s].queued + card'[s].gone
  BY <1>2 DEF FramesCounted
<1>3. ASSUME NEW u \in Threads, pc'[u] # "idle"
      PROVE  LET s == arg'[u].s IN
             IF pc'[u] = "mmap"
             THEN /\ arg'[u].left <= arg'[u].frames
                  /\ stream'[s].written + arg'[u].frames - arg'[u].left
                       <= card'[s].queued + card'[s].gone
             ELSE arg'[u].left = arg'[u].frames
  <2>1. CASE u = t
    <3>1. /\ stream'[call.s] # NULL /\ call.s \in Streams
          /\ stream'[call.s].written = stream[call.s].written
          /\ stream[call.s].written \in Nat
          /\ call.left = call.frames /\ call.frames \in Nat
      BY <1>1, <1>3, <2>1, CardTypes
    <3>2. stream'[call.s].written <= card'[call.s].queued + card'[call.s].gone
      BY <1>2, <3>1
    <3>3. stream'[call.s].written + call.frames - call.left = stream'[call.s].written
          /\ call.left <= call.frames
      BY <3>1
    <3> QED BY <1>1, <2>1, <3>1, <3>2, <3>3
  <2>2. CASE u # t
    <3>1. pc[u] # "idle" /\ pc'[u] = pc[u] /\ arg'[u] = arg[u]
      BY <1>1, <1>3, <2>2
    <3>2. arg[u].s \in Streams /\ stream[arg[u].s] # NULL
      BY <3>1, CallTypes
    <3> QED BY <3>1, <3>2 DEF FramesCounted
  <2> QED BY <2>1, <2>2
<1> QED BY <1>2, <1>3 DEF FramesCounted, Delivered

(* A frame goes into the kernel buffer and is counted off the call.        *)
LEMMA FrameCounted ==
  ASSUME IInv, FramesCounted, NEW t \in Threads, WriteFrame(t)
  PROVE  FramesCounted'
<1> DEFINE st == arg[t].s
<1>1. /\ pc[t] = "mmap" /\ arg[t].left > 0 /\ stream' = stream
      /\ card' = [card EXCEPT ![st].queued = @ + 1]
      /\ Goto(t, "mmap", [arg[t] EXCEPT !.left = @ - 1])
  BY DEF WriteFrame, At
<1>2. /\ arg[t] \in Call /\ st \in Streams /\ arg[t].left \in Nat
      /\ arg[t].frames \in Nat /\ stream[st].written \in Nat
  BY <1>1, CallTypes
<1>3. /\ pc' = pc /\ arg'[t] = [arg[t] EXCEPT !.left = @ - 1]
      /\ \A u \in Threads \ {t} : arg'[u] = arg[u]
  BY <1>1 DEF Goto, IInv, TypeOK
<1>4. /\ arg'[t].left = arg[t].left - 1 /\ arg'[t].frames = arg[t].frames
      /\ arg'[t].s = st
  BY <1>2, <1>3 DEF Call
<1>5. /\ card'[st].queued + card'[st].gone = Delivered(st) + 1
      /\ \A s \in Streams \ {st} : card'[s] = card[s]
  <2>1. card'[st] = [card[st] EXCEPT !.queued = @ + 1]
        /\ \A s \in Streams \ {st} : card'[s] = card[s]
    BY <1>1, <1>2 DEF IInv, TypeOK
  <2>2. card'[st].queued = card[st].queued + 1 /\ card'[st].gone = card[st].gone
    BY <1>2, <2>1, CardTypes DEF Card
  <2> QED BY <1>2, <2>1, <2>2, CardTypes DEF Delivered
<1>6. ASSUME NEW s \in Streams, stream[s] # NULL
      PROVE  stream[s].written <= card'[s].queued + card'[s].gone
  <2>1. stream[s].written \in Nat /\ Delivered(s) \in Nat
        /\ stream[s].written <= Delivered(s)
    BY <1>6, CardTypes DEF FramesCounted
  <2>2. card'[s].queued + card'[s].gone \in {Delivered(s), Delivered(s) + 1}
    BY <1>5 DEF Delivered
  <2> QED BY <2>1, <2>2
<1>7. ASSUME NEW u \in Threads, pc[u] # "idle"
      PROVE  LET s == arg'[u].s IN
             IF pc[u] = "mmap"
             THEN /\ arg'[u].left <= arg'[u].frames
                  /\ stream[s].written + arg'[u].frames - arg'[u].left
                       <= card'[s].queued + card'[s].gone
             ELSE arg'[u].left = arg'[u].frames
  <2>1. CASE u = t
    <3>1. /\ arg[t].left <= arg[t].frames /\ Delivered(st) \in Nat
          /\ stream[st].written + arg[t].frames - arg[t].left <= Delivered(st)
      BY <1>1, <1>2, CardTypes DEF FramesCounted
    <3> HIDE DEF st
    <3>2. stream[st].written + arg'[t].frames - arg'[t].left <= Delivered(st) + 1
          /\ arg'[t].left <= arg'[t].frames
      BY <1>1, <1>2, <1>4, <3>1
    <3> QED BY <1>1, <1>4, <1>5, <2>1, <3>2
  <2>2. CASE u # t
    <3>1. arg'[u] = arg[u] /\ arg[u].s \in Streams
      BY <1>3, <1>7, <2>2, CallTypes
    <3>2. pc[u] = "mmap" => arg[u].s # st
      BY <1>1, <2>2 DEF IInv, WriteKeepsPcm
    <3> QED BY <1>5, <1>7, <3>1, <3>2 DEF FramesCounted, Delivered
  <2> QED BY <2>1, <2>2
<1> QED BY <1>1, <1>3, <1>6, <1>7 DEF FramesCounted, Delivered

(* Remainders of a number in the range or just below it, and of any.       *)
LEMMA InRange == ASSUME NEW m \in Nat \ {0}, NEW n \in Nat, n < m PROVE n % m = n
  OBVIOUS

LEMMA BelowRange ==
  ASSUME NEW m \in Nat \ {0}, NEW d \in Int, d < 0, 0 <= d + m PROVE d % m = d + m
  OBVIOUS

LEMMA RemainderAtMost == ASSUME NEW m \in Nat \ {0}, NEW n \in Nat PROVE n % m <= n
<1>1. n % m \in 0 .. m - 1
  OBVIOUS
<1>2. CASE n < m
  BY <1>2, InRange
<1> QED BY <1>1, <1>2

(* A write counts its frames only when all of them are in the buffer.      *)
LEMMA WriteCounted ==
  ASSUME IInv, FramesCounted, NEW t \in Threads, WriteEnd(t)
  PROVE  FramesCounted'
<1> DEFINE st == arg[t].s
           w == (stream[st].written + Counted(arg[t])) % Mod
<1>1. /\ pc[t] = "mmap" /\ card' = card /\ Return(t)
      /\ stream' = [stream EXCEPT ![st] = [stream[st] EXCEPT !.written = w]]
  BY DEF WriteEnd, At, Update
<1>2. /\ st \in Streams /\ stream[st] \in Stream /\ stream[st] # NULL
      /\ arg[t].left \in Nat /\ arg[t].frames \in Nat
      /\ stream[st].written \in Nat /\ Delivered(st) \in Nat
  BY <1>1, CallTypes, CardTypes
<1>3. w <= Delivered(st)
  <2>1. stream[st].written <= Delivered(st)
        /\ stream[st].written + arg[t].frames - arg[t].left <= Delivered(st)
    BY <1>1, <1>2 DEF FramesCounted
  <2>2. Counted(arg[t]) \in Nat /\ stream[st].written + Counted(arg[t]) <= Delivered(st)
    BY <1>2, <2>1 DEF Counted
  <2> DEFINE n == stream[st].written + Counted(arg[t])
  <2>3. n \in Nat /\ n <= Delivered(st)
    BY <1>2, <2>2
  <2>4. n % Mod <= n /\ n % Mod \in Int
    <3>1. n \in Nat /\ Mod \in Nat \ {0}
      BY <2>3, AudioAssumption
    <3> HIDE DEF n
    <3> QED BY <3>1, RemainderAtMost
  <2> HIDE DEF n
  <2>5. n % Mod <= Delivered(st)
    BY <1>2, <2>3, <2>4
  <2> QED BY <2>5 DEF n
<1>4. /\ stream'[st].written = w /\ \A s \in Streams \ {st} : stream'[s] = stream[s]
  <2>1. stream'[st] = [stream[st] EXCEPT !.written = w]
        /\ \A s \in Streams \ {st} : stream'[s] = stream[s]
    BY <1>1, <1>2 DEF IInv, TypeOK
  <2>2. [stream[st] EXCEPT !.written = w].written = w
    BY <1>2 DEF Stream
  <2> QED BY <2>1, <2>2
<1> HIDE DEF w
<1>5. \A s \in Streams : stream'[s] # NULL => stream'[s].written <= Delivered(s)
  BY <1>2, <1>3, <1>4 DEF FramesCounted
<1>6. \A u \in Threads : pc'[u] # "idle" => u # t /\ pc'[u] = pc[u] /\ arg'[u] = arg[u]
  BY <1>1 DEF Return, Goto, IInv, TypeOK
<1>7. ASSUME NEW u \in Threads, pc'[u] # "idle"
      PROVE  LET s == arg[u].s IN
             IF pc[u] = "mmap"
             THEN /\ arg[u].left <= arg[u].frames
                  /\ stream'[s].written + arg[u].frames - arg[u].left <= Delivered(s)
             ELSE arg[u].left = arg[u].frames
  <2>1. u # t /\ pc[u] # "idle" /\ arg[u].s \in Streams
    BY <1>6, <1>7, CallTypes
  <2>2. pc[u] = "mmap" => arg[u].s # st
    BY <1>1, <2>1 DEF IInv, WriteKeepsPcm
  <2> QED BY <1>4, <2>1, <2>2 DEF FramesCounted
<1> QED BY <1>1, <1>5, <1>6, <1>7 DEF FramesCounted, Delivered

(* What a step does to the frames on the card and in the calls.            *)
LEMMA FrameSteps ==
  ASSUME IInv, CallSteps, FramesCounted, [Next]_vars
  PROVE  FrameStep
<1>1. ASSUME UNCHANGED <<stream, card, pc, arg>>
      PROVE  FrameStep
  BY <1>1 DEF FrameStep, NoFrames, Delivered
<1>2. ASSUME NEW t \in Threads, pc[t] \notin {"idle", "mmap"}, NEW label, NEW call,
             Goto(t, label, call),
             label # "idle" => /\ call.left = arg[t].left /\ call.frames = arg[t].frames
                               /\ call.s = arg[t].s,
             \A s \in Streams : /\ stream'[s] = NULL <=> stream[s] = NULL
                                /\ stream[s] # NULL => stream'[s].written = stream[s].written
                                /\ card'[s].queued + card'[s].gone = Delivered(s)
      PROVE  FrameStep
  <2>1. /\ arg[t].left = arg[t].frames /\ arg[t].frames \in Nat
        /\ arg[t].s \in Streams /\ stream[arg[t].s] # NULL
    BY <1>2, CallTypes DEF FramesCounted
  <2> QED BY <1>2, <2>1 DEF FrameStep, NoFrames, NoneWritten
<1>3. ASSUME NEW t \in Threads,
             TakeFirst(t) \/ TakeSecond(t) \/ WriteStarted(t) \/ OutSetParameters(t)
      PROVE  FrameStep
  <2>1. /\ pc[t] \notin {"idle", "mmap"} /\ stream' = stream /\ card' = card
        /\ \E label : Goto(t, label, arg[t]) \/ Return(t)
    BY <1>3 DEF TakeFirst, TakeSecond, Take, WriteStarted, OutSetParameters, Holding, At
  <2> QED BY <1>2, <2>1 DEF Return, Delivered
<1>4. ASSUME NEW t \in Threads, WriteStart(t) \/ WriteStartFails(t)
      PROVE  FrameStep
  <2> DEFINE st == arg[t].s
  <2>1. /\ pc[t] = "held" /\ card' = card
        /\ Goto(t, "mmap", arg[t]) \/ Return(t)
        /\ \/ stream' = stream
           \/ \E p \in Pcms : stream' = [stream EXCEPT ![st] =
                                 [stream[st] EXCEPT !.pcm = p, !.standby = FALSE]]
           \/ stream' = [stream EXCEPT ![st] =
                            [stream[st] EXCEPT !.pcm = Closed, !.unavailable = TRUE]]
    BY <1>4 DEF WriteStart, WriteStartFails, Holding, At, Update, SetsStandby
  <2>2. st \in Streams /\ stream[st] \in Stream
    BY <2>1, HolderAlone
  <2>3. ASSUME NEW new \in Stream, new.written = stream[st].written,
               stream' = [stream EXCEPT ![st] = new]
        PROVE  \A s \in Streams :
                 /\ stream'[s] = NULL <=> stream[s] = NULL
                 /\ stream[s] # NULL => stream'[s].written = stream[s].written
    BY <2>2, <2>3, AudioAssumption DEF IInv, TypeOK
  <2>4. \A p \in Pcms :
          /\ [stream[st] EXCEPT !.pcm = p, !.standby = FALSE] \in Stream
          /\ [stream[st] EXCEPT !.pcm = p, !.standby = FALSE].written = stream[st].written
    BY <2>2 DEF Stream
  <2>5. /\ [stream[st] EXCEPT !.pcm = Closed, !.unavailable = TRUE] \in Stream
        /\ [stream[st] EXCEPT !.pcm = Closed, !.unavailable = TRUE].written
             = stream[st].written
    BY <2>2 DEF Stream
  <2>6. \A s \in Streams :
          /\ stream'[s] = NULL <=> stream[s] = NULL
          /\ stream[s] # NULL => stream'[s].written = stream[s].written
    <3>1. CASE stream' = stream
      BY <3>1
    <3>2. CASE \E p \in Pcms : stream' = [stream EXCEPT ![st] =
                                 [stream[st] EXCEPT !.pcm = p, !.standby = FALSE]]
      BY <2>3, <2>4, <3>2
    <3>3. CASE stream' = [stream EXCEPT ![st] =
                            [stream[st] EXCEPT !.pcm = Closed, !.unavailable = TRUE]]
      BY <2>3, <2>5, <3>3
    <3> QED BY <2>1, <3>1, <3>2, <3>3
  <2> HIDE DEF st
  <2> QED BY <1>2, <2>1, <2>6 DEF Return, Delivered
<1>5. ASSUME NEW t \in Threads, DoOutputStandby(t)
      PROVE  FrameStep
  <2> DEFINE st == arg[t].s
  <2>1. /\ pc[t] = "held" /\ Return(t)
        /\ \/ stream' = stream /\ card' = card
           \/ /\ stream' = [stream EXCEPT ![st] =
                               [stream[st] EXCEPT !.pcm = NULL, !.standby = TRUE]]
              /\ card' = [card EXCEPT ![st].queued = 0, ![st].gone = @ + card[st].queued]
    BY <1>5 DEF DoOutputStandby, Holding, At, Update, PcmAfterStandby
  <2>2. st \in Streams /\ stream[st] \in Stream
    BY <2>1, HolderAlone
  <2>3. CASE stream' = stream /\ card' = card
    BY <1>2, <2>1, <2>3 DEF Return, Delivered
  <2>4. CASE stream' # stream \/ card' # card
    <3> DEFINE new == [stream[st] EXCEPT !.pcm = NULL, !.standby = TRUE]
               crd == [card[st] EXCEPT !.queued = 0, !.gone = @ + card[st].queued]
    <3>1. new \in Stream /\ new.written = stream[st].written
      BY <2>2 DEF Stream
    <3>2. crd.queued + crd.gone = Delivered(st)
      BY <2>2, CardTypes DEF Card, Delivered
    <3>3. /\ stream'[st] = new /\ card'[st] = crd
          /\ \A s \in Streams \ {st} : stream'[s] = stream[s] /\ card'[s] = card[s]
      BY <2>1, <2>2, <2>4 DEF IInv, TypeOK
    <3> HIDE DEF new, crd
    <3>4. \A s \in Streams :
            /\ stream'[s] = NULL <=> stream[s] = NULL
            /\ stream[s] # NULL => stream'[s].written = stream[s].written
            /\ card'[s].queued + card'[s].gone = Delivered(s)
      BY <2>2, <3>1, <3>2, <3>3, AudioAssumption DEF Delivered
    <3> QED BY <1>2, <2>1, <3>4 DEF Return
  <2> QED BY <2>3, <2>4
<1>6. ASSUME NEW t \in Threads, PositionCheck(t) \/ PositionStamp(t) \/ PositionCompute(t)
      PROVE  FrameStep
  <2>1. pc[t] \in PositionSteps /\ stream' = stream
    BY <1>6 DEF PositionCheck, PositionStamp, PositionCompute, At, PositionSteps, Crash
  <2>2. pc[t] \notin {"idle", "mmap"} /\ arg[t] \in Call /\ arg[t].s \in Streams
    BY <2>1, CallTypes DEF PositionSteps
  <2>3. \A s \in Streams : card'[s].queued + card'[s].gone = Delivered(s)
    <3>1. CASE card' = card
      BY <3>1 DEF Delivered
    <3>2. ASSUME NEW r, card' = [card EXCEPT ![arg[t].s].reported = r]
          PROVE  \A s \in Streams : card'[s].queued + card'[s].gone = Delivered(s)
      BY <2>2, <3>2, CardTypes DEF IInv, TypeOK, Card, Delivered
    <3>3. card' = card \/ \E r : card' = [card EXCEPT ![arg[t].s].reported = r]
      BY <1>6 DEF PositionCheck, PositionStamp, PositionCompute, Crash
    <3> QED BY <3>1, <3>2, <3>3
  <2>4. \/ UNCHANGED <<stream, card, pc, arg>>
        \/ Return(t)
        \/ \E p : Goto(t, "stamp", [arg[t] EXCEPT !.pcm = p])
        \/ \E n : Goto(t, "compute", [arg[t] EXCEPT !.avail = n])
    BY <1>6 DEF PositionCheck, PositionStamp, PositionCompute, Crash, callVars
  <2>5. \A p : LET c == [arg[t] EXCEPT !.pcm = p] IN
          c.left = arg[t].left /\ c.frames = arg[t].frames /\ c.s = arg[t].s
    BY <2>2 DEF Call
  <2>6. \A n : LET c == [arg[t] EXCEPT !.avail = n] IN
          c.left = arg[t].left /\ c.frames = arg[t].frames /\ c.s = arg[t].s
    BY <2>2 DEF Call
  <2>7. CASE Return(t)
    BY <1>2, <2>1, <2>2, <2>3, <2>7 DEF Return
  <2>8. ASSUME NEW p, Goto(t, "stamp", [arg[t] EXCEPT !.pcm = p])
        PROVE  FrameStep
    BY <1>2, <2>1, <2>2, <2>3, <2>5, <2>8
  <2>9. ASSUME NEW n, Goto(t, "compute", [arg[t] EXCEPT !.avail = n])
        PROVE  FrameStep
    BY <1>2, <2>1, <2>2, <2>3, <2>6, <2>9
  <2> QED BY <1>1, <2>4, <2>7, <2>8, <2>9
<1>7. ASSUME NEW t \in Threads, NEW s \in Streams,
             \/ OutStandby(t, s) \/ GetPosition(t, s)
             \/ \E n \in Chunks : Write(t, s, n)
             \/ \E val \in Routes \cup {0} : SetRouting(t, s, val)
      PROVE  FrameStep
  <2>1. PICK label \in {"first", "check"}, call \in Call :
           Begin(t, label, call) /\ call.left = call.frames
    BY <1>7, CallBegins
  <2>2. /\ Goto(t, label, call) /\ stream[call.s] # NULL
        /\ stream' = stream /\ card' = card
    BY <2>1 DEF Begin
  <2>3. call.left = call.frames /\ call.frames \in Nat /\ call.s \in Streams
    BY <2>1, AudioAssumption DEF Call
  <2> QED BY <2>2, <2>3 DEF FrameStep, NoFrames, NoneWritten, Delivered
<1>8. ASSUME NEW s \in Streams, Play(s)
      PROVE  FrameStep
  <2>1. /\ UNCHANGED <<stream, pc, arg>>
        /\ card' = [card EXCEPT ![s].queued = @ - 1, ![s].gone = @ + 1]
    BY <1>8 DEF Play, callVars
  <2>2. card'[s] = [card[s] EXCEPT !.queued = @ - 1, !.gone = @ + 1]
        /\ \A r \in Streams \ {s} : card'[r] = card[r]
    BY <2>1 DEF IInv, TypeOK
  <2>3. card'[s].queued + card'[s].gone = Delivered(s)
    <3>1. card'[s].queued = card[s].queued - 1 /\ card'[s].gone = card[s].gone + 1
      BY <2>2, CardTypes DEF Card
    <3> QED BY <3>1, CardTypes DEF Delivered
  <2>4. \A r \in Streams : card'[r].queued + card'[r].gone = Delivered(r)
    BY <2>2, <2>3 DEF Delivered
  <2> QED BY <2>1, <2>4 DEF FrameStep, NoFrames, Delivered
<1>9. ASSUME AdevOpen \/ AdevClose \/ UNCHANGED vars
       PROVE  FrameStep
  <2>1. UNCHANGED <<stream, card, pc, arg>>
    BY <1>9 DEF AdevOpen, AdevClose, vars, callVars
  <2> QED BY <1>1, <2>1
<1>10. ASSUME \/ \E t \in Threads : WriteFrame(t) \/ WriteEnd(t)
              \/ \E s \in Streams : OpenOutputStream(s) \/ CloseOutputStream(s)
       PROVE  FrameStep
  BY <1>10 DEF FrameStep
<1> QED BY <1>3, <1>4, <1>5, <1>6, <1>7, <1>8, <1>9, <1>10 DEF Next, Step

(* Frames stay counted over every step.                                    *)
LEMMA FramesKept ==
  ASSUME IInv, CallSteps, FramesCounted, [Next]_vars
  PROVE  FramesCounted'
<1>1. ASSUME NoFrames, UNCHANGED <<pc, arg>>
      PROVE  FramesCounted'
  <2>1. \A u \in Threads : pc[u] # "idle" => arg[u].s \in Streams /\ stream[arg[u].s] # NULL
    BY CallTypes
  <2> QED BY <1>1, <2>1 DEF FramesCounted, NoFrames, Delivered
<1>2. ASSUME NoFrames, NEW t \in Threads, NEW label, NEW call, NoneWritten(t, label, call)
      PROVE  FramesCounted'
  BY <1>2, FramesStay
<1>3. ASSUME NEW s \in Streams, OpenOutputStream(s) \/ CloseOutputStream(s)
      PROVE  FramesCounted'
  <2>1. /\ UNCHANGED <<pc, arg>>
        /\ \/ stream'[s] = NULL
           \/ stream'[s] = NewStream /\ card'[s] = NewCard
        /\ \A r \in Streams \ {s} : stream'[r] = stream[r] /\ card'[r] = card[r]
    BY <1>3 DEF OpenOutputStream, CloseOutputStream, Update, callVars, IInv, TypeOK
  <2>2. \A u \in Threads : pc[u] # "idle" => arg[u].s \in Streams \ {s}
    <3>1. \A u \in Threads : pc[u] # "idle" => arg[u].s \in Streams /\ stream[arg[u].s] # NULL
      BY CallTypes
    <3> QED BY <1>3, <3>1 DEF OpenOutputStream, CloseOutputStream, Busy
  <2>3. NewStream.written = 0 /\ NewCard.queued = 0 /\ NewCard.gone = 0
    BY DEF NewStream, NewCard
  <2>4. \A r \in Streams : stream'[r] # NULL =>
          stream'[r].written <= card'[r].queued + card'[r].gone
    BY <2>1, <2>3 DEF FramesCounted, Delivered
  <2>5. \A u \in Threads : pc[u] # "idle" =>
          stream'[arg[u].s] = stream[arg[u].s] /\ card'[arg[u].s] = card[arg[u].s]
    BY <2>1, <2>2
  <2> QED BY <2>1, <2>4, <2>5 DEF FramesCounted, Delivered
<1> QED BY <1>1, <1>2, <1>3, FrameSteps, FrameCounted, WriteCounted DEF FrameStep
-----------------------------------------------------------------------------
(* A query computes with the frames of its own stream only.                *)
LEMMA StampKept ==
  ASSUME IInv, CallSteps, OneCaller, FramesCounted, StampIsPast, [Next]_vars
  PROVE  StampIsPast'
<1> SUFFICES ASSUME NEW u \in Threads, pc'[u] = "compute"
             PROVE  LET s == arg'[u].s IN
                    /\ arg'[u].avail <= KernelFrames
                    /\ stream'[s].written - KernelFrames + arg'[u].avail <= card'[s].gone
  BY DEF StampIsPast
<1> DEFINE st == arg[u].s
<1>1. pc[u] \in PositionSteps /\ pc[u] # "idle"
  BY QueryGoesOn DEF PositionSteps
<1>2. /\ arg[u] \in Call /\ st \in Streams /\ stream[st] # NULL
      /\ arg[u].avail \in Nat /\ stream[st].written \in Nat
      /\ card[st].queued \in 0 .. KernelFrames /\ card[st].gone \in Nat
      /\ KernelFrames \in Nat
  BY <1>1, CallTypes, CardTypes, AudioAssumption
<1>3. CASE Step(u)
  <2>1. PositionStamp(u)
    <3>1. ~PositionCheck(u)
      BY DEF PositionCheck, Return, Goto, IInv, TypeOK
    <3> QED BY <1>3, <3>1, QueryGoesOn
  <2>2. /\ Goto(u, "compute", [arg[u] EXCEPT !.avail = KernelFrames - card[st].queued])
        /\ stream' = stream /\ card' = card
    <3>1. pc[u] = "stamp"
      BY <2>1 DEF PositionStamp, At
    <3> QED BY <2>1, <3>1 DEF PositionStamp, Crash, callVars, Return, Goto, IInv, TypeOK
  <2>3. arg'[u] = [arg[u] EXCEPT !.avail = KernelFrames - card[st].queued]
    BY <2>2 DEF Goto, IInv, TypeOK
  <2>4. arg'[u].avail = KernelFrames - card[st].queued /\ arg'[u].s = st
    BY <1>2, <2>3 DEF Call
  <2>5. stream[st].written <= card[st].queued + card[st].gone
    BY <1>2 DEF FramesCounted, Delivered
  <2> HIDE DEF st
  <2>6. KernelFrames - card[st].queued <= KernelFrames
        /\ stream[st].written - KernelFrames + (KernelFrames - card[st].queued)
             <= card[st].gone
    BY <1>2, <2>5
  <2> QED BY <2>2, <2>4, <2>6
<1>4. CASE ~Step(u)
  <2>1. /\ pc[u] = "compute" /\ arg'[u] = arg[u] /\ stream'[st] = stream[st]
        /\ card[st].gone <= card'[st].gone
    BY <1>1, <1>4, QueryAlone
  <2>2. /\ arg[u].avail <= KernelFrames
        /\ stream[st].written - KernelFrames + arg[u].avail <= card[st].gone
    BY <2>1 DEF StampIsPast
  <2>3. card'[st].gone \in Nat
    BY <1>2, NextIInv, CardTypes DEF IInv, TypeOK, Card
  <2> HIDE DEF st
  <2>4. stream[st].written - KernelFrames + arg[u].avail <= card'[st].gone
    BY <1>2, <2>1, <2>2, <2>3
  <2> QED BY <2>1, <2>2, <2>4 DEF st
<1> QED BY <1>3, <1>4

(* What a query reports: the difference, or when it is negative the last   *)
(* report in 64 bits and a number close to the range in 32.                *)
LEMMA ComputedReport ==
  ASSUME IInv, StampIsPast, NEW t \in Threads, PositionCompute(t)
  PROVE  LET s == arg[t].s
             d == stream[s].written - KernelFrames + arg[t].avail
         IN /\ pc[t] = "compute" /\ s \in Streams /\ stream[s] # NULL
            /\ wide' = wide /\ stream' = stream
            /\ d \in Int /\ d >= -KernelFrames /\ d <= card[s].gone
            /\ \A r \in Streams \ {s} : card'[r] = card[r]
            /\ card'[s].gone = card[s].gone
            /\ card'[s].reported = IF d >= 0 THEN d
                                   ELSE IF wide THEN card[s].reported ELSE d + Mod
<1> DEFINE st == arg[t].s
           d  == stream[st].written - KernelFrames + arg[t].avail
           f  == IF wide THEN d ELSE d % Mod
           r  == IF f >= 0 THEN f ELSE card[st].reported
<1>1. /\ pc[t] = "compute" /\ card' = [card EXCEPT ![st].reported = r] /\ wide' = wide
      /\ stream' = stream
  BY DEF PositionCompute, At, NoCrash, SignedFrames, Reported
<1>2. /\ st \in Streams /\ stream[st] # NULL /\ card[st] \in Card /\ arg[t].avail \in Nat
      /\ stream[st].written \in 0 .. Mod - 1 /\ card[st].gone \in Nat
      /\ card[st].reported \in Nat /\ wide \in BOOLEAN
  BY <1>1, CallTypes, CardTypes DEF IInv, TypeOK
<1>3. /\ arg[t].avail <= KernelFrames /\ d <= card[st].gone
  BY <1>1 DEF StampIsPast
<1>4. /\ card'[st].reported = r /\ card'[st].gone = card[st].gone
      /\ \A s \in Streams \ {st} : card'[s] = card[s]
  <2> HIDE DEF r
  <2>1. card'[st] = [card[st] EXCEPT !.reported = r]
        /\ \A s \in Streams \ {st} : card'[s] = card[s]
    BY <1>1, <1>2 DEF IInv, TypeOK
  <2> QED BY <1>2, <2>1 DEF Card
<1>5. /\ d \in Int /\ d < Mod /\ d >= -KernelFrames
      /\ Mod \in Nat \ {0} /\ KernelFrames \in Nat /\ KernelFrames < Mod
  BY <1>2, <1>3, AudioAssumption
<1> HIDE DEF d
<1>6. r = IF d >= 0 THEN d ELSE IF wide THEN card[st].reported ELSE d + Mod
  <2>1. CASE d >= 0
    <3>1. f = d
      BY <1>5, <2>1, InRange
    <3> QED BY <2>1, <3>1
  <2>2. CASE d < 0 /\ wide
    <3>1. f = d
      BY <2>2
    <3>2. ~(f >= 0) /\ ~(d >= 0)
      BY <1>5, <2>2, <3>1
    <3> QED BY <2>2, <3>2
  <2>3. CASE d < 0 /\ ~wide
    <3>1. f = d + Mod
      BY <1>5, <2>3, BelowRange
    <3>2. f >= 0 /\ ~(d >= 0)
      BY <1>5, <2>3, <3>1
    <3> QED BY <2>3, <3>1, <3>2
  <2> QED BY <1>5, <2>1, <2>2, <2>3
<1> QED BY <1>1, <1>2, <1>3, <1>4, <1>5, <1>6 DEF d

(* What a query reports is not ahead of the card, or it is the negative    *)
(* count of a 32-bit build.                                                *)
LEMMA ReportedIsPast ==
  ASSUME IInv, StampIsPast, PositionNotAhead, NEW t \in Threads, PositionCompute(t)
  PROVE  PositionNotAhead'
<1>1. PICK d \in Int, st \in Streams :
        /\ wide' = wide /\ d >= -KernelFrames /\ d <= card[st].gone
        /\ \A r \in Streams \ {st} : card'[r] = card[r]
        /\ card'[st].gone = card[st].gone
        /\ card'[st].reported = IF d >= 0 THEN d
                                ELSE IF wide THEN card[st].reported ELSE d + Mod
  BY ComputedReport
<1>2. \/ card'[st].reported <= card[st].gone \/ card'[st].reported = card[st].reported
      \/ ~wide /\ card'[st].reported >= Mod - KernelFrames
  BY <1>1, AudioAssumption
<1> QED BY <1>1, <1>2 DEF PositionNotAhead

(* What any other step does to the reports: nothing, or they start anew,   *)
(* and frames only go out.                                                 *)
ReportsStay ==
  /\ wide' = wide
  /\ \A s \in Streams :
       \/ stream[s] = NULL /\ card'[s].reported = 0 /\ card'[s].gone \in Nat
       \/ /\ card'[s].reported = card[s].reported
          /\ card'[s].gone \in Nat /\ card[s].gone <= card'[s].gone

LEMMA ReportSteps ==
  ASSUME IInv, [Next]_vars, \A t \in Threads : ~PositionCompute(t)
  PROVE  ReportsStay
<1>1. ASSUME wide' = wide, card' = card
      PROVE  ReportsStay
  BY <1>1, CardTypes DEF ReportsStay
<1>2. ASSUME wide' = wide, NEW s \in Streams, NEW new \in Card,
             card' = [card EXCEPT ![s] = new],
             \/ stream[s] = NULL /\ new.reported = 0
             \/ new.reported = card[s].reported /\ card[s].gone <= new.gone
      PROVE  ReportsStay
  <2>1. /\ card'[s] = new /\ \A r \in Streams \ {s} : card'[r] = card[r]
        /\ new.gone \in Nat
    BY <1>2 DEF IInv, TypeOK, Card
  <2> QED BY <1>2, <2>1, CardTypes DEF ReportsStay
<1>3. ASSUME NEW t \in Threads,
             \/ TakeFirst(t) \/ TakeSecond(t) \/ WriteStarted(t) \/ WriteStart(t)
             \/ WriteStartFails(t) \/ WriteEnd(t) \/ OutSetParameters(t)
             \/ PositionCheck(t) \/ PositionStamp(t)
      PROVE  ReportsStay
  <2>1. wide' = wide /\ card' = card
    BY <1>3 DEF TakeFirst, TakeSecond, Take, WriteStarted, WriteStart, WriteStartFails,
       WriteEnd, OutSetParameters, PositionCheck, PositionStamp, Crash, NoCrash
  <2> QED BY <1>1, <2>1
<1>4. ASSUME NEW t \in Threads, NEW s \in Streams,
             \/ OutStandby(t, s) \/ GetPosition(t, s)
             \/ \E n \in Chunks : Write(t, s, n)
             \/ \E val \in Routes \cup {0} : SetRouting(t, s, val)
      PROVE  ReportsStay
  <2>1. wide' = wide /\ card' = card
    BY <1>4 DEF OutStandby, GetPosition, Write, SetRouting, Begin, NoCrash
  <2> QED BY <1>1, <2>1
<1>5. ASSUME NEW t \in Threads, WriteFrame(t)
      PROVE  ReportsStay
  <2> DEFINE st == arg[t].s
             new == [card[st] EXCEPT !.queued = @ + 1]
  <2>1. /\ pc[t] = "mmap" /\ card[st].queued < KernelFrames /\ wide' = wide
        /\ card' = [card EXCEPT ![st].queued = @ + 1]
    BY <1>5 DEF WriteFrame, At, NoCrash
  <2>2. st \in Streams /\ card[st] \in Card /\ card[st].gone \in Nat
    BY <2>1, CallTypes, CardTypes
  <2>3. new \in Card /\ new.reported = card[st].reported /\ card[st].gone <= new.gone
    BY <2>1, <2>2, AudioAssumption DEF Card
  <2>4. card' = [card EXCEPT ![st] = new]
    BY <2>1
  <2> HIDE DEF new
  <2> QED BY <1>2, <2>1, <2>2, <2>3, <2>4
<1>6. ASSUME NEW s \in Streams, Play(s)
      PROVE  ReportsStay
  <2> DEFINE new == [card[s] EXCEPT !.queued = @ - 1, !.gone = @ + 1]
  <2>1. /\ card[s].queued > 0 /\ wide' = wide
        /\ card' = [card EXCEPT ![s].queued = @ - 1, ![s].gone = @ + 1]
    BY <1>6 DEF Play, NoCrash
  <2>2. card[s] \in Card /\ card[s].queued \in 0 .. KernelFrames /\ card[s].gone \in Nat
    BY CardTypes
  <2>3. new \in Card /\ new.reported = card[s].reported /\ card[s].gone <= new.gone
    <3>1. card[s].queued - 1 \in 0 .. KernelFrames /\ card[s].gone + 1 \in Nat
          /\ card[s].gone <= card[s].gone + 1
      BY <2>1, <2>2, AudioAssumption
    <3> QED BY <2>2, <3>1, AudioAssumption DEF Card
  <2>4. card' = [card EXCEPT ![s] = new]
    BY <2>1, <2>2 DEF IInv, TypeOK, Card
  <2> HIDE DEF new
  <2> QED BY <1>2, <2>1, <2>3, <2>4
<1>7. ASSUME NEW t \in Threads, DoOutputStandby(t)
      PROVE  ReportsStay
  <2> DEFINE st == arg[t].s
             new == [card[st] EXCEPT !.queued = 0, !.gone = @ + card[st].queued]
  <2>1. /\ pc[t] = "held" /\ wide' = wide
        /\ \/ card' = card
           \/ card' = [card EXCEPT ![st].queued = 0, ![st].gone = @ + card[st].queued]
    BY <1>7 DEF DoOutputStandby, Holding, At, NoCrash
  <2>2. /\ st \in Streams /\ card[st] \in Card
        /\ card[st].queued \in 0 .. KernelFrames /\ card[st].gone \in Nat
    BY <2>1, HolderAlone, CardTypes
  <2>3. new \in Card /\ new.reported = card[st].reported /\ card[st].gone <= new.gone
    <3>1. card[st].gone + card[st].queued \in Nat
          /\ card[st].gone <= card[st].gone + card[st].queued /\ 0 \in 0 .. KernelFrames
      BY <2>2, AudioAssumption
    <3> QED BY <2>2, <3>1 DEF Card
  <2>4. card' = card \/ card' = [card EXCEPT ![st] = new]
    BY <2>1, <2>2 DEF IInv, TypeOK, Card
  <2> HIDE DEF new
  <2> QED BY <1>1, <1>2, <2>1, <2>2, <2>3, <2>4
<1>8. ASSUME NEW s \in Streams, OpenOutputStream(s)
      PROVE  ReportsStay
  <2>1. wide' = wide /\ stream[s] = NULL /\ card' = [card EXCEPT ![s] = NewCard]
    BY <1>8 DEF OpenOutputStream, NoCrash
  <2>2. NewCard \in Card /\ NewCard.reported = 0
    BY AudioAssumption DEF NewCard, Card
  <2> QED BY <1>2, <2>1, <2>2
<1>9. ASSUME AdevOpen \/ AdevClose \/ UNCHANGED vars
              \/ \E s \in Streams : CloseOutputStream(s)
       PROVE  ReportsStay
  <2>1. wide' = wide /\ card' = card
    BY <1>9 DEF AdevOpen, AdevClose, CloseOutputStream, vars, NoCrash
  <2> QED BY <1>1, <2>1
<1> QED BY <1>3, <1>4, <1>5, <1>6, <1>7, <1>8, <1>9 DEF Next, Step

(* No report gets ahead of the card.                                       *)
LEMMA ReportsKept ==
  ASSUME IInv, StampIsPast, PositionNotAhead, [Next]_vars
  PROVE  PositionNotAhead'
<1>1. CASE ReportsStay
  <2>1. ASSUME NEW s \in Streams
        PROVE  \/ card'[s].reported <= card'[s].gone
               \/ ~wide /\ card'[s].reported >= Mod - KernelFrames
    <3>1. CASE card'[s].reported = 0 /\ card'[s].gone \in Nat
      BY <3>1
    <3>2. CASE /\ card'[s].reported = card[s].reported
               /\ card'[s].gone \in Nat /\ card[s].gone <= card'[s].gone
      <4>1. card[s].reported <= card[s].gone => card'[s].reported <= card'[s].gone
        BY <3>2, CardTypes
      <4> QED BY <3>2, <4>1 DEF PositionNotAhead
    <3> QED BY <1>1, <3>1, <3>2 DEF ReportsStay
  <2> QED BY <1>1, <2>1 DEF PositionNotAhead, ReportsStay
<1> QED BY <1>1, ReportSteps, ReportedIsPast

(* Frames that were missed are never found again.                          *)
LEMMA MissesKept ==
  ASSUME IInv, CallSteps, FramesCounted, [Next]_vars, NEW s \in Streams,
         stream[s] # NULL, stream'[s] # NULL, CountMisses(s)
  PROVE  CountMisses(s)'
<1>1. /\ stream[s].written \in Nat /\ Delivered(s) \in Nat /\ stream[s].written < Delivered(s)
  BY CardTypes DEF CountMisses
<1>2. CASE NoFrames /\ UNCHANGED <<pc, arg>>
  BY <1>2 DEF CountMisses, NoFrames, Delivered
<1>3. ASSUME NoFrames, NEW t \in Threads, NEW label, NEW call, NoneWritten(t, label, call)
      PROVE  CountMisses(s)'
  <2>1. /\ pc'[t] = label /\ arg'[t] = call
        /\ \A u \in Threads \ {t} : pc'[u] = pc[u] /\ arg'[u] = arg[u]
        /\ label # "idle" => call.left = call.frames /\ call.frames \in Nat
    BY <1>3 DEF NoneWritten, Goto, IInv, TypeOK
  <2>2. /\ stream'[s].written = stream[s].written
        /\ card'[s].queued + card'[s].gone = Delivered(s)
    BY <1>3 DEF NoFrames
  <2>3. pc'[t] = "mmap" =>
          stream'[s].written + arg'[t].frames - arg'[t].left = stream[s].written
    BY <1>1, <2>1, <2>2
  <2>4. \A u \in Threads : pc'[u] = "mmap" /\ arg'[u].s = s =>
          stream'[s].written + arg'[u].frames - arg'[u].left < Delivered(s)
    BY <1>1, <2>1, <2>2, <2>3 DEF CountMisses
  <2> QED BY <1>1, <2>2, <2>4 DEF CountMisses, Delivered
<1>4. ASSUME NEW t \in Threads, WriteFrame(t)
      PROVE  CountMisses(s)'
  <2> DEFINE st == arg[t].s
  <2>1. /\ pc[t] = "mmap" /\ arg[t].left > 0 /\ stream' = stream
        /\ card' = [card EXCEPT ![st].queued = @ + 1]
        /\ Goto(t, "mmap", [arg[t] EXCEPT !.left = @ - 1])
    BY <1>4 DEF WriteFrame, At
  <2>2. /\ arg[t] \in Call /\ st \in Streams /\ arg[t].left \in Nat /\ arg[t].frames \in Nat
    BY <2>1, CallTypes
  <2>3. /\ arg'[t].left = arg[t].left - 1 /\ arg'[t].frames = arg[t].frames
        /\ arg'[t].s = st /\ pc' = pc
        /\ \A u \in Threads \ {t} : arg'[u] = arg[u]
    <3>1. /\ arg'[t] = [arg[t] EXCEPT !.left = @ - 1] /\ pc' = pc
          /\ \A u \in Threads \ {t} : arg'[u] = arg[u]
      BY <2>1 DEF Goto, IInv, TypeOK
    <3> QED BY <2>2, <3>1 DEF Call
  <2>4. CASE s = st
    <3>1. card'[s].queued + card'[s].gone = Delivered(s) + 1
      <4>1. card'[s] = [card[s] EXCEPT !.queued = @ + 1]
        BY <2>1, <2>4 DEF IInv, TypeOK
      <4>2. card'[s].queued = card[s].queued + 1 /\ card'[s].gone = card[s].gone
        BY <4>1, CardTypes DEF Card
      <4> QED BY <4>2, CardTypes DEF Delivered
    <3>2. \A u \in Threads : pc[u] = "mmap" /\ arg[u].s = s => u = t
      BY <2>1, <2>4 DEF IInv, WriteKeepsPcm
    <3>3. stream[s].written + arg[t].frames - arg[t].left < Delivered(s)
      BY <2>1, <2>4 DEF CountMisses
    <3>4. stream[s].written + arg'[t].frames - arg'[t].left < Delivered(s) + 1
      BY <1>1, <2>2, <2>3, <3>3
    <3>5. stream[s].written < Delivered(s) + 1
      BY <1>1
    <3>6. \A u \in Threads : pc'[u] = "mmap" /\ arg'[u].s = s =>
            stream[s].written + arg'[u].frames - arg'[u].left < Delivered(s) + 1
      BY <2>3, <3>2, <3>4
    <3> QED BY <2>1, <3>1, <3>5, <3>6 DEF CountMisses, Delivered
  <2>5. CASE s # st
    <3>1. card'[s] = card[s]
      BY <2>1, <2>5 DEF IInv, TypeOK
    <3>2. \A u \in Threads : pc'[u] = "mmap" /\ arg'[u].s = s =>
            pc[u] = "mmap" /\ arg'[u] = arg[u]
      BY <2>3, <2>5
    <3> QED BY <2>1, <3>1, <3>2 DEF CountMisses, Delivered
  <2> QED BY <2>4, <2>5
<1>5. ASSUME NEW t \in Threads, WriteEnd(t)
      PROVE  CountMisses(s)'
  <2> DEFINE st == arg[t].s
             n == stream[st].written + Counted(arg[t])
  <2>1. /\ pc[t] = "mmap" /\ card' = card /\ Return(t)
        /\ stream' = [stream EXCEPT ![st] = [stream[st] EXCEPT !.written = n % Mod]]
    BY <1>5 DEF WriteEnd, At, Update
  <2>2. /\ st \in Streams /\ stream[st] \in Stream
        /\ arg[t].left \in Nat /\ arg[t].frames \in Nat
    BY <2>1, CallTypes
  <2>3. \A u \in Threads : pc'[u] = "mmap" => u # t /\ pc[u] = "mmap" /\ arg'[u] = arg[u]
    BY <2>1 DEF Return, Goto, IInv, TypeOK
  <2>4. CASE s = st
    <3>1. stream[s].written + arg[t].frames - arg[t].left < Delivered(s)
      BY <2>1, <2>4 DEF CountMisses
    <3>2. n \in Nat /\ n < Delivered(s)
      BY <1>1, <2>2, <2>4, <3>1 DEF Counted
    <3> HIDE DEF n
    <3>3. n % Mod <= n /\ n % Mod \in Int
      <4>1. Mod \in Nat \ {0}
        BY AudioAssumption
      <4> QED BY <3>2, <4>1, RemainderAtMost
    <3>4. stream'[s].written = n % Mod
      <4>1. stream'[s] = [stream[s] EXCEPT !.written = n % Mod]
        BY <2>1, <2>2, <2>4 DEF IInv, TypeOK
      <4> QED BY <2>2, <2>4, <4>1 DEF Stream
    <3>5. stream'[s].written < Delivered(s)
      BY <1>1, <3>2, <3>3, <3>4
    <3>6. \A u \in Threads : pc[u] = "mmap" /\ arg[u].s = s => u = t
      BY <2>1, <2>4 DEF IInv, WriteKeepsPcm
    <3> QED BY <2>1, <2>3, <3>5, <3>6 DEF CountMisses, Delivered
  <2>5. CASE s # st
    <3>1. stream'[s] = stream[s]
      BY <2>1, <2>5 DEF IInv, TypeOK
    <3> QED BY <2>1, <2>3, <3>1 DEF CountMisses, Delivered
  <2> QED BY <2>4, <2>5
<1>6. ASSUME NEW r \in Streams, OpenOutputStream(r) \/ CloseOutputStream(r)
      PROVE  CountMisses(s)'
  <2>1. r # s /\ UNCHANGED <<pc, arg>>
    BY <1>6 DEF OpenOutputStream, CloseOutputStream, Update, callVars, IInv, TypeOK
  <2>2. stream'[s] = stream[s] /\ card'[s] = card[s]
    BY <1>6, <2>1 DEF OpenOutputStream, CloseOutputStream, Update, IInv, TypeOK
  <2> QED BY <2>1, <2>2 DEF CountMisses, Delivered
<1> QED BY <1>2, <1>3, <1>4, <1>5, <1>6, FrameSteps DEF FrameStep

(* A report that is ahead by now stays one of a count that misses frames.  *)
LEMMA AheadKept ==
  ASSUME IInv, CallSteps, OneCaller, FramesCounted, StampIsPast, ReportsWhole, [Next]_vars,
         NEW s \in Streams, stream'[s] # NULL, card'[s].reported > card'[s].gone
  PROVE  CountMisses(s)'
<1>1. card[s].reported > card[s].gone /\ stream[s] # NULL => CountMisses(s)'
  BY MissesKept DEF ReportsWhole
<1>2. CASE ReportsStay
  <2>1. ~(card'[s].reported = 0 /\ card'[s].gone \in Nat)
    OBVIOUS
  <2>2. /\ card'[s].reported = card[s].reported
        /\ card'[s].gone \in Nat /\ card[s].gone <= card'[s].gone
    BY <1>2, <2>1 DEF ReportsStay
  <2>3. card[s].reported > card[s].gone
    BY <2>2, CardTypes
  <2>4. CASE stream[s] # NULL
    BY <1>1, <2>3, <2>4
  <2>5. CASE stream[s] = NULL
    <3>1. CASE NoFrames
      BY <2>5, <3>1 DEF NoFrames
    <3>2. CASE \E t \in Threads : WriteFrame(t) \/ WriteEnd(t)
      <4>1. PICK t \in Threads : WriteFrame(t) \/ WriteEnd(t)
        BY <3>2
      <4>2. pc[t] # "idle" /\ (arg[t].s # s => stream'[s] = stream[s])
        BY <4>1 DEF WriteFrame, WriteEnd, At, Update, IInv, TypeOK
      <4> QED BY <2>5, <4>2, CallTypes
    <3>3. CASE \E r \in Streams : OpenOutputStream(r) \/ CloseOutputStream(r)
      <4>1. PICK r \in Streams : OpenOutputStream(r) \/ CloseOutputStream(r)
        BY <3>3
      <4>2. CASE r # s
        BY <2>5, <4>1, <4>2 DEF OpenOutputStream, CloseOutputStream, Update, IInv, TypeOK
      <4>3. CASE r = s
        <5>1. card'[s] = NewCard
          BY <2>5, <4>1, <4>3 DEF OpenOutputStream, CloseOutputStream, IInv, TypeOK
        <5> QED BY <5>1 DEF NewCard
      <4> QED BY <4>2, <4>3
    <3> QED BY <3>1, <3>2, <3>3, FrameSteps DEF FrameStep
  <2> QED BY <2>4, <2>5
<1>3. ASSUME NEW t \in Threads, PositionCompute(t)
      PROVE  CountMisses(s)'
  <2>1. PICK st \in Streams, d \in Int :
          /\ st = arg[t].s /\ d = stream[st].written - KernelFrames + arg[t].avail
          /\ pc[t] = "compute" /\ stream[st] # NULL
          /\ stream' = stream /\ d <= card[st].gone
          /\ \A r \in Streams \ {st} : card'[r] = card[r]
          /\ card'[st].gone = card[st].gone
          /\ card'[st].reported = IF d >= 0 THEN d
                                  ELSE IF wide THEN card[st].reported ELSE d + Mod
    BY <1>3, ComputedReport
  <2>2. CASE s # st
    BY <1>1, <2>1, <2>2
  <2>3. CASE s = st /\ card'[s].reported = card[s].reported
    BY <1>1, <2>1, <2>3
  <2>4. CASE s = st /\ d >= 0
    <3>1. card'[s].reported = d /\ d <= card[s].gone /\ card'[s].gone = card[s].gone
      BY <2>1, <2>4
    <3>2. card[s].gone \in Nat
      BY CardTypes
    <3> QED BY <3>1, <3>2
  <2>5. CASE s = st /\ d < 0
    <3>1. KernelFrames - arg[t].avail <= Delivered(s)
      BY <2>1, <2>5 DEF ReportsWhole
    <3>2. stream[s].written < Delivered(s)
      <4>1. stream[s].written \in Nat /\ arg[t].avail \in Nat
        <5>1. pc[t] # "idle" /\ arg[t].s = s
          BY <2>1, <2>5
        <5>2. stream[s].written \in 0 .. Mod - 1 /\ arg[t].avail \in Nat
          BY <5>1, CallTypes
        <5> QED BY <5>2
      <4>2. Delivered(s) \in Nat
        BY CardTypes
      <4>3. stream[s].written - KernelFrames + arg[t].avail < 0
        BY <2>1, <2>5
      <4> QED BY <3>1, <4>1, <4>2, <4>3, AudioAssumption
    <3>3. \A u \in Threads : pc[u] = "mmap" => arg[u].s # s
      <4>1. arg[t].op = "position"
        BY <2>1 DEF CallSteps, PositionSteps
      <4>2. \A u \in Threads : pc[u] = "mmap" => arg[u].op = "write"
        BY DEF CallSteps
      <4> QED BY <2>1, <2>5, <4>1, <4>2 DEF OneCaller
    <3>4. CountMisses(s)
      BY <3>2, <3>3 DEF CountMisses
    <3> QED BY <2>1, <2>5, <3>4, MissesKept
  <2> QED BY <2>1, <2>2, <2>4, <2>5
<1> QED BY <1>2, <1>3, ReportSteps

(* What a query will report is not lower than the last report, unless the  *)
(* count misses frames.                                                    *)
LEMMA StampWhole ==
  ASSUME IInv, CallSteps, OneCaller, FramesCounted, ReportsWhole, [Next]_vars,
         NEW u \in Threads, pc'[u] = "compute"
  PROVE  LET s == arg'[u].s IN
         /\ KernelFrames - arg'[u].avail <= card'[s].queued + card'[s].gone
         /\ stream'[s].written = card'[s].queued + card'[s].gone =>
              card'[s].reported <= stream'[s].written - KernelFrames + arg'[u].avail
<1> DEFINE st == arg[u].s
<1>1. pc[u] \in PositionSteps /\ pc[u] # "idle"
  BY QueryGoesOn DEF PositionSteps
<1>2. /\ arg[u] \in Call /\ st \in Streams /\ stream[st] # NULL
      /\ stream[st].written \in Nat
      /\ card[st].queued \in Nat /\ card[st].gone \in Nat /\ card[st].reported \in Nat
      /\ Delivered(st) = card[st].queued + card[st].gone
      /\ KernelFrames \in Nat
  BY <1>1, CallTypes, CardTypes, AudioAssumption DEF Delivered
<1>3. CASE Step(u)
  <2>1. PositionStamp(u)
    <3>1. ~PositionCheck(u)
      BY DEF PositionCheck, Return, Goto, IInv, TypeOK
    <3> QED BY <1>3, <3>1, QueryGoesOn
  <2>2. /\ Goto(u, "compute", [arg[u] EXCEPT !.avail = KernelFrames - card[st].queued])
        /\ stream' = stream /\ card' = card
    <3>1. pc[u] = "stamp"
      BY <2>1 DEF PositionStamp, At
    <3> QED BY <2>1, <3>1 DEF PositionStamp, Crash, callVars, Return, Goto, IInv, TypeOK
  <2>3. arg'[u] = [arg[u] EXCEPT !.avail = KernelFrames - card[st].queued]
    BY <2>2 DEF Goto, IInv, TypeOK
  <2>4. arg'[u].avail = KernelFrames - card[st].queued /\ arg'[u].s = st
    BY <1>2, <2>3 DEF Call
  <2>5. stream[st].written = Delivered(st) => card[st].reported <= card[st].gone
    <3>1. card[st].reported > card[st].gone => stream[st].written < Delivered(st)
      BY <1>2 DEF ReportsWhole, CountMisses
    <3> HIDE DEF st
    <3> QED BY <1>2, <3>1
  <2> HIDE DEF st
  <2>6. /\ KernelFrames - (KernelFrames - card[st].queued) <= Delivered(st)
        /\ stream[st].written = Delivered(st) =>
             card[st].reported
               <= stream[st].written - KernelFrames + (KernelFrames - card[st].queued)
    BY <1>2, <2>5
  <2> QED BY <2>2, <2>4, <2>6 DEF Delivered
<1>4. CASE ~Step(u)
  <2>1. /\ pc[u] = "compute" /\ arg'[u] = arg[u] /\ stream'[st] = stream[st]
        /\ card'[st].reported = card[st].reported
        /\ card'[st].queued + card'[st].gone = Delivered(st)
    BY <1>1, <1>4, QueryAlone
  <2> QED BY <2>1 DEF ReportsWhole, Delivered
<1> QED BY <1>3, <1>4
-----------------------------------------------------------------------------
(* What orderly callers keep, with the invariant that any callers keep.    *)
OrderlyInv ==
  /\ IInv /\ CallSteps /\ OneCaller
  /\ PcmsAccounted /\ ActiveIsRunning
  /\ TestedPcm /\ FaultNeedsFailedOpen
  /\ FramesCounted /\ StampIsPast /\ PositionNotAhead /\ ReportsWhole

(* Initially there are no calls, streams, pcms and frames.                 *)
LEMMA InitOrderly == Init => OrderlyInv
<1> SUFFICES ASSUME Init PROVE OrderlyInv
  OBVIOUS
<1>1. \A t \in Threads : pc[t] = "idle"
  BY DEF Init
<1>2. \A s \in Streams : stream[s] = NULL /\ card[s].reported = 0 /\ card[s].gone = 0
  BY DEF Init, NewCard
<1>3. CallSteps /\ OneCaller /\ TestedPcm /\ StampIsPast
  BY <1>1 DEF CallSteps, OneCaller, TestedPcm, StampIsPast
<1>4. FramesCounted /\ PositionNotAhead /\ ReportsWhole
  BY <1>1, <1>2 DEF FramesCounted, PositionNotAhead, ReportsWhole
<1>5. PcmsAccounted /\ ActiveIsRunning /\ FaultNeedsFailedOpen
  BY <1>2 DEF Init, PcmsAccounted, ActiveIsRunning, Running, FaultNeedsFailedOpen
<1> QED BY <1>3, <1>4, <1>5, InitIInv DEF OrderlyInv

(* Orderly callers keep all of it, whatever the open, the card and the     *)
(* writes do.                                                              *)
THEOREM OrderlyInvHolds == ASSUME Orderly PROVE Spec => []OrderlyInv
<1>1. OrderlyInv /\ [Next]_vars => OrderlyInv'
  <2> SUFFICES ASSUME OrderlyInv, [Next]_vars PROVE OrderlyInv'
    OBVIOUS
  <2> USE DEF OrderlyInv
  <2>1. IInv' /\ CallSteps' /\ OneCaller'
    BY NextIInv, CallsInOrder
  <2>2. PcmsAccounted' /\ ActiveIsRunning'
    BY AccountsKept
  <2>3. TestedPcm' /\ FaultNeedsFailedOpen'
    BY TestedPcmKept, FaultsExplained
  <2>4. FramesCounted' /\ StampIsPast' /\ PositionNotAhead'
    BY FramesKept, StampKept, ReportsKept
  <2>5. ReportsWhole'
    BY AheadKept, StampWhole DEF ReportsWhole, Delivered
  <2> QED BY <2>1, <2>2, <2>3, <2>4, <2>5
<1> QED BY <1>1, InitOrderly, PTL DEF Spec

(* No pcm is leaked: the open ones are those of the running streams.       *)
THEOREM NoPcmLeaks == ASSUME Orderly PROVE Spec => []PcmsAccounted
<1>1. OrderlyInv => PcmsAccounted
  BY DEF OrderlyInv
<1> QED BY <1>1, OrderlyInvHolds, PTL

(* active_output, when it is set, is a stream out of standby.              *)
THEOREM ActiveOutputRuns == ASSUME Orderly PROVE Spec => []ActiveIsRunning
<1>1. OrderlyInv => ActiveIsRunning
  BY DEF OrderlyInv
<1> QED BY <1>1, OrderlyInvHolds, PTL

(* The unlocked position query meets a closed pcm only after a failed open.*)
THEOREM QueriesFailAfterFailedOpen == ASSUME Orderly PROVE Spec => []FaultNeedsFailedOpen
<1>1. OrderlyInv => FaultNeedsFailedOpen
  BY DEF OrderlyInv
<1> QED BY <1>1, OrderlyInvHolds, PTL

(* No reported position is ahead of the card, but for a 32-bit build's     *)
(* unsigned difference below zero.                                         *)
THEOREM PositionsArePast == ASSUME Orderly PROVE Spec => []PositionNotAhead
<1>1. OrderlyInv => PositionNotAhead
  BY DEF OrderlyInv
<1> QED BY <1>1, OrderlyInvHolds, PTL

(* A position goes back only when frames have been missed.                 *)
THEOREM PositionsGoOn == ASSUME Orderly PROVE Spec => PositionGoesOn
<1> DEFINE Kept == \A s \in Streams : stream[s] # NULL /\ card'[s].reported < card[s].reported
                     => stream[s].written # card[s].queued + card[s].gone
<1>1. ASSUME OrderlyInv, [Next]_vars PROVE Kept
  <2> USE <1>1 DEF OrderlyInv
  <2> SUFFICES ASSUME NEW s \in Streams, stream[s] # NULL,
                      card'[s].reported < card[s].reported, stream[s].written = Delivered(s)
               PROVE  FALSE
    BY DEF Delivered
  <2>1. ~ReportsStay
    BY CardTypes DEF ReportsStay
  <2>2. PICK t \in Threads : PositionCompute(t)
    BY <2>1, ReportSteps
  <2>3. PICK st \in Streams, d \in Int :
          /\ st = arg[t].s /\ d = stream[st].written - KernelFrames + arg[t].avail
          /\ pc[t] = "compute"
          /\ \A r \in Streams \ {st} : card'[r] = card[r]
          /\ d >= 0 => card'[st].reported = d
    BY <2>2, ComputedReport
  <2>4. s = st
    BY <2>3, CardTypes
  <2>5. card[s].reported <= d
    BY <2>3, <2>4 DEF ReportsWhole
  <2>6. card[s].reported \in Nat
    BY CardTypes
  <2> QED BY <2>3, <2>4, <2>5, <2>6
<1>2. OrderlyInv /\ [Next]_vars => [Kept]_vars
  BY <1>1
<1> QED BY <1>2, OrderlyInvHolds, PTL DEF Spec, PositionGoesOn
=============================================================================
