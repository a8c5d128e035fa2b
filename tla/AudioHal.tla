----------------------------- MODULE AudioHal -----------------------------
(***************************************************************************)
(* The playback half of the audio HAL (audio/audio_hw.c).                  *)
(*                                                                         *)
(* A stream has a mutex, a pcm device that is open unless the stream is in *)
(* standby, and a count of the frames written.  write, standby and the     *)
(* routing parameter take the mutex of the hardware device and then that   *)
(* of the stream; write gives the first back before it blocks in           *)
(* pcm_mmap_write.  The presentation position is computed without a mutex. *)
(*                                                                         *)
(* The sound card and tinyalsa are as the HAL uses them: a pcm may fail to *)
(* open, a write puts its frames in the kernel buffer one by one, waits    *)
(* for room, and may fail half way, and closing drops what is left there.  *)
(***************************************************************************)
EXTENDS Integers

CONSTANTS
  Threads, Streams,
  Pcms,          \* struct pcm objects that can be opened
  Closed,        \* pointer to a pcm that failed to open and was closed
  Routes,        \* output device masks other than 0
  Chunks,        \* lengths of a write, in frames
  KernelFrames,  \* period_size * period_count
  Mod,           \* 2^32 scaled down: the range of an unsigned int
  Orderly,       \* the callers keep the order of the audio service, below
  MaxFrames,     \* bound: no write starts after this many frames
  NULL

VARIABLES
  wide,     \* size_t has 64 bits: the HAL is built both ways, and stays one
  devices,  \* adev->devices, 0 for none; NULL while the device is not open
  active,   \* adev->active_output
  lock,     \* holder of each mutex: of the device, "adev", and of each stream
  stream,   \* alsa_stream_out of each open output stream, or NULL
  pcmLive,  \* pcm objects that have been opened and not closed
  card,     \* per stream: frames in the kernel buffer, frames gone from it
            \* since the stream was opened, and the last position reported,
            \* 0 before the first
  pc, arg,  \* per thread: next step of its call, and the call
  fault     \* undefined behaviour the process ran into, or "none"

devVars  == <<devices, active>>
callVars == <<pc, arg>>
vars     == <<wide, devVars, lock, stream, pcmLive, card, callVars, fault>>

Ops     == {"write", "standby", "route", "position"}
Labels  == {"idle", "first", "second", "held", "mmap", "check", "stamp", "compute"}
Mutexes == {"adev"} \cup Streams

Stream == [standby : BOOLEAN, unavailable : BOOLEAN,
           pcm : Pcms \cup {Closed, NULL}, written : 0 .. Mod - 1]
Card   == [queued : 0 .. KernelFrames, gone : Nat, reported : Nat]

Call == [op : Ops, s : Streams, route : Routes \cup {0},
         frames : Chunks \cup {0}, left : Nat,
         pcm : Pcms \cup {Closed, NULL}, avail : Nat]

ASSUME AudioAssumption ==
  /\ Chunks \subseteq Nat \ {0}
  /\ KernelFrames \in Nat \ {0} /\ Mod \in Nat \ {0} /\ KernelFrames < Mod
  /\ Orderly \in BOOLEAN /\ MaxFrames \in Nat
  /\ NULL \notin Threads \cup Streams \cup Pcms \cup {Closed}
  /\ Closed \notin Pcms /\ NULL \notin Stream
  /\ "adev" \notin Streams /\ 0 \notin Routes

(* A call on stream s; the fields other than op and s are those of some.   *)
NewCall(o, st) == [op |-> o, s |-> st, route |-> 0, frames |-> 0,
                   left |-> 0, pcm |-> NULL, avail |-> 0]

NewStream == [standby |-> TRUE, unavailable |-> FALSE, pcm |-> NULL, written |-> 0]
NewCard   == [queued |-> 0, gone |-> 0, reported |-> 0]

Init ==
  /\ wide \in BOOLEAN
  /\ devices = NULL /\ active = NULL
  /\ lock = [m \in Mutexes |-> NULL]
  /\ stream = [s \in Streams |-> NULL]
  /\ pcmLive = {} /\ card = [s \in Streams |-> NewCard]
  /\ pc = [t \in Threads |-> "idle"] /\ arg = [t \in Threads |-> NULL]
  /\ fault = "none"
-----------------------------------------------------------------------------
Alive == fault = "none"

Goto(t, label, call) ==
  /\ pc'  = [pc EXCEPT ![t] = label]
  /\ arg' = [arg EXCEPT ![t] = call]

Return(t) == Goto(t, "idle", NULL)

Crash(kind) ==
  /\ fault' = kind
  /\ UNCHANGED <<wide, devVars, lock, stream, pcmLive, card, callVars>>

NoCrash == UNCHANGED <<wide, fault>>

At(t, label) == Alive /\ pc[t] = label

Unlock(ms) == lock' = [m \in Mutexes |-> IF m \in ms THEN NULL ELSE lock[m]]

Update(s, fields) == stream' = [stream EXCEPT ![s] = fields]

Busy(s) == \E t \in Threads : pc[t] # "idle" /\ arg[t].s = s

(* The playback thread of the audio service makes the calls on one stream  *)
(* one after the other; a routing change may come from another thread.     *)
Exclusive(s) ==
  Orderly => \A t \in Threads :
               pc[t] # "idle" /\ arg[t].s = s => arg[t].op = "route"
-----------------------------------------------------------------------------
(* Devices and streams.  Callers keep a device while it has streams and a  *)
(* stream while it has calls; an orderly one has put it in standby too.    *)

AdevOpen ==
  /\ Alive /\ devices = NULL
  /\ devices' = 0 /\ active' = NULL
  /\ UNCHANGED <<lock, stream, pcmLive, card, callVars>> /\ NoCrash

AdevClose ==
  /\ Alive /\ devices # NULL /\ \A s \in Streams : stream[s] = NULL
  /\ devices' = NULL /\ active' = NULL
  /\ UNCHANGED <<lock, stream, pcmLive, card, callVars>> /\ NoCrash

OpenOutputStream(s) ==
  /\ Alive /\ devices # NULL /\ stream[s] = NULL
  /\ Update(s, NewStream)
  /\ card' = [card EXCEPT ![s] = NewCard]
  /\ UNCHANGED <<devVars, lock, pcmLive, callVars>> /\ NoCrash

(* Only a free: a pcm that is still open is leaked, active_output dangles. *)
CloseOutputStream(s) ==
  /\ Alive /\ stream[s] # NULL /\ ~Busy(s)
  /\ Orderly => stream[s].standby
  /\ Update(s, NULL)
  /\ UNCHANGED <<devVars, lock, pcmLive, card, callVars>> /\ NoCrash
-----------------------------------------------------------------------------
(* Calls that take both mutexes *)

Begin(t, label, call) ==
  /\ At(t, "idle") /\ stream[call.s] # NULL
  /\ Goto(t, label, call)
  /\ UNCHANGED <<devVars, lock, stream, pcmLive, card>> /\ NoCrash

Write(t, s, n) ==
  /\ Exclusive(s) /\ card[s].queued + card[s].gone < MaxFrames
  /\ Begin(t, "first", [NewCall("write", s) EXCEPT !.frames = n, !.left = n])

OutStandby(t, s) == Exclusive(s) /\ Begin(t, "first", NewCall("standby", s))

(* Without a routing parameter the call does nothing.                      *)
SetRouting(t, s, val) == Begin(t, "first", [NewCall("route", s) EXCEPT !.route = val])

(* Variants with a mistake in them, as in Gralloc.                         *)
SlipOrder(c) == IF c.op = "standby" THEN <<c.s, "adev">> ELSE <<"adev", c.s>>

Order(c) == <<"adev", c.s>>

Take(t, i, label) ==
  LET m == Order(arg[t])[i] IN
  /\ lock[m] = NULL /\ lock' = [lock EXCEPT ![m] = t]
  /\ Goto(t, label, arg[t])
  /\ UNCHANGED <<devVars, stream, pcmLive, card>> /\ NoCrash

TakeFirst(t)  == At(t, "first") /\ Take(t, 1, "second")
TakeSecond(t) == At(t, "second") /\ Take(t, 2, "held")

Holding(t, op) == At(t, "held") /\ arg[t].op = op

(* The mutexes a write keeps while it is in pcm_mmap_write.                *)
SlipReleased(s) == {"adev", s}

Released(s) == {"adev"}

WriteStarted(t) ==
  LET s == arg[t].s IN
  /\ Holding(t, "write") /\ ~stream[s].standby
  /\ Unlock(Released(s)) /\ Goto(t, "mmap", arg[t])
  /\ UNCHANGED <<devVars, stream, pcmLive, card>> /\ NoCrash

SlipSetsStandby == TRUE   \* line 263 dropped

SetsStandby == FALSE

(* start_output_stream succeeds: the pcm is open.                          *)
WriteStart(t) ==
  LET s == arg[t].s IN
  /\ Holding(t, "write") /\ stream[s].standby /\ ~stream[s].unavailable
  /\ \E p \in Pcms \ pcmLive :
       /\ pcmLive' = pcmLive \cup {p}
       /\ Update(s, [stream[s] EXCEPT !.pcm = p, !.standby = SetsStandby])
  /\ active' = s
  /\ Unlock(Released(s)) /\ Goto(t, "mmap", arg[t])
  /\ UNCHANGED <<devices, card>> /\ NoCrash

(* start_output_stream fails.  When the pcm is not ready it is closed, the *)
(* pointer to it stays, and the stream can never be started again.         *)
WriteStartFails(t) ==
  LET s == arg[t].s IN
  /\ Holding(t, "write") /\ stream[s].standby
  /\ \/ stream[s].unavailable /\ UNCHANGED <<stream, active>>
     \/ /\ ~stream[s].unavailable
        /\ Update(s, [stream[s] EXCEPT !.pcm = Closed, !.unavailable = TRUE])
        /\ active' = NULL
  /\ Unlock({"adev", s}) /\ Return(t)
  /\ UNCHANGED <<devices, pcmLive, card>> /\ NoCrash
-----------------------------------------------------------------------------
(* pcm_mmap_write, under the stream's mutex *)

WriteFrame(t) ==
  LET s == arg[t].s IN
  /\ At(t, "mmap") /\ arg[t].left > 0 /\ card[s].queued < KernelFrames
  /\ card' = [card EXCEPT ![s].queued = @ + 1]
  /\ Goto(t, "mmap", [arg[t] EXCEPT !.left = @ - 1])
  /\ UNCHANGED <<devVars, lock, stream, pcmLive>> /\ NoCrash

SlipCounted(c) == c.frames   \* line 269 without its test

Counted(c) == IF c.left = 0 THEN c.frames ELSE 0

(* The write is over, and counts if all of it went well.                   *)
WriteEnd(t) ==
  LET s == arg[t].s IN
  /\ At(t, "mmap")
  /\ Update(s, [stream[s] EXCEPT !.written = (@ + Counted(arg[t])) % Mod])
  /\ Unlock({s}) /\ Return(t)
  /\ UNCHANGED <<devVars, pcmLive, card>> /\ NoCrash

(* The card takes a frame out of the kernel buffer.                        *)
Play(s) ==
  /\ Alive /\ stream[s] # NULL /\ stream[s].pcm \in pcmLive /\ card[s].queued > 0
  /\ card' = [card EXCEPT ![s].queued = @ - 1, ![s].gone = @ + 1]
  /\ UNCHANGED <<devVars, lock, stream, pcmLive, callVars>> /\ NoCrash
-----------------------------------------------------------------------------
SlipPcmAfterStandby(s) == stream[s].pcm   \* line 167 dropped

PcmAfterStandby(s) == NULL

SlipActiveAfterStandby == active   \* line 168 dropped

ActiveAfterStandby == NULL

DoOutputStandby(t) ==
  LET s == arg[t].s IN
  /\ Holding(t, "standby")
  /\ \/ /\ stream[s].standby
        /\ UNCHANGED <<active, stream, pcmLive, card>>
     \/ /\ ~stream[s].standby
        /\ pcmLive' = pcmLive \ {stream[s].pcm}
        /\ card' = [card EXCEPT ![s].queued = 0, ![s].gone = @ + card[s].queued]
        /\ Update(s, [stream[s] EXCEPT !.pcm = PcmAfterStandby(s), !.standby = TRUE])
        /\ active' = ActiveAfterStandby
  /\ Unlock({"adev", s}) /\ Return(t)
  /\ UNCHANGED devices /\ NoCrash

OutSetParameters(t) ==
  LET val == arg[t].route IN
  /\ Holding(t, "route")
  /\ devices' = IF val = 0 THEN devices ELSE val
  /\ Unlock({"adev", arg[t].s}) /\ Return(t)
  /\ UNCHANGED <<active, stream, pcmLive, card>> /\ NoCrash
-----------------------------------------------------------------------------
(* out_get_presentation_position: no mutex *)

GetPosition(t, s) == Exclusive(s) /\ Begin(t, "check", NewCall("position", s))

PositionCheck(t) ==
  LET p == stream[arg[t].s].pcm IN
  /\ At(t, "check")
  /\ \/ p = NULL /\ Return(t)
     \/ p # NULL /\ Goto(t, "stamp", [arg[t] EXCEPT !.pcm = p])
  /\ UNCHANGED <<devVars, lock, stream, pcmLive, card>> /\ NoCrash

(* pcm_get_htimestamp gets the pointer that was tested or, when the build  *)
(* reads it again, the one there is by now.                                *)
PositionStamp(t) ==
  LET s == arg[t].s IN
  /\ At(t, "stamp")
  /\ \E p \in {arg[t].pcm, stream[s].pcm} :
       \/ p = NULL /\ Crash("null_pcm")
       \/ p # NULL /\ (p \notin pcmLive \/ p # stream[s].pcm) /\ Crash("use_after_close")
       \/ /\ p \in pcmLive /\ p = stream[s].pcm
          /\ \/ Return(t)
             \/ Goto(t, "compute", [arg[t] EXCEPT !.avail = KernelFrames - card[s].queued])
          /\ UNCHANGED <<devVars, lock, stream, pcmLive, card>> /\ NoCrash

(* out->written - kernel_buffer_size + avail: unsigned arithmetic as wide  *)
(* as size_t.  64 bits read as an int64_t give the signed difference; 32   *)
(* bits never give a negative one.                                         *)
SlipSignedFrames(w, avail) ==   \* avail taken for the frames queued
  LET d == w - avail IN IF wide THEN d ELSE d % Mod

SignedFrames(w, avail) ==
  LET d == w - KernelFrames + avail IN IF wide THEN d ELSE d % Mod

SlipReported(f, last) == f   \* the test of line 302 dropped

Reported(f, last) == IF f >= 0 THEN f ELSE last

PositionCompute(t) ==
  LET s == arg[t].s
      f == SignedFrames(stream[s].written, arg[t].avail)
  IN /\ At(t, "compute")
     /\ card' = [card EXCEPT ![s].reported = Reported(f, @)]
     /\ Return(t)
     /\ UNCHANGED <<devVars, lock, stream, pcmLive>> /\ NoCrash
-----------------------------------------------------------------------------
(* Steps of a call that has started.                                       *)
Step(t) ==
  \/ TakeFirst(t) \/ TakeSecond(t)
  \/ WriteStarted(t) \/ WriteStart(t) \/ WriteStartFails(t)
  \/ WriteFrame(t) \/ WriteEnd(t)
  \/ DoOutputStandby(t) \/ OutSetParameters(t)
  \/ PositionCheck(t) \/ PositionStamp(t) \/ PositionCompute(t)

Next ==
  \/ AdevOpen \/ AdevClose
  \/ \E s \in Streams : OpenOutputStream(s) \/ CloseOutputStream(s) \/ Play(s)
  \/ \E t \in Threads :
       \/ Step(t)
       \/ \E s \in Streams :
            \/ OutStandby(t, s) \/ GetPosition(t, s)
            \/ \E n \in Chunks : Write(t, s, n)
            \/ \E val \in Routes \cup {0} : SetRouting(t, s, val)

(* Threads keep running, pcm_mmap_write returns, and a thread that waits   *)
(* for a mutex gets it if it is free over and over again.                  *)
Fairness ==
  \A t \in Threads :
    WF_vars(Step(t)) /\ SF_vars(TakeFirst(t)) /\ SF_vars(TakeSecond(t))

Spec     == Init /\ [][Next]_vars
FairSpec == Spec /\ Fairness
-----------------------------------------------------------------------------
(* Properties *)

TypeOK ==
  /\ wide \in BOOLEAN
  /\ devices \in Routes \cup {0, NULL} /\ active \in Streams \cup {NULL}
  /\ lock \in [Mutexes -> Threads \cup {NULL}]
  /\ stream \in [Streams -> Stream \cup {NULL}]
  /\ pcmLive \subseteq Pcms /\ card \in [Streams -> Card]
  /\ pc \in [Threads -> Labels] /\ arg \in [Threads -> Call \cup {NULL}]
  /\ fault \in {"none", "use_after_close", "null_pcm"}

Running(s) == stream[s] # NULL /\ ~stream[s].standby

(* A stream out of standby has an open pcm of its own, so that the next    *)
(* standby closes it once; a stream in standby points to no pcm at all     *)
(* unless its pcm failed to open, and such a stream never runs again.      *)
PcmMatchesStandby ==
  /\ \A s \in Streams : stream[s] # NULL =>
       IF stream[s].standby
       THEN stream[s].pcm = IF stream[s].unavailable THEN Closed ELSE NULL
       ELSE stream[s].pcm \in pcmLive /\ ~stream[s].unavailable
  /\ \A s, r \in Streams :
       Running(s) /\ Running(r) /\ stream[s].pcm = stream[r].pcm => s = r

(* While a write is in pcm_mmap_write, without the mutex of the device, it *)
(* has the stream to itself and nobody puts the stream in standby or       *)
(* closes its pcm.                                                         *)
WriteKeepsPcm ==
  \A t \in Threads : pc[t] = "mmap" =>
    LET s == arg[t].s
    IN lock[s] = t /\ Running(s) /\ stream[s].pcm \in pcmLive

Wanted(t) == {Order(arg[t])[i] : i \in {j \in 1 .. 2 : pc[t] = <<"first", "second">>[j]}}

WaitsFor(t, u) == \E m \in Wanted(t) : lock[m] = u

(* No call returns with a mutex, whichever way it returns, and nobody is   *)
(* blocked for good: a call waits for one that goes on, or for one that    *)
(* itself waits only for the write of another call to come back from the   *)
(* kernel.                                                                 *)
WaitsEnd ==
  /\ \A m \in Mutexes : lock[m] # NULL => pc[lock[m]] # "idle"
  /\ \A t, u, v \in Threads :
       WaitsFor(t, u) /\ WaitsFor(u, v) => pc[v] = "mmap"

InWrite(s) == \E t \in Threads : pc[t] = "mmap" /\ arg[t].s = s

StateOf(s) ==
  IF stream[s] = NULL THEN "closed"
  ELSE IF InWrite(s) THEN "writing"
  ELSE IF Running(s) THEN "running"
  ELSE IF stream[s].unavailable THEN "broken" ELSE "standby"

PcmOf(s) == IF Running(s) THEN stream[s].pcm ELSE NULL

(* Threads and mutexes together implement the streams of module Playback:  *)
(* whatever the calls and their interleaving, a stream only goes from one  *)
(* state to another as that module allows, with a pcm nobody else has.     *)
Promise == INSTANCE Playback
  WITH state <- [s \in Streams |-> StateOf(s)],
       pcm <- [s \in Streams |-> PcmOf(s)],
       open <- pcmLive

ImplementsPlayback == Promise!Spec

(* With orderly callers the open pcm objects are those of the streams out  *)
(* of standby: none is leaked by a restart or by closing a stream.         *)
PcmsAccounted == pcmLive = {stream[s].pcm : s \in {r \in Streams : Running(r)}}

(* With orderly callers active_output never points to a stream that is in  *)
(* standby or has been freed.                                              *)
ActiveIsRunning == active # NULL => Running(active)

(* With orderly callers the position query, which takes no mutex, reads a  *)
(* closed pcm only on a stream whose pcm failed to open.                   *)
FaultNeedsFailedOpen ==
  fault # "none" =>
    fault = "use_after_close" /\ \E s \in Streams :
      stream[s] # NULL /\ stream[s].unavailable /\ Busy(s)

(* With orderly callers no position is reported that the card has not      *)
(* reached: frames written, played, dropped, half written or counted past  *)
(* the end of an unsigned int.  A 32-bit build is off by the range of the  *)
(* counter when failed writes left frames in the kernel it did not count.  *)
PositionNotAhead ==
  \A s \in Streams :
    \/ card[s].reported <= card[s].gone
    \/ ~wide /\ card[s].reported >= Mod - KernelFrames

(* With orderly callers a position that has been reported is taken back    *)
(* only when the count has missed frames that reached the kernel: those of *)
(* a write that failed half way, or a full turn of an unsigned int.        *)
PositionGoesOn ==
  [][\A s \in Streams : stream[s] # NULL /\ card'[s].reported < card[s].reported
       => stream[s].written # card[s].queued + card[s].gone]_vars

(* Every call returns: the two mutexes are taken in one order everywhere,  *)
(* and a write gives the mutex of the device back before it blocks.        *)
CallsReturn ==
  \A t \in Threads : pc[t] # "idle" ~> (pc[t] = "idle" \/ ~Alive)
=============================================================================
