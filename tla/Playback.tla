------------------------------ MODULE Playback ------------------------------
(***************************************************************************)
(* What the playback half of the audio HAL promises of its streams,        *)
(* without threads, mutexes, frames or positions: one write at a time on a *)
(* stream, a pcm of its own from the write that starts it to its standby,  *)
(* no standby during a write, and no way back from a pcm that failed to    *)
(* open but closing the stream.                                            *)
(***************************************************************************)
CONSTANTS Streams, Pcms, NULL

VARIABLES
  state,  \* per stream: "closed", "standby", "writing", "running" between two
          \* writes, or "broken"
  pcm,    \* per stream: the pcm it plays to, NULL outside "writing", "running"
  open    \* pcm objects open, those of streams closed without standby included

vars == <<state, pcm, open>>

Init ==
  /\ state = [s \in Streams |-> "closed"]
  /\ pcm = [s \in Streams |-> NULL]
  /\ open = {}

Move(s, from, to) == state[s] = from /\ state' = [state EXCEPT ![s] = to]

Open(s) == Move(s, "closed", "standby") /\ UNCHANGED <<pcm, open>>

(* The pcm of a running stream stays open, and nobody has it any more.     *)
Close(s) ==
  /\ state[s] \in {"standby", "running", "broken"}
  /\ state' = [state EXCEPT ![s] = "closed"]
  /\ pcm' = [pcm EXCEPT ![s] = NULL]
  /\ UNCHANGED open

(* The first write after a standby opens a pcm that is nobody's.           *)
Start(s) ==
  /\ Move(s, "standby", "writing")
  /\ \E p \in Pcms \ open :
       /\ pcm' = [pcm EXCEPT ![s] = p]
       /\ open' = open \cup {p}

Fail(s) == Move(s, "standby", "broken") /\ UNCHANGED <<pcm, open>>

Resume(s) == Move(s, "running", "writing") /\ UNCHANGED <<pcm, open>>

Finish(s) == Move(s, "writing", "running") /\ UNCHANGED <<pcm, open>>

Standby(s) ==
  /\ Move(s, "running", "standby")
  /\ pcm' = [pcm EXCEPT ![s] = NULL]
  /\ open' = open \ {pcm[s]}

Next ==
  \E s \in Streams :
    \/ Open(s) \/ Close(s)
    \/ Start(s) \/ Fail(s) \/ Resume(s) \/ Finish(s) \/ Standby(s)

Spec == Init /\ [][Next]_vars
=============================================================================
