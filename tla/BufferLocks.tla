---------------------------- MODULE BufferLocks ----------------------------
(***************************************************************************)
(* What the lock and unlock calls of the gralloc HAL promise, without      *)
(* threads, mutex, handle map or buffer objects: a buffer is locked any    *)
(* number of times by users of the GPU, or once by a user of the CPU.      *)
(***************************************************************************)
EXTENDS Naturals

CONSTANTS Handles, Usages, SwMask

VARIABLE buf   \* per handle: whether it has a buffer, and the locks on it

NoBuffer == [live |-> FALSE, count |-> 0, usage |-> {}]
Unlocked == [live |-> TRUE, count |-> 0, usage |-> {}]

Init == buf = [h \in Handles |-> NoBuffer]

Create(h) == ~buf[h].live /\ buf' = [buf EXCEPT ![h] = Unlocked]

(* A buffer goes away with whatever locks are still on it.                 *)
Destroy(h) == buf[h].live /\ buf' = [buf EXCEPT ![h] = NoBuffer]

(* A user joins the locks there are if it wants nothing the first of them  *)
(* did not, and the CPU only ever comes alone.                             *)
Lock(h, u) ==
  /\ buf[h].live
  /\ buf[h].count = 0 \/ u \subseteq buf[h].usage
  /\ (u \cup buf[h].usage) \cap SwMask # {} => buf[h].count = 0
  /\ buf' = [buf EXCEPT ![h] = [live  |-> TRUE,
                                count |-> buf[h].count + 1,
                                usage |-> u \cup buf[h].usage]]

(* The last unlock forgets what the buffer was locked for.                 *)
Unlock(h) ==
  /\ buf[h].live /\ buf[h].count > 0
  /\ LET n == buf[h].count - 1
     IN buf' = [buf EXCEPT ![h] = [live  |-> TRUE,
                                   count |-> n,
                                   usage |-> IF n = 0 THEN {} ELSE buf[h].usage]]

Next ==
  \E h \in Handles :
    \/ Create(h) \/ Destroy(h) \/ Unlock(h)
    \/ \E u \in Usages : Lock(h, u)

Spec == Init /\ [][Next]_buf
=============================================================================
