---------------------------- MODULE GrallocShare ----------------------------
(***************************************************************************)
(* A graphics buffer between processes.  The allocator process creates it  *)
(* and sends its handle to a client, and usually frees its own copy at     *)
(* once; the client registers the handle, locks the buffer for the CPU,    *)
(* and gives it back in its own time.  Either process may die.             *)
(*                                                                         *)
(* Each process runs the HAL of module Gralloc; here a call is one step,   *)
(* and what counts is what crosses the border: the description in the      *)
(* handle, the file descriptor in it, and the buffer object each process   *)
(* makes of them.  The memory is the kernel's: it lasts while a process    *)
(* has a descriptor of it or a buffer object on it, or one is on its way.  *)
(* In a handle, mem is what its descriptor prime_fd is of, and NULL when   *)
(* prime_fd is negative: gbm_bo_get_fd may fail and nobody looks.          *)
(***************************************************************************)
EXTENDS GrallocShape, FiniteSets

CONSTANTS
  Allocator, Clients,   \* processes
  Mems,                 \* identities of pieces of memory
  Descriptions,         \* what is asked for
  Pads,                 \* bytes a driver adds to a row
  LockUsages,           \* usages of a CPU lock
  FdMayFail,            \* bound: what gbm_bo_get_fd may fail for
  MaxSent,              \* bound: handles on their way at a time
  NULL

Procs == Clients \cup {Allocator}

VARIABLES
  mem,     \* what each piece of memory was created as, or NULL
  handle,  \* per process: its native handle of the buffer, or NULL
  fds,     \* per process: descriptors it has open of each piece of memory
  bo,      \* per process: its buffer object, as the driver was told, or NULL
  sent,    \* handles on their way to a client
  map      \* per process: the CPU lock it has, or NULL

vars == <<mem, handle, fds, bo, sent, map>>

Size   == [cols : Nat, rows : Nat]
Memory == [size : Size, gbm_format : GbmFormats, stride : Nat, bind : SUBSET GbmUses]
Handle == [d : Description, mem : Mems \cup {NULL}, stride : Nat, pixels : Nat]
Object == [mem : Mems, size : Size, gbm_format : GbmFormats, stride : Nat]
Rect   == [x : Nat, y : Nat, w : Nat, h : Nat]
Lock   == [usage : SUBSET UsageBits, rect : Rect, size : Size]

ASSUME ShareAssumption ==
  /\ Allocator \notin Clients
  /\ Descriptions \subseteq Description /\ FdMayFail \subseteq Descriptions
  /\ MaxSent \in Nat \ {0}
  /\ Pads \subseteq Nat
  /\ \A u \in LockUsages : u \subseteq UsageBits /\ u \cap SwBits # {}
  /\ NULL \notin Mems \cup Memory \cup Handle \cup Object \cup Lock

Init ==
  /\ mem = [m \in Mems |-> NULL]
  /\ handle = [p \in Procs |-> NULL]
  /\ fds = [p \in Procs |-> [m \in Mems |-> 0]]
  /\ bo = [p \in Procs |-> NULL]
  /\ sent = {}
  /\ map = [p \in Procs |-> NULL]
-----------------------------------------------------------------------------
(* The kernel frees a piece of memory with the last reference to it.       *)
Referenced(m) ==
  \/ \E p \in Procs : fds[p][m] > 0 \/ (bo[p] # NULL /\ bo[p].mem = m)
  \/ \E s \in sent : s.handle.mem = m

Settle == mem' = [m \in Mems |-> IF Referenced(m)' THEN mem[m] ELSE NULL]

ObjectOf(h, m, size) ==
  [mem |-> m, size |-> size, gbm_format |-> get_gbm_format(h.d.format),
   stride |-> h.stride]

(* The descriptors when p gets one of memory m, or closes that of its      *)
(* handle; a negative one is none.                                         *)
Opened(p, m) == IF m = NULL THEN fds ELSE [fds EXCEPT ![p][m] = @ + 1]

Closed(p) ==
  LET m == handle[p].mem IN IF m = NULL THEN fds ELSE [fds EXCEPT ![p][m] = @ - 1]

(* gbm_alloc and gralloc_gbm_bo_create: the driver refuses an unknown      *)
(* format and an empty size, and picks the stride; the handle gets it and  *)
(* what gbm_bo_get_fd returned, a descriptor fd of m or none (NULL), and   *)
(* the caller gets the stride in pixels, and success, in either case.      *)
Alloc(m, d, pad, fd) ==
  LET size   == AllocSize(d)
      gf     == get_gbm_format(d.format)
      stride == size.cols * GbmCpp(gf) + pad
      h      == [d |-> d, mem |-> fd, stride |-> stride,
                 pixels |-> PixelStride(stride, d.format)]
  IN /\ handle[Allocator] = NULL /\ mem[m] = NULL
     /\ gf # "none" /\ size.cols > 0 /\ size.rows > 0
     /\ mem' = [mem EXCEPT ![m] = [size |-> size, gbm_format |-> gf, stride |-> stride,
                                   bind |-> get_pipe_bind(d.usage)]]
     /\ handle' = [handle EXCEPT ![Allocator] = h]
     /\ fds' = Opened(Allocator, fd)
     /\ bo' = [bo EXCEPT ![Allocator] = ObjectOf(h, m, size)]
     /\ UNCHANGED <<sent, map>>

(* The handle in a message has a descriptor of its own, if it had one.     *)
Send(c) ==
  /\ handle[Allocator] # NULL /\ Cardinality(sent) < MaxSent
  /\ sent' = sent \cup {[to |-> c, handle |-> handle[Allocator]]}
  /\ UNCHANGED <<mem, handle, fds, bo, map>>

Receive(s) ==
  /\ handle[s.to] = NULL
  /\ handle' = [handle EXCEPT ![s.to] = s.handle]
  /\ fds' = Opened(s.to, s.handle.mem)
  /\ sent' = sent \ {s}
  /\ UNCHANGED <<mem, bo, map>>

(* gbm_import refuses a handle with no descriptor; the descriptor stays    *)
(* the handle's.                                                           *)
Register(c) ==
  LET h == handle[c] IN
  /\ h # NULL /\ bo[c] = NULL /\ h.mem # NULL
  /\ bo' = [bo EXCEPT ![c] = ObjectOf(h, h.mem, ImportSize(h.d))]
  /\ UNCHANGED <<mem, handle, fds, sent, map>>

Unregister(c) ==
  /\ bo[c] # NULL /\ map[c] = NULL
  /\ bo' = [bo EXCEPT ![c] = NULL]
  /\ UNCHANGED <<handle, fds, sent, map>>
  /\ Settle

Delete(c) ==
  /\ handle[c] # NULL /\ bo[c] = NULL
  /\ fds' = Closed(c)
  /\ handle' = [handle EXCEPT ![c] = NULL]
  /\ UNCHANGED <<bo, sent, map>>
  /\ Settle

SlipFdsAfterFree == fds   \* native_handle_close dropped

SlipFdsAfterTwoCloses ==   \* prime_fd closed by hand as well
  LET m == handle[Allocator].mem
  IN IF m = NULL THEN fds ELSE [fds EXCEPT ![Allocator][m] = @ - 2]

FdsAfterFree == Closed(Allocator)

(* gbm_mod_free_gpu0 *)
Free ==
  /\ handle[Allocator] # NULL /\ map[Allocator] = NULL
  /\ bo' = [bo EXCEPT ![Allocator] = NULL]
  /\ fds' = FdsAfterFree
  /\ handle' = [handle EXCEPT ![Allocator] = NULL]
  /\ UNCHANGED <<sent, map>>
  /\ Settle
-----------------------------------------------------------------------------
(* Callers lock a rectangle of the buffer as they know it.                 *)
Rects(d) ==
  {r \in [x : 0 .. d.width, y : 0 .. d.height, w : 1 .. d.width, h : 1 .. d.height] :
     r.x + r.w <= d.width /\ r.y + r.h <= d.height}

(* The CPU lock, granted, and what it maps.                                *)
BoLock(p, u, r) ==
  LET d == handle[p].d IN
  /\ bo[p] # NULL /\ map[p] = NULL
  /\ Permitted(d.usage, u)
  /\ map' = [map EXCEPT ![p] = [usage |-> u, rect |-> r, size |-> MapSize(d.format, r)]]
  /\ UNCHANGED <<mem, handle, fds, bo, sent>>

BoUnlock(p) ==
  /\ map[p] # NULL
  /\ map' = [map EXCEPT ![p] = NULL]
  /\ UNCHANGED <<mem, handle, fds, bo, sent>>

(* A process dies and comes back with nothing; the kernel closes what it   *)
(* had, and a message to it is dropped.                                    *)
Die(p) ==
  /\ handle' = [handle EXCEPT ![p] = NULL]
  /\ fds' = [fds EXCEPT ![p] = [m \in Mems |-> 0]]
  /\ bo' = [bo EXCEPT ![p] = NULL]
  /\ map' = [map EXCEPT ![p] = NULL]
  /\ sent' = {s \in sent : s.to # p}
  /\ Settle

Next ==
  \/ \E m \in Mems, d \in Descriptions, pad \in Pads :
       \E fd \in {m} \cup {n \in {NULL} : d \in FdMayFail} : Alloc(m, d, pad, fd)
  \/ \E c \in Clients : Send(c) \/ Register(c) \/ Unregister(c) \/ Delete(c)
  \/ \E s \in sent : Receive(s)
  \/ Free
  \/ \E p \in Procs :
       \/ BoUnlock(p) \/ Die(p)
       \/ /\ handle[p] # NULL
          /\ \E u \in LockUsages, r \in Rects(handle[p].d) : BoLock(p, u, r)

Spec == Init /\ [][Next]_vars
-----------------------------------------------------------------------------
(* Properties *)

TypeOK ==
  /\ mem \in [Mems -> Memory \cup {NULL}]
  /\ handle \in [Procs -> Handle \cup {NULL}]
  /\ fds \in [Procs -> [Mems -> Nat]]
  /\ bo \in [Procs -> Object \cup {NULL}]
  /\ sent \subseteq [to : Clients, handle : Handle]
  /\ map \in [Procs -> Lock \cup {NULL}]

Handles == {handle[p] : p \in {q \in Procs : handle[q] # NULL}}
             \cup {s.handle : s \in sent}

(* Handles with the memory they stand for: through the descriptor in them, *)
(* or through the buffer object their process has for them.                *)
Views == {<<h, h.mem>> : h \in {g \in Handles : g.mem # NULL}}
           \cup {<<handle[p], bo[p].mem>> : p \in {q \in Procs : bo[q] # NULL}}

(* Whatever is freed and whoever dies, a handle that somebody has or will  *)
(* get still has its memory, and what an import makes of its description   *)
(* is what the memory was created as: size, format and stride.             *)
HandlesDescribeMemory ==
  \A v \in Views : LET h == v[1]
                       b == mem[v[2]]
                   IN /\ b # NULL
                      /\ ImportSize(h.d) = b.size
                      /\ get_gbm_format(h.d.format) = b.gbm_format /\ h.stride = b.stride

(* The memory of a buffer is gone once its last user has given it back or  *)
(* died, the one whose handle got no descriptor included: a process has no *)
(* descriptor but that of its handle, once, and a buffer object only while *)
(* it has the handle; only the allocator's may be without a descriptor.    *)
MemoryIsReturned ==
  /\ \A p \in Procs, m \in Mems :
       fds[p][m] = IF handle[p] # NULL /\ handle[p].mem = m THEN 1 ELSE 0
  /\ \A p \in Procs : bo[p] # NULL =>
       /\ handle[p] # NULL
       /\ handle[p].mem = bo[p].mem \/ (p = Allocator /\ handle[p].mem = NULL)
  /\ \A m \in Mems : mem[m] # NULL => \E v \in Views : v[2] = m

(* The stride in pixels the caller works with is defined (the division of  *)
(* line 386), holds a row of the buffer, and takes the caller to no row    *)
(* past the memory, the chroma planes of YV12 included.  Only a YV12       *)
(* buffer of odd width may miss its last column: the halving drops it.     *)
PixelsInMemory ==
  \A v \in Views :
    LET h      == v[1]
        b      == mem[v[2]]
        bpp    == gralloc_gbm_get_bpp(h.d.format)
        planar == h.d.format = "YV12"
        rows   == IF planar THEN h.d.height + h.d.height \div 2 ELSE h.d.height
    IN /\ bpp > 0
       /\ h.d.width <= h.pixels + (IF planar THEN h.d.width % 2 ELSE 0)
       /\ rows * (h.pixels * bpp) <= b.size.rows * b.stride

(* What a lock maps, told by the bytes the caller asked for and the bytes  *)
(* the driver maps, whose pixels differ for YV12.  The rows of the         *)
(* rectangle are mapped up to its right edge, those of the first plane for *)
(* YV12, but for the last column of a YV12 rectangle of odd width at the   *)
(* left edge: the halving drops it.  A YV12 lock at the origin maps the    *)
(* chroma planes in full if and only if it is of the whole buffer, that    *)
(* dropped column apart: a lock of a part has none or some of its chroma.  *)
(* No row past the buffer is mapped, and no column but for YV12 with an    *)
(* offset to the right ("can't map with offset for planar", and does): the *)
(* offset is not halved.  Of the chroma of a YV12 rectangle with an offset *)
(* nothing is said.                                                        *)
MapCoversLock ==
  \A p \in Procs : map[p] # NULL =>
    LET d      == handle[p].d
        r      == map[p].rect
        z      == map[p].size
        planar == d.format = "YV12"
        asked  == (r.x + r.w) * gralloc_gbm_get_bpp(d.format)
        mapped == z.cols * GbmCpp(bo[p].gbm_format)
        lost   == IF planar /\ r.x = 0 THEN r.w % 2 ELSE 0
    IN /\ asked - lost <= mapped /\ r.y + r.h <= z.rows
       /\ planar /\ r.x = 0 /\ r.y = 0 =>
            (z = bo[p].size <=> r.h = d.height /\ 2 * (d.width \div 2) <= r.w)
       /\ z.rows <= bo[p].size.rows
       /\ ~planar \/ r.x = 0 => z.cols <= bo[p].size.cols

(* The CPU gets at a buffer only if it was laid out in rows, or is one of  *)
(* those for the display or a texture that the lock lets through: the      *)
(* binding chosen in one process and the test made in another agree, for   *)
(* rare and frequent use.                                                  *)
CpuSeesRows ==
  \A p \in Procs : map[p] # NULL =>
    \/ "LINEAR" \in mem[bo[p].mem].bind
    \/ handle[p].d.usage \cap {"FB", "TEXTURE"} # {}

HoldersOf(m) ==
  {p \in Procs : \/ handle[p] # NULL /\ handle[p].mem = m
                 \/ bo[p] # NULL /\ bo[p].mem = m}

ComingTo(m) == {p \in Procs : \E s \in sent : s.to = p /\ s.handle.mem = m}

(* Handles, descriptors and buffer objects together implement the memory   *)
(* of module SharedMemory: no step of any process changes or frees what    *)
(* another one has, and the last one to leave frees it.                    *)
Promise == INSTANCE SharedMemory
  WITH made <- mem,
       holds <- [m \in Mems |-> HoldersOf(m)],
       coming <- [m \in Mems |-> ComingTo(m)]

ImplementsSharedMemory == Promise!Spec
=============================================================================
