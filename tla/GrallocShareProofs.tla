------------------------- MODULE GrallocShareProofs -------------------------
(***************************************************************************)
(* Proofs of the properties of GrallocShare for any processes, memory,     *)
(* descriptions, paddings and usages.                                      *)
(*                                                                         *)
(* What ties the processes together is Described: every handle, wherever   *)
(* it is, describes the memory it stands for as gbm_alloc made it.  It is  *)
(* preserved because a handle stands for memory only through a descriptor  *)
(* that comes with it, or through the buffer object its process has made   *)
(* of it (the one left to an allocator whose gbm_bo_get_fd failed): either *)
(* keeps the kernel from freeing the memory (FdsInv).  Buffer objects and  *)
(* locks hang on the handles (BoInv, MapInv).  At the end, that            *)
(* GrallocShare implements SharedMemory.                                   *)
(***************************************************************************)
EXTENDS GrallocShare, TLAPS

(* Handle h stands for memory m.                                           *)
Has(h, m) ==
  \/ \E p \in Procs :
       /\ handle[p] # NULL /\ h = handle[p]
       /\ h.mem = m \/ (bo[p] # NULL /\ bo[p].mem = m)
  \/ \E s \in sent : h = s.handle /\ h.mem = m

(* A handle and its memory, as Alloc leaves them.                          *)
Describes(h, b) ==
  /\ b = [size |-> ImportSize(h.d), gbm_format |-> get_gbm_format(h.d.format),
          stride |-> h.stride, bind |-> get_pipe_bind(h.d.usage)]
  /\ get_gbm_format(h.d.format) # "none"
  /\ h.stride >= ImportSize(h.d).cols * GbmCpp(get_gbm_format(h.d.format))
  /\ h.pixels = PixelStride(h.stride, h.d.format)

Described ==
  \A h \in Handle, m \in Mems : Has(h, m) => mem[m] # NULL /\ Describes(h, mem[m])

(* What of one piece of memory is passed around is one handle: Receive     *)
(* takes all of it out of the messages to its process.                     *)
OneHandle == \A g, h \in Handle, m \in Mems : Has(g, m) /\ Has(h, m) => g = h

BoInv ==
  \A p \in Procs : bo[p] # NULL =>
    handle[p] # NULL /\ bo[p] = ObjectOf(handle[p], bo[p].mem, ImportSize(handle[p].d))

MapInv ==
  \A p \in Procs : map[p] # NULL =>
    /\ bo[p] # NULL
    /\ map[p].rect \in Rects(handle[p].d)
    /\ map[p].size = MapSize(handle[p].d.format, map[p].rect)
    /\ Permitted(handle[p].d.usage, map[p].usage) /\ map[p].usage \cap SwBits # {}

(* MemoryIsReturned, in the terms of Has.                                  *)
FdsInv ==
  /\ \A p \in Procs, m \in Mems :
       fds[p][m] = IF handle[p] # NULL /\ handle[p].mem = m THEN 1 ELSE 0
  /\ \A p \in Procs : bo[p] # NULL =>
       /\ handle[p] # NULL
       /\ handle[p].mem = bo[p].mem \/ (p = Allocator /\ handle[p].mem = NULL)

Backed == \A m \in Mems : mem[m] # NULL => \E h \in Handle : Has(h, m)

MemType  == mem \in [Mems -> Memory \cup {NULL}]
RestType ==
  /\ handle \in [Procs -> Handle \cup {NULL}]
  /\ fds \in [Procs -> [Mems -> Nat]]
  /\ bo \in [Procs -> Object \cup {NULL}]
  /\ sent \subseteq [to : Clients, handle : Handle]
  /\ map \in [Procs -> Lock \cup {NULL}]

IInv ==
  /\ MemType /\ RestType /\ Described /\ OneHandle
  /\ FdsInv /\ Backed /\ BoInv /\ MapInv
-----------------------------------------------------------------------------
(* The cursor's minimum size is never asked for, so an import tells the    *)
(* driver what the allocation asked for.                                   *)
LEMMA SizesAgree == ASSUME NEW d PROVE AllocSize(d) = ImportSize(d)
<1>1. "CURSOR" \notin get_pipe_bind(d.usage)
  BY DEF get_pipe_bind, CursorBound
<1> QED BY <1>1 DEF AllocSize, ImportSize

(* Sizes of a description are sizes.                                       *)
LEMMA SizeType ==
  ASSUME NEW d \in Description
  PROVE  ImportSize(d) \in Size
<1>1. d.width \in Nat /\ d.height \in Nat
  BY DEF Description
<1>2. d.width \div 2 \in Nat /\ d.height \div 2 \in Nat
  BY <1>1
<1> QED BY <1>1, <1>2 DEF ImportSize, ChromaRows, Size

(* The formats gbm knows have as many bytes per pixel here as there, but   *)
(* for YV12, of which only the first plane counts.                         *)
LEMMA Bytes ==
  ASSUME NEW f \in Formats, get_gbm_format(f) # "none"
  PROVE  /\ get_gbm_format(f) \in GbmFormats
         /\ f = "YV12" => gralloc_gbm_get_bpp(f) = 1 /\ GbmCpp(get_gbm_format(f)) = 2
         /\ f # "YV12" => /\ gralloc_gbm_get_bpp(f) \in {2, 3, 4}
                          /\ GbmCpp(get_gbm_format(f)) = gralloc_gbm_get_bpp(f)
<1>1. f \in {"RGBA_8888", "RGBX_8888", "RGB_888", "RGB_565", "BGRA_8888", "YV12"}
  BY DEF Formats, get_gbm_format
<1>2. CASE f = "YV12"
  BY <1>2 DEF get_gbm_format, gralloc_gbm_get_bpp, GbmCpp, GbmFormats
<1>3. CASE f = "RGB_888"
  BY <1>3 DEF get_gbm_format, gralloc_gbm_get_bpp, GbmCpp, GbmFormats
<1>4. CASE f = "RGB_565"
  BY <1>4 DEF get_gbm_format, gralloc_gbm_get_bpp, GbmCpp, GbmFormats
<1>5. CASE f \in {"RGBA_8888", "RGBX_8888", "BGRA_8888"}
  BY <1>5 DEF get_gbm_format, gralloc_gbm_get_bpp, GbmCpp, GbmFormats
<1> QED BY <1>1, <1>2, <1>3, <1>4, <1>5

(* Views is the set of handles with the memory they stand for.             *)
LEMMA ViewsAreHad ==
  ASSUME TypeOK, FdsInv
  PROVE  /\ \A v \in Views : \E h \in Handle, m \in Mems : v = <<h, m>> /\ Has(h, m)
         /\ \A h \in Handle, m \in Mems : Has(h, m) => <<h, m>> \in Views
<1>1. NULL \notin Mems /\ NULL \notin Handle
  BY ShareAssumption
<1>2. ASSUME NEW v \in Views
      PROVE  \E h \in Handle, m \in Mems : v = <<h, m>> /\ Has(h, m)
  <2>1. CASE \E h \in Handles : h.mem # NULL /\ v = <<h, h.mem>>
    <3>1. PICK h \in Handles : h.mem # NULL /\ v = <<h, h.mem>>
      BY <2>1
    <3>2. h \in Handle /\ h.mem \in Mems
      BY <1>1, <3>1 DEF TypeOK, Handles, Handle
    <3>3. Has(h, h.mem)
      BY <3>1 DEF Handles, Has
    <3> QED BY <3>1, <3>2, <3>3
  <2>2. CASE \E p \in Procs : bo[p] # NULL /\ v = <<handle[p], bo[p].mem>>
    <3>1. PICK p \in Procs : bo[p] # NULL /\ v = <<handle[p], bo[p].mem>>
      BY <2>2
    <3>2. handle[p] # NULL /\ handle[p] \in Handle /\ bo[p].mem \in Mems
      BY <3>1 DEF FdsInv, TypeOK, Object
    <3>3. Has(handle[p], bo[p].mem)
      BY <3>1, <3>2 DEF Has
    <3> QED BY <3>1, <3>2, <3>3
  <2> QED BY <2>1, <2>2 DEF Views
<1>3. ASSUME NEW h \in Handle, NEW m \in Mems, Has(h, m)
      PROVE  <<h, m>> \in Views
  <2>1. CASE h.mem = m
    <3>1. h \in Handles
      BY <1>3 DEF Has, Handles
    <3> QED BY <1>1, <2>1, <3>1 DEF Views
  <2>2. CASE \E p \in Procs : h = handle[p] /\ bo[p] # NULL /\ bo[p].mem = m
    BY <2>2 DEF Views
  <2> QED BY <1>3, <2>1, <2>2 DEF Has
<1> QED BY <1>2, <1>3

(* A process gets, or loses, a descriptor of one piece of memory or none.  *)
LEMMA OpenedCounts ==
  ASSUME RestType, NEW p \in Procs, NEW m \in Mems \cup {NULL}
  PROVE  /\ Opened(p, m) \in [Procs -> [Mems -> Nat]]
         /\ \A q \in Procs, n \in Mems :
              Opened(p, m)[q][n] = IF q = p /\ n = m THEN fds[q][n] + 1 ELSE fds[q][n]
<1>1. NULL \notin Mems
  BY ShareAssumption
<1>2. CASE m = NULL
  BY <1>1, <1>2 DEF Opened, RestType
<1>3. CASE m # NULL
  <2>1. Opened(p, m) = [fds EXCEPT ![p][m] = @ + 1]
    BY <1>3 DEF Opened
  <2>2. m \in Mems /\ fds \in [Procs -> [Mems -> Nat]]
    BY <1>3 DEF RestType
  <2>3. ASSUME NEW q \in Procs, NEW n \in Mems
        PROVE  Opened(p, m)[q][n] = IF q = p /\ n = m THEN fds[q][n] + 1 ELSE fds[q][n]
    BY <2>1, <2>2
  <2>4. Opened(p, m) \in [Procs -> [Mems -> Nat]]
    BY <2>1, <2>2
  <2> QED BY <2>3, <2>4
<1> QED BY <1>2, <1>3

LEMMA ClosedCounts ==
  ASSUME RestType, FdsInv, NEW p \in Procs, handle[p] # NULL
  PROVE  /\ Closed(p) \in [Procs -> [Mems -> Nat]]
         /\ \A q \in Procs, n \in Mems :
              Closed(p)[q][n] = IF q = p THEN 0 ELSE fds[q][n]
<1> DEFINE m == handle[p].mem
<1>1. NULL \notin Mems /\ m \in Mems \cup {NULL}
  BY ShareAssumption DEF RestType, Handle
<1>2. \A n \in Mems : fds[p][n] = IF m = n THEN 1 ELSE 0
  BY DEF FdsInv
<1>3. CASE m = NULL
  <2>1. Closed(p) = fds
    BY <1>3 DEF Closed
  <2> QED BY <1>1, <1>2, <1>3, <2>1 DEF RestType
<1>4. CASE m # NULL
  <2>1. Closed(p) = [fds EXCEPT ![p][m] = @ - 1]
    BY <1>4 DEF Closed
  <2>2. m \in Mems /\ fds[p][m] = 1
    BY <1>1, <1>2, <1>4
  <2> HIDE DEF m
  <2> QED BY <1>2, <2>1, <2>2 DEF RestType
<1> QED BY <1>3, <1>4
-----------------------------------------------------------------------------
(* Nothing exists at first.                                                *)
LEMMA InitIInv == Init => IInv
<1> SUFFICES ASSUME Init PROVE IInv
  OBVIOUS
<1> USE DEF Init
<1>1. MemType /\ RestType
  BY DEF MemType, RestType
<1>2. Described /\ OneHandle /\ FdsInv /\ Backed /\ BoInv /\ MapInv
  BY DEF Described, OneHandle, FdsInv, Backed, BoInv, MapInv, Has
<1> QED BY <1>1, <1>2 DEF IInv

(* What the kernel does after a step that makes no handle: it keeps the    *)
(* memory of every handle that is left and frees the rest.                 *)
LEMMA SettleStep ==
  ASSUME MemType, Described, OneHandle, RestType', FdsInv', Settle,
         \A h \in Handle, m \in Mems : Has(h, m)' => Has(h, m)
  PROVE  MemType' /\ Described' /\ OneHandle' /\ Backed'
<1>1. MemType'
  BY DEF MemType, Settle
<1>2. ASSUME NEW h \in Handle, NEW m \in Mems, Has(h, m)'
      PROVE  mem'[m] = mem[m]
  <2>1. Referenced(m)'
    <3>1. CASE \E p \in Procs : handle'[p] # NULL /\ h = handle'[p] /\ h.mem = m
      BY <3>1 DEF FdsInv, Referenced
    <3>2. CASE \E p \in Procs : bo'[p] # NULL /\ bo'[p].mem = m
      BY <3>2 DEF Referenced
    <3>3. CASE \E x \in sent' : h = x.handle /\ h.mem = m
      BY <3>3 DEF Referenced
    <3> QED BY <1>2, <3>1, <3>2, <3>3 DEF Has
  <2> QED BY <2>1 DEF Settle
<1>3. Described'
  BY <1>2 DEF Described, Describes
<1>4. ASSUME NEW m \in Mems, mem'[m] # NULL
      PROVE  \E h \in Handle : Has(h, m)'
  <2>1. Referenced(m)'
    BY <1>4 DEF Settle
  <2>2. CASE \E p \in Procs : fds'[p][m] > 0 \/ (bo'[p] # NULL /\ bo'[p].mem = m)
    <3>1. PICK p \in Procs : fds'[p][m] > 0 \/ (bo'[p] # NULL /\ bo'[p].mem = m)
      BY <2>2
    <3>2. handle'[p] # NULL
          /\ (handle'[p].mem = m \/ (bo'[p] # NULL /\ bo'[p].mem = m))
      BY <3>1 DEF FdsInv
    <3> QED BY <3>2 DEF Has, RestType
  <2>3. CASE \E x \in sent' : x.handle.mem = m
    BY <2>3 DEF Has, RestType
  <2> QED BY <2>1, <2>2, <2>3 DEF Referenced
<1>5. Backed'
  BY <1>4 DEF Backed
<1>6. OneHandle'
  BY DEF OneHandle
<1> QED BY <1>1, <1>3, <1>5, <1>6
-----------------------------------------------------------------------------
(* The new handle describes the new memory, with a descriptor of it or     *)
(* only through the buffer object; nobody has another handle of it,        *)
(* because there was none.                                                 *)
LEMMA AllocStep ==
  ASSUME IInv, NEW m \in Mems, NEW d \in Descriptions, NEW pad \in Pads,
         NEW fd \in {m, NULL}, Alloc(m, d, pad, fd)
  PROVE  IInv' /\ handle'[Allocator] # NULL /\ bo'[Allocator] # NULL /\ mem'[m] # NULL
<1> DEFINE size   == AllocSize(d)
           gf     == get_gbm_format(d.format)
           stride == size.cols * GbmCpp(gf) + pad
           h      == [d |-> d, mem |-> fd, stride |-> stride,
                      pixels |-> PixelStride(stride, d.format)]
           b      == [size |-> size, gbm_format |-> gf, stride |-> stride,
                      bind |-> get_pipe_bind(d.usage)]
           o      == ObjectOf(h, m, size)
<1>1. d \in Description /\ d.format \in Formats /\ pad \in Nat
  BY ShareAssumption DEF Description
<1>2. size = ImportSize(d) /\ size \in Size /\ size.cols \in Nat
  BY <1>1, SizesAgree, SizeType DEF Size
<1>3. gf # "none" /\ gf \in GbmFormats
      /\ GbmCpp(gf) \in Nat /\ gralloc_gbm_get_bpp(d.format) \in Nat \ {0}
  BY <1>1, Bytes DEF Alloc
<1>4. stride \in Nat /\ stride >= size.cols * GbmCpp(gf)
  <2>1. size.cols * GbmCpp(gf) \in Nat
    BY <1>2, <1>3
  <2> QED BY <1>1, <2>1
<1>5. PixelStride(stride, d.format) \in Nat
  BY <1>3, <1>4 DEF PixelStride
<1>6. h \in Handle /\ b \in Memory /\ h # NULL /\ b # NULL
  BY <1>1, <1>2, <1>3, <1>4, <1>5, ShareAssumption DEF Handle, Memory, get_pipe_bind
<1>7. o \in Object /\ o # NULL
  BY <1>1, <1>2, <1>3, <1>4, ShareAssumption DEF ObjectOf, Object
<1>8. /\ handle[Allocator] = NULL /\ mem[m] = NULL
      /\ mem' = [mem EXCEPT ![m] = b]
      /\ handle' = [handle EXCEPT ![Allocator] = h]
      /\ fds' = Opened(Allocator, fd)
      /\ bo' = [bo EXCEPT ![Allocator] = o]
      /\ UNCHANGED <<sent, map>>
  BY DEF Alloc
<1>9. Allocator \in Procs /\ NULL \notin Mems
  BY ShareAssumption DEF Procs
<1>10. h.mem = fd /\ o.mem = m /\ h.d = d /\ o = ObjectOf(h, o.mem, ImportSize(h.d))
  BY <1>2 DEF ObjectOf
<1>11. h.mem \in {m, NULL} /\ Describes(h, b)
  BY <1>2, <1>3, <1>4, <1>10 DEF Describes
<1> HIDE DEF h, b, o, stride, size, gf
<1>12. /\ handle'[Allocator] = h /\ bo'[Allocator] = o
       /\ \A p \in Procs \ {Allocator} : handle'[p] = handle[p] /\ bo'[p] = bo[p]
       /\ mem'[m] = b /\ \A n \in Mems \ {m} : mem'[n] = mem[n]
  BY <1>8, <1>9 DEF IInv, RestType, MemType
<1>13. /\ fds' \in [Procs -> [Mems -> Nat]]
       /\ \A q \in Procs, n \in Mems :
            fds'[q][n] = IF q = Allocator /\ n = fd THEN fds[q][n] + 1 ELSE fds[q][n]
  BY <1>8, <1>9, OpenedCounts DEF IInv
<1>14. MemType' /\ RestType'
  BY <1>6, <1>7, <1>8, <1>9, <1>13 DEF IInv, MemType, RestType
<1>15. ASSUME NEW g \in Handle, NEW n \in Mems, Has(g, n)'
       PROVE  (g = h /\ n = m) \/ (Has(g, n) /\ n # m)
  <2>1. CASE g = handle'[Allocator] /\ (g.mem = n \/ bo'[Allocator].mem = n)
    BY <1>9, <1>10, <1>11, <1>12, <2>1
  <2>2. CASE Has(g, n)
    BY <1>8, <2>2 DEF IInv, Described
  <2> QED BY <1>8, <1>12, <1>15, <2>1, <2>2 DEF Has
<1>16. Described'
  BY <1>6, <1>11, <1>12, <1>15 DEF IInv, Described, Describes
<1>17. OneHandle'
  BY <1>15 DEF IInv, OneHandle
<1>18. FdsInv'
  <2>1. \A n \in Mems : fds[Allocator][n] = 0
    BY <1>8, <1>9 DEF IInv, FdsInv
  <2>2. \A n \in Mems : fds'[Allocator][n] = IF h.mem = n THEN 1 ELSE 0
    BY <1>9, <1>10, <1>13, <2>1
  <2>3. \A q \in Procs \ {Allocator}, n \in Mems : fds'[q][n] = fds[q][n]
    BY <1>13
  <2> QED BY <1>6, <1>7, <1>10, <1>11, <1>12, <2>2, <2>3 DEF IInv, FdsInv
<1>19. Backed'
  <2>1. Has(h, m)' /\ h \in Handle
    BY <1>6, <1>7, <1>9, <1>10, <1>12 DEF Has
  <2>2. ASSUME NEW g \in Handle, NEW n \in Mems, Has(g, n) PROVE Has(g, n)'
    <3>1. CASE \E p \in Procs : /\ handle[p] # NULL /\ g = handle[p]
                                /\ g.mem = n \/ (bo[p] # NULL /\ bo[p].mem = n)
      <4>1. PICK p \in Procs : /\ handle[p] # NULL /\ g = handle[p]
                               /\ g.mem = n \/ (bo[p] # NULL /\ bo[p].mem = n)
        BY <3>1
      <4>2. handle'[p] = handle[p] /\ bo'[p] = bo[p]
        BY <1>8, <1>12, <4>1
      <4> QED BY <4>1, <4>2 DEF Has
    <3>2. CASE \E s \in sent : g = s.handle /\ g.mem = n
      BY <1>8, <3>2 DEF Has
    <3> QED BY <2>2, <3>1, <3>2 DEF Has
  <2> QED BY <1>12, <2>1, <2>2 DEF IInv, Backed
<1>20. BoInv'
  BY <1>6, <1>10, <1>12 DEF IInv, BoInv
<1>21. MapInv'
  BY <1>8, <1>12 DEF IInv, MapInv, BoInv
<1>22. handle'[Allocator] # NULL /\ bo'[Allocator] # NULL /\ mem'[m] # NULL
  BY <1>6, <1>7, <1>12
<1> QED BY <1>14, <1>16, <1>17, <1>18, <1>19, <1>20, <1>21, <1>22 DEF IInv

(* A message has a handle that somebody had.                               *)
LEMMA SendStep ==
  ASSUME IInv, NEW c \in Clients, Send(c)
  PROVE  IInv'
<1> USE DEF IInv, Send
<1>1. Allocator \in Procs
  BY DEF Procs
<1>2. MemType' /\ RestType'
  BY <1>1 DEF MemType, RestType
<1>3. \A h \in Handle, m \in Mems : Has(h, m)' <=> Has(h, m)
  BY <1>1 DEF Has, RestType
<1>4. Described' /\ OneHandle' /\ Backed'
  BY <1>3 DEF Described, Describes, OneHandle, Backed
<1>5. FdsInv' /\ BoInv' /\ MapInv'
  BY DEF FdsInv, BoInv, MapInv
<1> QED BY <1>2, <1>4, <1>5

(* The receiver gets a descriptor with its handle, if there is one; it has *)
(* no buffer object yet.                                                   *)
LEMMA ReceiveStep ==
  ASSUME IInv, NEW s \in sent, Receive(s)
  PROVE  IInv'
<1> USE DEF IInv
<1>1. /\ s.to \in Procs /\ s.handle \in Handle /\ s.handle # NULL
      /\ s.handle.mem \in Mems \cup {NULL}
      /\ handle[s.to] = NULL /\ bo[s.to] = NULL /\ map[s.to] = NULL
  BY ShareAssumption DEF Receive, Procs, RestType, Handle, FdsInv, MapInv
<1>2. /\ handle'[s.to] = s.handle /\ \A p \in Procs \ {s.to} : handle'[p] = handle[p]
      /\ sent' = sent \ {s} /\ UNCHANGED <<mem, bo, map>>
  BY <1>1 DEF Receive, RestType
<1>3. /\ fds' \in [Procs -> [Mems -> Nat]]
      /\ \A q \in Procs, n \in Mems :
           fds'[q][n] = IF q = s.to /\ n = s.handle.mem THEN fds[q][n] + 1 ELSE fds[q][n]
  BY <1>1, OpenedCounts DEF Receive
<1>4. MemType' /\ RestType'
  BY <1>1, <1>3 DEF Receive, MemType, RestType
<1>5. \A h \in Handle, m \in Mems : Has(h, m)' <=> Has(h, m)
  <2>1. ASSUME NEW h \in Handle, NEW m \in Mems, Has(h, m)' PROVE Has(h, m)
    <3>1. CASE h = handle'[s.to] /\ h.mem = m
      BY <1>2, <3>1 DEF Has
    <3>2. CASE \E p \in Procs \ {s.to} :
                 /\ handle'[p] # NULL /\ h = handle'[p]
                 /\ h.mem = m \/ (bo'[p] # NULL /\ bo'[p].mem = m)
      BY <1>2, <3>2 DEF Has
    <3>3. CASE \E x \in sent' : h = x.handle /\ h.mem = m
      BY <1>2, <3>3 DEF Has
    <3> QED BY <1>1, <1>2, <2>1, <3>1, <3>2, <3>3 DEF Has
  <2>2. ASSUME NEW h \in Handle, NEW m \in Mems, Has(h, m) PROVE Has(h, m)'
    <3>1. CASE \E p \in Procs \ {s.to} :
                 /\ handle[p] # NULL /\ h = handle[p]
                 /\ h.mem = m \/ (bo[p] # NULL /\ bo[p].mem = m)
      BY <1>2, <3>1 DEF Has
    <3>2. CASE \E x \in sent \ {s} : h = x.handle /\ h.mem = m
      BY <1>2, <3>2 DEF Has
    <3>3. CASE h = s.handle /\ h.mem = m
      BY <1>1, <1>2, <3>3 DEF Has
    <3> QED BY <1>1, <2>2, <3>1, <3>2, <3>3 DEF Has
  <2> QED BY <2>1, <2>2
<1>6. Described' /\ OneHandle' /\ Backed'
  BY <1>2, <1>5 DEF Described, Describes, OneHandle, Backed
<1>7. FdsInv'
  BY <1>1, <1>2, <1>3 DEF FdsInv
<1>8. BoInv' /\ MapInv'
  BY <1>1, <1>2 DEF BoInv, MapInv
<1> QED BY <1>4, <1>6, <1>7, <1>8

(* An import is told what the allocation was, and of the memory the        *)
(* handle has a descriptor of.                                             *)
LEMMA RegisterStep ==
  ASSUME IInv, NEW c \in Clients, Register(c)
  PROVE  IInv'
<1> USE DEF IInv
<1> DEFINE h == handle[c]
           o == ObjectOf(h, h.mem, ImportSize(h.d))
<1>1. /\ c \in Procs /\ h \in Handle /\ h # NULL /\ h.mem \in Mems /\ bo[c] = NULL
      /\ h.d \in Description /\ h.d.format \in Formats
  BY DEF Register, Procs, RestType, Handle, Description
<1>2. o \in Object /\ o # NULL /\ o.mem = h.mem
  <2>1. Has(h, h.mem)
    BY <1>1 DEF Has
  <2>2. get_gbm_format(h.d.format) \in GbmFormats
    BY <1>1, <2>1, Bytes DEF Described, Describes
  <2> QED BY <1>1, <2>2, SizeType, ShareAssumption DEF ObjectOf, Object, Handle
<1>3. /\ bo' = [bo EXCEPT ![c] = o] /\ UNCHANGED <<mem, handle, fds, sent, map>>
  BY DEF Register
<1>4. o = ObjectOf(h, o.mem, ImportSize(h.d))
  BY <1>2
<1> HIDE DEF o
<1>5. bo'[c] = o /\ \A p \in Procs \ {c} : bo'[p] = bo[p]
  BY <1>1, <1>3 DEF RestType
<1>6. MemType' /\ RestType'
  BY <1>1, <1>2, <1>3 DEF MemType, RestType
<1>7. \A g \in Handle, m \in Mems : Has(g, m)' <=> Has(g, m)
  BY <1>1, <1>2, <1>3, <1>5 DEF Has
<1>8. Described' /\ OneHandle' /\ Backed'
  BY <1>3, <1>7 DEF Described, Describes, OneHandle, Backed
<1>9. FdsInv' /\ BoInv' /\ MapInv'
  BY <1>1, <1>2, <1>3, <1>4, <1>5 DEF FdsInv, BoInv, MapInv
<1> QED BY <1>6, <1>8, <1>9

(* The handle keeps the memory.                                            *)
LEMMA UnregisterStep ==
  ASSUME IInv, NEW c \in Clients, Unregister(c)
  PROVE  IInv'
<1> USE DEF IInv
<1>1. c \in Procs /\ map[c] = NULL /\ UNCHANGED <<handle, fds, sent, map>> /\ Settle
  BY DEF Procs, Unregister
<1>2. bo'[c] = NULL /\ \A p \in Procs \ {c} : bo'[p] = bo[p]
  BY <1>1 DEF Unregister, RestType
<1>3. RestType'
  BY <1>1 DEF Unregister, RestType
<1>4. \A h \in Handle, m \in Mems : Has(h, m)' => Has(h, m)
  BY <1>1, <1>2 DEF Has
<1>5. FdsInv' /\ BoInv' /\ MapInv'
  BY <1>1, <1>2 DEF FdsInv, BoInv, MapInv
<1> QED BY <1>1, <1>3, <1>4, <1>5, SettleStep

(* A process gives its handle back, with the descriptor it has, and has no *)
(* buffer object then.                                                     *)
LEMMA HandleGoesStep ==
  ASSUME IInv, NEW p \in Procs, handle[p] # NULL, map[p] = NULL,
         handle' = [handle EXCEPT ![p] = NULL], fds' = Closed(p),
         bo' = [bo EXCEPT ![p] = NULL], UNCHANGED <<sent, map>>, Settle
  PROVE  IInv'
<1> USE DEF IInv
<1>1. /\ handle'[p] = NULL /\ \A q \in Procs \ {p} : handle'[q] = handle[q]
      /\ bo'[p] = NULL /\ \A q \in Procs \ {p} : bo'[q] = bo[q]
  BY DEF RestType
<1>2. /\ fds' \in [Procs -> [Mems -> Nat]]
      /\ \A q \in Procs, n \in Mems : fds'[q][n] = IF q = p THEN 0 ELSE fds[q][n]
  BY ClosedCounts
<1>3. RestType'
  BY <1>2 DEF RestType
<1>4. \A h \in Handle, m \in Mems : Has(h, m)' => Has(h, m)
  BY <1>1 DEF Has
<1>5. FdsInv'
  BY <1>1, <1>2 DEF FdsInv
<1>6. BoInv' /\ MapInv'
  BY <1>1 DEF BoInv, MapInv
<1> QED BY <1>3, <1>4, <1>5, <1>6, SettleStep

LEMMA DeleteStep ==
  ASSUME IInv, NEW c \in Clients, Delete(c)
  PROVE  IInv'
<1>1. c \in Procs /\ map[c] = NULL
  BY DEF Delete, Procs, IInv, MapInv
<1>2. bo' = [bo EXCEPT ![c] = NULL]
  BY <1>1 DEF Delete, IInv, RestType
<1> QED BY <1>1, <1>2, HandleGoesStep DEF Delete

(* The allocator gives its part back; clients keep theirs.                 *)
LEMMA FreeStep ==
  ASSUME IInv, Free
  PROVE  IInv'
<1>1. Allocator \in Procs
  BY DEF Procs
<1> QED BY <1>1, HandleGoesStep DEF Free, FdsAfterFree

(* What a process had goes with it and nothing else does.                  *)
LEMMA DieStep ==
  ASSUME IInv, NEW p \in Procs, Die(p)
  PROVE  IInv'
<1> USE DEF IInv
<1>1. /\ handle'[p] = NULL /\ \A q \in Procs \ {p} : handle'[q] = handle[q]
      /\ bo'[p] = NULL /\ \A q \in Procs \ {p} : bo'[q] = bo[q]
      /\ map'[p] = NULL /\ \A q \in Procs \ {p} : map'[q] = map[q]
  BY DEF Die, RestType
<1>2. /\ \A n \in Mems : fds'[p][n] = 0
      /\ \A q \in Procs \ {p}, n \in Mems : fds'[q][n] = fds[q][n]
  BY DEF Die, RestType
<1>3. sent' \subseteq sent /\ Settle
  BY DEF Die
<1>4. RestType'
  BY DEF Die, RestType
<1>5. \A h \in Handle, m \in Mems : Has(h, m)' => Has(h, m)
  BY <1>1, <1>3 DEF Has
<1>6. FdsInv'
  BY <1>1, <1>2 DEF FdsInv
<1>7. BoInv' /\ MapInv'
  BY <1>1 DEF BoInv, MapInv
<1> QED BY <1>3, <1>4, <1>5, <1>6, <1>7, SettleStep

(* A lock is granted as the tests say.                                     *)
LEMMA BoLockStep ==
  ASSUME IInv, NEW p \in Procs, handle[p] # NULL,
         NEW u \in LockUsages, NEW r \in Rects(handle[p].d), BoLock(p, u, r)
  PROVE  IInv'
<1> USE DEF IInv, BoLock
<1> DEFINE d == handle[p].d
           l == [usage |-> u, rect |-> r, size |-> MapSize(d.format, r)]
<1>1. d.width \in Nat /\ d.height \in Nat
  BY DEF RestType, Handle, Description
<1>2. r \in Rect
  BY <1>1 DEF Rects, Rect
<1>3. MapSize(d.format, r) \in Size
  <2>1. r.x \in Nat /\ r.y \in Nat /\ r.w \in Nat /\ r.h \in Nat
    BY <1>2 DEF Rect
  <2>2. r.w \div 2 \in Nat /\ r.h \div 2 \in Nat
    BY <2>1
  <2> QED BY <2>1, <2>2 DEF MapSize, ChromaRows, Size
<1>4. l \in Lock /\ l # NULL
  BY <1>2, <1>3, ShareAssumption DEF Lock
<1>5. MemType' /\ RestType'
  BY <1>4 DEF MemType, RestType
<1>6. Described' /\ OneHandle' /\ Backed' /\ FdsInv' /\ BoInv'
  <2>1. Described' /\ OneHandle' /\ Backed'
    BY DEF OneHandle, Described, Describes, Backed, Has
  <2>2. FdsInv' /\ BoInv'
    BY DEF FdsInv, BoInv
  <2> QED BY <2>1, <2>2
<1>7. map' = [map EXCEPT ![p] = l] /\ UNCHANGED <<handle, bo>>
  OBVIOUS
<1>8. /\ Permitted(d.usage, l.usage) /\ l.usage \cap SwBits # {}
      /\ l.rect \in Rects(d) /\ l.size = MapSize(d.format, l.rect)
  BY ShareAssumption
<1>9. MapInv'
  <2> HIDE DEF IInv, BoLock, l, d
  <2> SUFFICES ASSUME NEW q \in Procs, map'[q] # NULL
               PROVE  /\ bo[q] # NULL
                      /\ map'[q].rect \in Rects(handle[q].d)
                      /\ map'[q].size = MapSize(handle[q].d.format, map'[q].rect)
                      /\ Permitted(handle[q].d.usage, map'[q].usage)
                      /\ map'[q].usage \cap SwBits # {}
    BY <1>7 DEF MapInv
  <2>1. CASE q = p
    <3>1. map'[q] = l
      BY <1>7, <2>1 DEF IInv, RestType
    <3> QED BY <3>1, <1>8, <2>1 DEF d, BoLock
  <2>2. CASE q # p
    <3>1. map'[q] = map[q]
      BY <1>7, <2>2 DEF IInv, RestType
    <3> QED BY <3>1 DEF IInv, MapInv
  <2> QED BY <2>1, <2>2
<1> QED BY <1>5, <1>6, <1>9

LEMMA BoUnlockStep ==
  ASSUME IInv, NEW p \in Procs, BoUnlock(p)
  PROVE  IInv'
<1> USE DEF IInv, BoUnlock
<1>1. MemType' /\ RestType'
  BY DEF MemType, RestType
<1>2. Described' /\ OneHandle' /\ Backed'
  BY DEF Described, Describes, OneHandle, Backed, Has
<1>3. FdsInv' /\ BoInv' /\ MapInv'
  BY DEF FdsInv, BoInv, MapInv, RestType
<1> QED BY <1>1, <1>2, <1>3
-----------------------------------------------------------------------------
(* Every step preserves the invariant.                                     *)
LEMMA NextIInv == IInv /\ [Next]_vars => IInv'
<1> SUFFICES ASSUME IInv, [Next]_vars PROVE IInv'
  OBVIOUS
<1>1. CASE UNCHANGED vars
  BY <1>1 DEF vars, IInv, MemType, RestType, Described, Describes, OneHandle, Backed, Has, FdsInv, BoInv, MapInv
<1>2. CASE \E m \in Mems, d \in Descriptions, pad \in Pads, fd \in Mems \cup {NULL} :
             fd \in {m, NULL} /\ Alloc(m, d, pad, fd)
  BY <1>2, AllocStep
<1>3. CASE \E c \in Clients : Send(c) \/ Register(c) \/ Unregister(c) \/ Delete(c)
  BY <1>3, SendStep, RegisterStep, UnregisterStep, DeleteStep
<1>4. CASE Free \/ \E s \in sent : Receive(s)
  BY <1>4, FreeStep, ReceiveStep
<1>5. CASE \E p \in Procs : BoUnlock(p) \/ Die(p)
  BY <1>5, BoUnlockStep, DieStep
<1>6. CASE \E p \in Procs : handle[p] # NULL
             /\ \E u \in LockUsages, r \in Rects(handle[p].d) : BoLock(p, u, r)
  BY <1>6, BoLockStep
<1> QED BY <1>1, <1>2, <1>3, <1>4, <1>5, <1>6 DEF Next

(* The invariant holds in every reachable state.                           *)
THEOREM IInvHolds == Spec => []IInv
  BY InitIInv, NextIInv, PTL DEF Spec

LEMMA IInvType == IInv => TypeOK
  BY DEF IInv, MemType, RestType, TypeOK

(* Every variable keeps its type: no count of descriptors falls below      *)
(* zero, no stride is divided by zero.                                     *)
THEOREM TypeCorrect == Spec => []TypeOK
  BY IInvHolds, IInvType, PTL

(* A handle describes memory that exists, as an import will see it.        *)
THEOREM HandlesDescribe == Spec => []HandlesDescribeMemory
<1>1. IInv => HandlesDescribeMemory
  <2> SUFFICES ASSUME IInv, NEW h \in Handle, NEW m \in Mems, Has(h, m)
               PROVE  /\ mem[m] # NULL
                      /\ ImportSize(h.d) = mem[m].size
                      /\ get_gbm_format(h.d.format) = mem[m].gbm_format
                      /\ h.stride = mem[m].stride
    BY IInvType, ViewsAreHad DEF HandlesDescribeMemory, IInv
  <2>1. mem[m] # NULL /\ Describes(h, mem[m])
    BY DEF IInv, Described
  <2> QED BY <2>1 DEF Describes
<1> QED BY <1>1, IInvHolds, PTL

(* Memory lasts exactly as long as somebody has a handle of it, and each   *)
(* process has the descriptor of its handle once, or none if the handle    *)
(* came without.                                                           *)
THEOREM MemoryIsGivenBack == Spec => []MemoryIsReturned
<1>1. ASSUME IInv, NEW m \in Mems, mem[m] # NULL
      PROVE  \E v \in Views : v[2] = m
  <2>1. PICK h \in Handle : Has(h, m)
    BY <1>1 DEF IInv, Backed
  <2>2. <<h, m>> \in Views
    BY <1>1, <2>1, IInvType, ViewsAreHad DEF IInv
  <2> QED BY <2>2
<1>2. IInv => MemoryIsReturned
  BY <1>1 DEF IInv, FdsInv, MemoryIsReturned
<1> QED BY <1>2, IInvHolds, PTL

(* A handle describes the memory its process has a buffer object on.       *)
LEMMA BoDescribed ==
  ASSUME IInv, NEW p \in Procs, bo[p] # NULL
  PROVE  Describes(handle[p], mem[bo[p].mem])
<1>1. handle[p] # NULL /\ handle[p] \in Handle /\ bo[p].mem \in Mems
  BY DEF IInv, FdsInv, RestType, Object
<1>2. ASSUME NEW h \in Handle, NEW m \in Mems, h = handle[p], m = bo[p].mem
      PROVE  Describes(h, mem[m])
  <2>1. Has(h, m)
    BY <1>1, <1>2 DEF Has
  <2> QED BY <2>1 DEF IInv, Described
<1> QED BY <1>1, <1>2

(* Buffers that can be locked for the CPU are laid out in rows, or for the *)
(* display or a texture.                                                   *)
THEOREM CpuLocksSeeRows == Spec => []CpuSeesRows
<1>1. ASSUME IInv, NEW p \in Procs, map[p] # NULL, handle[p].d.usage \cap {"FB", "TEXTURE"} = {}
      PROVE  "LINEAR" \in mem[bo[p].mem].bind
  <2> DEFINE made == handle[p].d.usage
  <2>1. made \cap SwBits # {}
    BY <1>1 DEF IInv, MapInv, Permitted, SwBits, SwReadOften, SwWriteOften
  <2>2. "LINEAR" \in get_pipe_bind(made)
    BY <2>1 DEF get_pipe_bind, CpuBound, GbmUses
  <2>3. Describes(handle[p], mem[bo[p].mem])
    BY <1>1, BoDescribed DEF IInv, MapInv
  <2>4. mem[bo[p].mem].bind = get_pipe_bind(made)
    BY <2>3 DEF Describes
  <2> QED BY <2>2, <2>4
<1>2. IInv => CpuSeesRows
  BY <1>1 DEF CpuSeesRows
<1> QED BY <1>2, IInvHolds, PTL

(* Half as many rows again keep the order of heights.                      *)
LEMMA HalfAgain ==
  ASSUME NEW a \in Nat, NEW b \in Nat, a <= b
  PROVE  /\ a + a \div 2 <= b + b \div 2
         /\ a + a \div 2 = b + b \div 2 <=> a = b
<1>1. a \div 2 \in Nat /\ b \div 2 \in Nat /\ a \div 2 <= b \div 2
  OBVIOUS
<1> QED BY <1>1

(* The rows of a lock's rectangle are mapped, but for the last column of   *)
(* an odd YV12 one; the chroma planes, from the origin, only by a lock of  *)
(* all of the buffer; no row past the buffer, and no column unless YV12    *)
(* has an offset to the right.                                             *)
THEOREM LocksAreCovered == Spec => []MapCoversLock
<1>1. ASSUME IInv, NEW p \in Procs, map[p] # NULL
      PROVE  LET d      == handle[p].d
                 r      == map[p].rect
                 z      == map[p].size
                 planar == d.format = "YV12"
                 asked  == (r.x + r.w) * gralloc_gbm_get_bpp(d.format)
                 mapped == z.cols * GbmCpp(bo[p].gbm_format)
                 lost   == IF planar /\ r.x = 0 THEN r.w % 2 ELSE 0
             IN /\ asked - lost <= mapped /\ r.y + r.h <= z.rows
                /\ planar /\ r.x = 0 /\ r.y = 0 =>
                     (z = bo[p].size <=> r.h = d.height /\ 2 * (d.width \div 2) <= r.w)
                /\ z.rows <= bo[p].size.rows
                /\ ~planar \/ r.x = 0 => z.cols <= bo[p].size.cols
  <2> DEFINE d   == handle[p].d
             r   == map[p].rect
             z   == map[p].size
             bpp == gralloc_gbm_get_bpp(d.format)
             cpp == GbmCpp(bo[p].gbm_format)
  <2>1. /\ handle[p] \in Handle /\ handle[p] # NULL /\ bo[p] # NULL /\ bo[p].mem \in Mems
        /\ d.width \in Nat /\ d.height \in Nat /\ d.format \in Formats
    BY <1>1 DEF IInv, MapInv, BoInv, RestType, Handle, Object, Description
  <2>2. /\ r.x \in Nat /\ r.y \in Nat /\ r.w \in Nat /\ r.h \in Nat
        /\ r.x + r.w <= d.width /\ r.y + r.h <= d.height
    BY <1>1, <2>1 DEF IInv, MapInv, Rects
  <2>3. z = MapSize(d.format, r)
    BY <1>1 DEF IInv, MapInv
  <2>4. bo[p].size = ImportSize(d) /\ bo[p].gbm_format = get_gbm_format(d.format)
    <3>1. bo[p] = ObjectOf(handle[p], bo[p].mem, ImportSize(d))
      BY <1>1, <2>1 DEF IInv, BoInv
    <3> HIDE DEF d
    <3>2. /\ ObjectOf(handle[p], bo[p].mem, ImportSize(d)).size = ImportSize(d)
          /\ ObjectOf(handle[p], bo[p].mem, ImportSize(d)).gbm_format
               = get_gbm_format(handle[p].d.format)
      BY DEF ObjectOf
    <3> QED BY <3>1, <3>2 DEF d
  <2>5. get_gbm_format(d.format) # "none"
    <3>1. Describes(handle[p], mem[bo[p].mem])
      BY <2>1, <1>1, BoDescribed
    <3> QED BY <3>1 DEF Describes
  <2>6. CASE d.format # "YV12"
    <3>1. z.cols = r.x + r.w /\ z.rows = r.y + r.h
      BY <2>3, <2>6 DEF MapSize
    <3>2. bo[p].size.cols = d.width /\ bo[p].size.rows = d.height
      BY <2>4, <2>6 DEF ImportSize
    <3>3. bpp \in {2, 3, 4} /\ cpp = bpp
      BY <2>1, <2>4, <2>5, <2>6, Bytes
    <3> HIDE DEF d, r, z, bpp, cpp
    <3>4. (r.x + r.w) * bpp - 0 <= z.cols * cpp
      BY <2>2, <3>1, <3>3
    <3> QED BY <2>2, <2>6, <3>1, <3>2, <3>4 DEF d, r, z, bpp, cpp
  <2>7. CASE d.format = "YV12"
    <3>1. z = [cols |-> r.x + r.w \div 2, rows |-> r.y + r.h + r.h \div 2]
      BY <2>3, <2>7 DEF MapSize, ChromaRows
    <3>2. bo[p].size = [cols |-> d.width \div 2, rows |-> d.height + d.height \div 2]
      BY <2>4, <2>7 DEF ImportSize, ChromaRows
    <3>3. bpp = 1 /\ cpp = 2
      BY <2>1, <2>4, <2>5, <2>7, Bytes
    <3> DEFINE s == bo[p].size
    <3>4. z.cols = r.x + r.w \div 2 /\ z.rows = r.y + r.h + r.h \div 2
      BY <3>1
    <3>5. s.cols = d.width \div 2 /\ s.rows = d.height + d.height \div 2
      BY <3>2
    <3>6. z = s <=> z.cols = s.cols /\ z.rows = s.rows
      BY <3>1, <3>2
    <3> HIDE DEF d, r, z, s, bpp, cpp
    <3>7. (r.x + r.w) * bpp - (IF r.x = 0 THEN r.w % 2 ELSE 0) <= z.cols * cpp
      BY <2>2, <3>3, <3>4
    <3>8. r.y + r.h <= z.rows
      BY <2>2, <3>4
    <3>9. r.x = 0 => z.cols <= s.cols /\ (z.cols = s.cols <=> 2 * (d.width \div 2) <= r.w)
      <4>1. r.x = 0 => r.w <= d.width
        BY <2>2
      <4>2. d.width \in Nat /\ r.w \in Nat
        BY <2>1, <2>2 DEF d
      <4> QED BY <3>4, <3>5, <4>1, <4>2
    <3>10. z.rows <= s.rows
      <4>1. r.h <= d.height /\ r.y \in Nat /\ r.h \in Nat /\ d.height \in Nat
        BY <2>1, <2>2 DEF d
      <4>2. r.h \div 2 \in Nat /\ d.height \div 2 \in Nat /\ r.h \div 2 <= d.height \div 2
        BY <4>1
      <4>3. r.y + r.h <= d.height
        BY <2>2
      <4> QED BY <3>4, <3>5, <4>1, <4>2, <4>3
    <3>11. r.y = 0 => (z.rows = s.rows <=> r.h = d.height)
      <4>1. r.y = 0 => r.h <= d.height
        BY <2>2
      <4>2. d.height \in Nat /\ r.h \in Nat
        BY <2>1, <2>2 DEF d
      <4>3. r.y = 0 => z.rows = r.h + r.h \div 2
        BY <3>4, <4>2
      <4> QED BY <3>5, <4>1, <4>2, <4>3, HalfAgain
    <3> QED BY <2>7, <3>6, <3>7, <3>8, <3>9, <3>10, <3>11 DEF d, r, z, s, bpp, cpp
  <2> QED BY <2>6, <2>7
<1>2. IInv => MapCoversLock
  BY <1>1 DEF MapCoversLock
<1> QED BY <1>2, IInvHolds, PTL

(* Dividing by the bytes of a pixel and multiplying again.                 *)
LEMMA DivideStride ==
  ASSUME NEW n \in Nat, NEW k \in {1, 2, 3, 4}
  PROVE  /\ n \div k \in Nat /\ (n \div k) * k <= n
         /\ \A w \in Nat : w * k <= n => w <= n \div k
<1>1. CASE k = 1
  BY <1>1
<1>2. CASE k = 2
  BY <1>2
<1>3. CASE k = 3
  BY <1>3
<1>4. CASE k = 4
  BY <1>4
<1> QED BY <1>1, <1>2, <1>3, <1>4

(* Shorter rows take no more room.                                         *)
LEMMA RowsOf ==
  ASSUME NEW rows \in Nat, NEW n \in Nat, NEW k \in Nat, n <= k
  PROVE  rows * n <= rows * k
  OBVIOUS

(* The stride in pixels is one a caller can work with: it holds a row, and *)
(* all rows end inside the memory.                                         *)
THEOREM PixelsStayInMemory == Spec => []PixelsInMemory
<1>1. ASSUME IInv, NEW h \in Handle, NEW m \in Mems, Has(h, m)
      PROVE  /\ gralloc_gbm_get_bpp(h.d.format) > 0
             /\ h.d.width <= h.pixels + (IF h.d.format = "YV12" THEN h.d.width % 2 ELSE 0)
             /\ (IF h.d.format = "YV12" THEN h.d.height + h.d.height \div 2 ELSE h.d.height)
                  * (h.pixels * gralloc_gbm_get_bpp(h.d.format))
                  <= mem[m].size.rows * mem[m].stride
  <2> DEFINE bpp == gralloc_gbm_get_bpp(h.d.format)
             cpp == GbmCpp(get_gbm_format(h.d.format))
  <2>1. Describes(h, mem[m])
    BY <1>1 DEF IInv, Described
  <2>2. /\ mem[m].size = ImportSize(h.d) /\ mem[m].stride = h.stride
        /\ get_gbm_format(h.d.format) # "none" /\ h.stride >= ImportSize(h.d).cols * cpp
        /\ h.pixels = h.stride \div bpp
    BY <2>1 DEF Describes, PixelStride
  <2>3. h.d.format \in Formats /\ h.d.width \in Nat /\ h.d.height \in Nat /\ h.stride \in Nat
    BY DEF Handle, Description
  <2>4. CASE h.d.format # "YV12"
    <3>1. bpp \in {1, 2, 3, 4} /\ cpp = bpp
      BY <2>2, <2>3, <2>4, Bytes
    <3>2. h.d.width * bpp <= h.stride
      BY <2>2, <2>4, <3>1 DEF ImportSize
    <3>3. h.pixels \in Nat /\ h.pixels * bpp <= h.stride /\ h.d.width <= h.pixels
      <4> HIDE DEF bpp
      <4> QED BY <2>2, <2>3, <3>1, <3>2, DivideStride
    <3>4. h.pixels * bpp \in Nat
      BY <3>1, <3>3
    <3>5. h.d.height * (h.pixels * bpp) <= h.d.height * h.stride
      BY <2>3, <3>3, <3>4, RowsOf
    <3>6. mem[m].size.rows = h.d.height
      BY <2>2, <2>4 DEF ImportSize
    <3>7. bpp > 0
      BY <3>1
    <3> QED BY <2>2, <2>3, <2>4, <3>3, <3>5, <3>6, <3>7
  <2>5. CASE h.d.format = "YV12"
    <3>1. bpp = 1 /\ cpp = 2
      BY <2>2, <2>3, <2>5, Bytes
    <3>2. ImportSize(h.d) = [cols |-> h.d.width \div 2, rows |-> h.d.height + h.d.height \div 2]
      BY <2>5 DEF ImportSize, ChromaRows
    <3>3. (h.d.width \div 2) * 2 <= h.stride
      BY <2>2, <3>1, <3>2
    <3>4. h.pixels = h.stride
      BY <2>2, <2>3, <3>1
    <3>5. h.d.width <= h.pixels + (h.d.width % 2)
      BY <2>3, <3>3, <3>4
    <3>6. mem[m].size.rows = h.d.height + h.d.height \div 2
      BY <2>2, <3>2
    <3>7. h.pixels * bpp = h.stride /\ bpp > 0
      BY <2>3, <3>1, <3>4
    <3>8. h.d.height \div 2 \in Nat
      BY <2>3
    <3>9. (h.d.height + h.d.height \div 2) * h.stride <= (h.d.height + h.d.height \div 2) * h.stride
      BY <2>3, <3>8
    <3> QED BY <2>2, <2>3, <2>5, <3>5, <3>6, <3>7, <3>9
  <2> QED BY <2>4, <2>5
<1>2. IInv => PixelsInMemory
  BY <1>1, IInvType, ViewsAreHad DEF PixelsInMemory, IInv
<1> QED BY <1>2, IInvHolds, PTL
-----------------------------------------------------------------------------
(* The refinement of SharedMemory.                                         *)

holds  == [m \in Mems |-> HoldersOf(m)]
coming == [m \in Mems |-> ComingTo(m)]
shared == <<mem, holds, coming>>

(* A process without a handle holds nothing; with one it holds what the    *)
(* descriptor in it is of.                                                 *)
LEMMA HolderOfHandle ==
  ASSUME RestType, FdsInv, NEW p \in Procs
  PROVE  /\ handle[p] = NULL => Promise!HoldsNothing(p)
         /\ handle[p] # NULL /\ handle[p].mem # NULL =>
              handle[p].mem \in Mems /\ p \in holds[handle[p].mem]
  BY DEF RestType, FdsInv, Handle, Promise!HoldsNothing, holds, HoldersOf

(* Steps that move no handle, no buffer object and no memory.              *)
LEMMA NothingMoves ==
  ASSUME UNCHANGED <<mem, handle, bo, sent>>
  PROVE  UNCHANGED shared
  BY DEF shared, holds, coming, HoldersOf, ComingTo

(* A client's buffer object is of what the descriptor in its handle is of. *)
LEMMA ClientsBo ==
  ASSUME IInv, NEW c \in Clients, bo[c] # NULL
  PROVE  handle[c] # NULL /\ handle[c].mem = bo[c].mem
  BY ShareAssumption DEF IInv, FdsInv, Procs

LEMMA RegisterMovesNothing ==
  ASSUME IInv, IInv', NEW c \in Clients, Register(c)
  PROVE  UNCHANGED shared
<1>1. c \in Procs /\ bo[c] = NULL /\ UNCHANGED <<mem, handle, sent>>
  BY DEF Procs, Register
<1>2. \A p \in Procs \ {c} : bo'[p] = bo[p]
  BY <1>1 DEF Register, IInv, RestType
<1>3. bo'[c] # NULL => handle'[c] # NULL /\ handle'[c].mem = bo'[c].mem
  BY ShareAssumption DEF IInv, FdsInv, Procs
<1>4. ASSUME NEW m \in Mems PROVE HoldersOf(m)' = HoldersOf(m)
  BY <1>1, <1>2, <1>3 DEF HoldersOf
<1>5. holds' = holds
  BY <1>4 DEF holds
<1>6. coming' = coming
  BY <1>1 DEF coming, ComingTo
<1> QED BY <1>1, <1>5, <1>6 DEF shared

(* Descriptors and buffer objects refer to memory exactly as long as       *)
(* handles do, so the kernel frees what no process has a handle of.        *)
LEMMA SettleLeft ==
  ASSUME RestType', FdsInv', Settle
  PROVE  mem' = [m \in Mems |-> IF holds'[m] \cup coming'[m] = {} THEN NULL ELSE mem[m]]
<1>1. ASSUME NEW m \in Mems
      PROVE  Referenced(m)' <=> holds'[m] \cup coming'[m] # {}
  <2>1. holds'[m] = {p \in Procs : (handle'[p] # NULL /\ handle'[p].mem = m)
                               \/ (bo'[p] # NULL /\ bo'[p].mem = m)}
    BY DEF holds, HoldersOf
  <2>2. coming'[m] = {p \in Procs : \E s \in sent' : s.to = p /\ s.handle.mem = m}
    BY DEF coming, ComingTo
  <2>3. ASSUME NEW p \in Procs
        PROVE  fds'[p][m] > 0 \/ (bo'[p] # NULL /\ bo'[p].mem = m) <=> p \in holds'[m]
    BY <2>1 DEF FdsInv
  <2>4. (\E s \in sent' : s.handle.mem = m) <=> coming'[m] # {}
    BY <2>2 DEF RestType, Procs
  <2>5. holds'[m] \subseteq Procs
    BY <2>1
  <2> QED BY <2>3, <2>4, <2>5 DEF Referenced
<1> QED BY <1>1 DEF Settle

(* New memory is held by the allocator alone: by its buffer object, and by *)
(* its handle if that has a descriptor.                                    *)
LEMMA AllocMakes ==
  ASSUME IInv, NEW m \in Mems, NEW d \in Descriptions, NEW pad \in Pads,
         NEW fd \in {m, NULL}, Alloc(m, d, pad, fd)
  PROVE  Promise!Make(Allocator, m)
<1>1. /\ Allocator \in Procs /\ handle[Allocator] = NULL /\ mem[m] = NULL /\ sent' = sent
      /\ NULL \notin Mems
  BY ShareAssumption DEF Procs, Alloc
<1>2. /\ handle'[Allocator].mem = fd /\ bo'[Allocator].mem = m
      /\ \A p \in Procs \ {Allocator} : handle'[p] = handle[p] /\ bo'[p] = bo[p]
  BY <1>1 DEF Alloc, ObjectOf, IInv, RestType
<1>3. bo'[Allocator] # NULL /\ mem'[m] # NULL
  BY AllocStep
<1>4. bo[Allocator] = NULL
  BY <1>1 DEF IInv, FdsInv
<1>5. \A p \in Procs \ {Allocator} : p \notin holds[m]
  <2>1. ASSUME NEW p \in Procs, p \in holds[m]
        PROVE  handle[p] \in Handle /\ Has(handle[p], m)
    BY <2>1 DEF holds, HoldersOf, Has, IInv, FdsInv, RestType
  <2> QED BY <1>1, <2>1 DEF IInv, Described
<1>6. ASSUME NEW n \in Mems
      PROVE  holds'[n] = IF n = m THEN {Allocator} ELSE holds[n]
  BY <1>1, <1>2, <1>3, <1>4, <1>5 DEF holds, HoldersOf
<1>7. holds' = [holds EXCEPT ![m] = {Allocator}]
  BY <1>6 DEF holds
<1>8. coming' = coming
  BY <1>1 DEF coming, ComingTo
<1>9. mem' = [mem EXCEPT ![m] = mem'[m]]
  BY DEF Alloc, IInv, MemType
<1>10. Promise!HoldsNothing(Allocator)
  BY <1>1, HolderOfHandle DEF IInv
<1> QED BY <1>1, <1>3, <1>7, <1>8, <1>9, <1>10 DEF Promise!Make, holds, coming

(* A message with a descriptor brings the memory to its process.           *)
LEMMA SendPasses ==
  ASSUME IInv, NEW c \in Clients, Send(c)
  PROVE  IF handle[Allocator].mem = NULL THEN UNCHANGED shared
         ELSE Promise!Pass(Allocator, c, handle[Allocator].mem)
<1> DEFINE m == handle[Allocator].mem
           s == [to |-> c, handle |-> handle[Allocator]]
<1>1. /\ Allocator \in Procs /\ c \in Procs /\ NULL \notin Mems
      /\ m # NULL => m \in Mems /\ Allocator \in holds[m]
  BY HolderOfHandle, ShareAssumption DEF IInv, Procs, Send
<1>2. sent' = sent \cup {s} /\ UNCHANGED <<mem, handle, bo>>
  BY DEF Send
<1>3. holds' = holds
  BY <1>2 DEF holds, HoldersOf
<1>4. s.to = c /\ s.handle.mem = m
  OBVIOUS
<1> HIDE DEF s, m
<1>5. ASSUME NEW n \in Mems
      PROVE  coming'[n] = IF n = m THEN coming[n] \cup {c} ELSE coming[n]
  BY <1>1, <1>2, <1>4 DEF coming, ComingTo
<1>6. CASE m = NULL
  <2>1. coming' = coming
    BY <1>1, <1>5, <1>6 DEF coming
  <2> QED BY <1>2, <1>3, <1>6, <2>1 DEF shared, m
<1>7. CASE m # NULL
  <2>1. coming' = [coming EXCEPT ![m] = @ \cup {c}]
    BY <1>1, <1>5, <1>7 DEF coming
  <2> QED BY <1>1, <1>2, <1>3, <1>7, <2>1 DEF Promise!Pass, holds, coming, m
<1> QED BY <1>6, <1>7

(* What arrives is no longer coming: there is one handle of it, so one     *)
(* message of it to the process.  A handle with no descriptor brings       *)
(* nothing.                                                                *)
LEMMA ReceiveArrives ==
  ASSUME IInv, NEW s \in sent, Receive(s)
  PROVE  IF s.handle.mem = NULL THEN UNCHANGED shared
         ELSE Promise!Arrive(s.to, s.handle.mem)
<1> DEFINE c == s.to
           m == s.handle.mem
<1>1. /\ c \in Procs /\ s.handle \in Handle /\ s.handle # NULL /\ m \in Mems \cup {NULL}
      /\ NULL \notin Mems /\ handle[c] = NULL /\ bo[c] = NULL
      /\ \A x \in sent : x \in [to : Clients, handle : Handle]
  BY ShareAssumption DEF IInv, RestType, Procs, Handle, Receive, FdsInv
<1>2. /\ handle'[c] = s.handle /\ \A p \in Procs \ {c} : handle'[p] = handle[p]
      /\ sent' = sent \ {s} /\ UNCHANGED <<mem, bo>>
  BY <1>1 DEF Receive, IInv, RestType
<1>3. m \in Mems => c \in coming[m]
  BY <1>1 DEF coming, ComingTo
<1>4. ASSUME m \in Mems, NEW x \in sent, x.to = c, x.handle.mem = m
      PROVE  x = s
  <2>1. Has(x.handle, m) /\ Has(s.handle, m)
    BY <1>4 DEF Has
  <2>2. x.handle = s.handle
    BY <1>1, <1>4, <2>1 DEF IInv, OneHandle
  <2> QED BY <1>1, <1>4, <2>2
<1>5. ASSUME NEW n \in Mems
      PROVE  /\ holds'[n] = IF n = m THEN holds[n] \cup {c} ELSE holds[n]
             /\ coming'[n] = IF n = m THEN coming[n] \ {c} ELSE coming[n]
  <2>1. holds'[n] = IF n = m THEN holds[n] \cup {c} ELSE holds[n]
    BY <1>1, <1>2 DEF holds, HoldersOf
  <2>2. ASSUME NEW p \in Procs
        PROVE  p \in coming'[n] <=> p \in coming[n] /\ ~(n = m /\ p = c)
    BY <1>1, <1>2, <1>4 DEF coming, ComingTo
  <2>3. coming'[n] \subseteq Procs /\ coming[n] \subseteq Procs
    BY DEF coming, ComingTo
  <2>4. coming'[n] = IF n = m THEN coming[n] \ {c} ELSE coming[n]
    BY <2>2, <2>3
  <2> QED BY <2>1, <2>4
<1>6. Promise!HoldsNothing(c)
  BY <1>1, HolderOfHandle DEF IInv
<1> HIDE DEF c, m
<1>7. CASE m = NULL
  <2>1. holds' = holds /\ coming' = coming
    BY <1>1, <1>5, <1>7 DEF holds, coming
  <2> QED BY <1>2, <1>7, <2>1 DEF shared, m
<1>8. CASE m # NULL
  <2>1. /\ holds' = [holds EXCEPT ![m] = @ \cup {c}]
        /\ coming' = [coming EXCEPT ![m] = @ \ {c}]
    BY <1>1, <1>5, <1>8 DEF holds, coming
  <2> QED BY <1>1, <1>2, <1>3, <1>6, <1>8, <2>1 DEF Promise!Arrive, holds, coming, c, m
<1> QED BY <1>7, <1>8

(* A process gives up what it holds and nobody else's.                     *)
LEMMA HandleGoes ==
  ASSUME RestType, NEW p \in Procs,
         handle' = [handle EXCEPT ![p] = NULL], bo' = [bo EXCEPT ![p] = NULL]
  PROVE  holds' = [m \in Mems |-> holds[m] \ {p}]
<1>1. /\ handle'[p] = NULL /\ \A q \in Procs \ {p} : handle'[q] = handle[q]
      /\ bo'[p] = NULL /\ \A q \in Procs \ {p} : bo'[q] = bo[q]
  BY DEF RestType
<1>2. ASSUME NEW m \in Mems PROVE holds'[m] = holds[m] \ {p}
  BY <1>1 DEF holds, HoldersOf
<1> QED BY <1>2 DEF holds

LEMMA GiveBackGivesUp ==
  ASSUME IInv, IInv', (\E c \in Clients : Delete(c)) \/ Free
  PROVE  \E p \in Procs : Promise!GiveUp(p)
<1>1. PICK p \in Procs : /\ handle' = [handle EXCEPT ![p] = NULL]
                         /\ bo' = [bo EXCEPT ![p] = NULL]
                         /\ sent' = sent /\ Settle
  <2>1. CASE Free
    BY <2>1 DEF Free, Procs
  <2>2. ASSUME NEW c \in Clients, Delete(c)
        PROVE  c \in Procs /\ bo' = [bo EXCEPT ![c] = NULL]
    BY <2>2 DEF Delete, Procs, IInv, RestType
  <2> QED BY <2>1, <2>2 DEF Delete
<1>2. coming' = coming
  BY <1>1 DEF coming, ComingTo
<1>3. mem' = [m \in Mems |-> IF holds'[m] \cup coming'[m] = {} THEN NULL ELSE mem[m]]
  BY <1>1, SettleLeft DEF IInv
<1>4. holds' = [m \in Mems |-> holds[m] \ {p}]
  BY <1>1, HandleGoes DEF IInv
<1>5. Promise!GiveUp(p)
  BY <1>2, <1>3, <1>4 DEF Promise!GiveUp, Promise!Left, holds, coming
<1> QED BY <1>5

LEMMA DieDies ==
  ASSUME IInv, IInv', NEW p \in Procs, Die(p)
  PROVE  Promise!Die(p)
<1>1. /\ handle' = [handle EXCEPT ![p] = NULL] /\ bo' = [bo EXCEPT ![p] = NULL] /\ Settle
      /\ sent' = {s \in sent : s.to # p}
  BY DEF Die
<1>2. coming' = [m \in Mems |-> coming[m] \ {p}]
  <2>1. ASSUME NEW m \in Mems PROVE coming'[m] = coming[m] \ {p}
    BY <1>1 DEF coming, ComingTo
  <2> QED BY <2>1 DEF coming
<1>3. mem' = [m \in Mems |-> IF holds'[m] \cup coming'[m] = {} THEN NULL ELSE mem[m]]
  BY <1>1, SettleLeft DEF IInv
<1>4. holds' = [m \in Mems |-> holds[m] \ {p}]
  BY <1>1, HandleGoes DEF IInv
<1> QED BY <1>2, <1>3, <1>4 DEF Promise!Die, Promise!Left, holds, coming

(* A client that gives a buffer object back frees nothing: its handle, and *)
(* the descriptor in it, stay.                                             *)
LEMMA UnregisterFreesNothing ==
  ASSUME IInv, IInv', NEW c \in Clients, Unregister(c)
  PROVE  UNCHANGED shared
<1>1. c \in Procs /\ bo[c] # NULL /\ handle' = handle /\ sent' = sent /\ Settle
  BY DEF Unregister, Procs
<1>2. bo'[c] = NULL /\ \A p \in Procs \ {c} : bo'[p] = bo[p]
  BY <1>1 DEF Unregister, IInv, RestType
<1>3. handle[c] # NULL /\ handle[c].mem = bo[c].mem
  BY <1>1, ClientsBo
<1>4. ASSUME NEW m \in Mems PROVE HoldersOf(m)' = HoldersOf(m)
  BY <1>1, <1>2, <1>3 DEF HoldersOf
<1>5. holds' = holds /\ coming' = coming
  BY <1>1, <1>4 DEF holds, coming, ComingTo
<1>6. mem' = [m \in Mems |-> IF holds[m] \cup coming[m] = {} THEN NULL ELSE mem[m]]
  BY <1>1, <1>5, SettleLeft DEF IInv
<1>7. ASSUME NEW m \in Mems, mem[m] # NULL PROVE holds[m] \cup coming[m] # {}
  <2>1. PICK h \in Handle : Has(h, m)
    BY <1>7 DEF IInv, Backed
  <2> QED BY <2>1 DEF Has, holds, coming, HoldersOf, ComingTo, IInv, RestType, Procs
<1>8. mem' = mem
  BY <1>6, <1>7 DEF IInv, MemType
<1> QED BY <1>5, <1>8 DEF shared
-----------------------------------------------------------------------------
(* Every step of GrallocShare is one of SharedMemory or changes nothing    *)
(* there.                                                                  *)
LEMMA StepRefines == IInv /\ IInv' /\ [Next]_vars => Promise!Next \/ UNCHANGED shared
<1> SUFFICES ASSUME IInv, IInv', [Next]_vars PROVE Promise!Next \/ UNCHANGED shared
  OBVIOUS
<1> USE DEF Promise!Next
<1>0. Allocator \in Procs /\ Clients \subseteq Procs
  BY DEF Procs
<1>1. CASE UNCHANGED vars
  BY <1>1, NothingMoves DEF vars
<1>2. CASE \E m \in Mems, d \in Descriptions, pad \in Pads, fd \in Mems \cup {NULL} :
             fd \in {m, NULL} /\ Alloc(m, d, pad, fd)
  BY <1>0, <1>2, AllocMakes
<1>3. ASSUME NEW c \in Clients, Send(c) PROVE Promise!Next \/ UNCHANGED shared
  <2>1. handle[Allocator].mem \in Mems \cup {NULL}
    BY <1>0, <1>3 DEF IInv, RestType, Handle, Send
  <2> QED BY <1>0, <1>3, <2>1, SendPasses
<1>4. ASSUME NEW s \in sent, Receive(s) PROVE Promise!Next \/ UNCHANGED shared
  <2>1. s.to \in Procs /\ s.handle.mem \in Mems \cup {NULL}
    BY <1>0 DEF IInv, RestType, Handle
  <2> QED BY <1>4, <2>1, ReceiveArrives
<1>5. CASE (\E c \in Clients : Delete(c)) \/ Free
  BY <1>5, GiveBackGivesUp
<1>6. CASE \E c \in Clients : Unregister(c)
  BY <1>6, UnregisterFreesNothing
<1>7. CASE \E p \in Procs : Die(p)
  BY <1>7, DieDies
<1>8. CASE \E c \in Clients : Register(c)
  BY <1>8, RegisterMovesNothing
<1>9. CASE \/ \E p \in Procs : BoUnlock(p)
           \/ \E p \in Procs : \E u \in LockUsages, r \in Rects(handle[p].d) : BoLock(p, u, r)
  BY <1>9, NothingMoves DEF BoUnlock, BoLock
<1> QED BY <1>1, <1>2, <1>3, <1>4, <1>5, <1>6, <1>7, <1>8, <1>9 DEF Next

(* Whatever is sent, freed and locked and whoever dies, memory keeps what  *)
(* it was made as until the last process leaves it, and is gone then.      *)
THEOREM ShareImplementsMemory == Spec => ImplementsSharedMemory
<1>1. Init => Promise!Init
  BY DEF Init, Promise!Init, HoldersOf, ComingTo
<1>2. IInv /\ IInv' /\ [Next]_vars => [Promise!Next]_Promise!vars
  BY StepRefines DEF shared, holds, coming, Promise!vars
<1> QED BY <1>1, <1>2, IInvHolds, PTL DEF Spec, ImplementsSharedMemory, Promise!Spec
=============================================================================
