# Formal models of the Dragonboard HALs

The repository is an Android device tree for the DragonBoard 410c and 820c. Most
of it is makefiles, firmware, policies and manifests. The program in it is three
hardware abstraction layers, loaded as shared objects into Android processes and
called by several of their threads: **gralloc** (graphics buffers, C++),
**power** (touch boost, C) and **audio** (playback, C). These three are modelled
here in TLA+, model-checked with TLC and proved with
TLAPS for every value of the constants.

## Inventory

| part | state it keeps | operations | what is hard | what makes it correct |
|---|---|---|---|---|
| gralloc, entry points (`gralloc/gralloc.cpp`) | module mutex, pointer to the gbm device, alloc devices | open, close, perform, register, unregister, lock, unlock, alloc, free | racing first calls; close and perform without the mutex; a device pointer never reset | one device; no use of a destroyed one by an orderly client; every call returns |
| gralloc, buffers in a process (`gralloc/gralloc_gbm.cpp`) | map from native handles to buffer objects; per object a mapping, a lock count, the usages locked for | import, create, free, map, unmap, lock, unlock | lookups that insert; emplace that does not overwrite; check, driver call, update in three steps; unlock of what was never locked | each buffer object belongs to one handle; a CPU lock is exclusive; counts balance; nothing leaks |
| gralloc, a buffer between processes (same file) | the native handle: description, strides, file descriptor; the memory behind it | allocate, send, import, lock, give back; a process dies | sizes computed twice, in two processes; three tables of formats; halving for YV12; a layout chosen from one usage and a lock granted on another; whose descriptor keeps the memory; a handle whose descriptor could not be made | a handle describes its memory; rows and planes end inside it; a lock maps the bytes of its rectangle (not all of them for YV12, and it is said which); the last user gives the memory back |
| power (`power/power_dragonboard.c`) | deadline, semaphore, mutex, file descriptor; the value in sysfs, which outlives the process | open, init, hint; one deboost thread | a thread that sleeps without the mutex while hints extend the deadline; a semaphore that starts at 1; writes, reads and thread creation that fail; a process that dies during a boost | no lost wakeup, no early deboost, no token run-up, the boost ends, that of a dead process too |
| audio playback (`audio/audio_hw.c`) | device and stream mutexes, pcm pointer, standby, unavailable, frames written, active output, routing | adev open and close, open and close of a stream, write, standby, set_parameters, presentation position | a write that blocks after giving one of two mutexes back; a position query without a mutex; failed opens and half-done writes; a counter that wraps | pcm and standby agree; no pcm is closed under a write; no leak; a position never ahead of the card; no deadlock |
| audio capture (same file) | none | stub: read sleeps and returns zeros | - | not modelled, see the end |
| memtrack (`libmemtrack/`) | none | stub: every query is refused | - | not modelled |
| init, USB gadget, fstab, ueventd scripts | Android properties, configfs | triggers run by init | ordering of property triggers | not modelled, see the end |
| `installer/`, `factory-images/` | files and partitions | straight-line shell scripts | - | not modelled: no state that survives or interleaves |
| product makefiles, firmware, sepolicy, manifests, overlays, audio policy | none | data | - | not modelled: nothing runs |

The three HALs do not call each other. Each is called by a framework service
(the graphics mapper and allocator, the power service, the audio service) and
calls a library or the kernel (gbm, sysfs, tinyalsa). Those neighbours are
modelled only as far as the code in `src/` uses them, and are marked external in
`PROJECT.json`.

## Modules

| module | models | lines of code it stands for |
|---|---|---|
| `Gralloc` | both gralloc files, any threads, any calls on any handles | gralloc.cpp 42-259, gralloc_gbm.cpp 52-70, 156-475 |
| `GrallocShape` | formats, bytes per pixel, bindings, sizes, strides as pure operators | gralloc_gbm.cpp 73-225, 262-299, 386, 408 |
| `GrallocShare` | a buffer of `GrallocShape`'s description between the allocator and its clients, each of which may die | the same, gralloc.cpp 163-197, gralloc_gbm.cpp 325-389 |
| `BufferLocks` | the abstract lock table the gralloc lock calls promise | - |
| `SharedMemory` | abstract: memory that lasts until the last process leaves it | - |
| `Boost` | abstract: the boost as its users see it, one hint at a time | - |
| `Playback` | abstract: the states of a stream and whose pcm is open | - |
| `GrallocClient` | `Gralloc` called by a client that keeps the order of the gralloc interface | external contract |
| `PowerHal` | the power HAL, its clients, its thread, the clock, the death and restart of the process | power_dragonboard.c 42-198, 214-244 |
| `AudioHal` | the playback half of the audio HAL | audio_hw.c 65-116, 161-220, 242-310, 420-501, 627-675 |
| `GrallocProofs`, `GrallocRefinementProofs`, `GrallocClientProofs`, `GrallocShareProofs`, `PowerHalProofs`, `AudioHalProofs`, `AudioRefinementProofs`, `AudioOrderlyProofs` | proofs | - |
| `MCGralloc`, `MCGrallocClient`, `MCGrallocShare`, `MCPowerHal`, `MCAudioHal` | instances for TLC | - |

`GrallocClient` extends `Gralloc` and conjoins what the client knows to each of
its actions. `Gralloc` instantiates `BufferLocks` under the mapping that sends a
handle to the locks on its buffer object. `GrallocShare` extends `GrallocShape`; it shows
the same HAL from outside, in several processes, with each of its calls one step:
`Gralloc` is about what happens inside a call, `GrallocShare` about what a handle carries
from one process to another.

### What each HAL promises

Four small specifications say what callers may rely on, without mutexes, threads or
descriptors. Each detailed module instantiates its own (`Locks` in `Gralloc`, `Promise` in the others) under a refinement
mapping, a run checks it as a property and a theorem proves it.

| abstract | detailed | mapping | what the refinement rules out |
|---|---|---|---|
| `BufferLocks` | `Gralloc` | a handle to the locks on its buffer object | a lock granted on a stale check |
| `SharedMemory` | `GrallocShare` | memory to the processes whose handle or buffer object is of it, or with such a handle on its way | memory changed or freed under another process, or kept after the last |
| `Boost` | `PowerHal` | file, deadline, clock; "raising" while a hint is between its post and its deadline | a deadline moved back, a boost taken back in the middle of a hint or before its time |
| `Playback` | `AudioHal` | each stream to closed, standby, running, writing or broken, with the pcm it runs on | a standby during a write, a restart that opens a second pcm, a broken stream that comes back |

### Gralloc

* `mutex` is `dmod->mutex`, `gbm` is `dmod->gbm` with `destroyed` for the pointer
  close leaves behind, `boMap` is `gbm_bo_handle_map` (with `Absent` for no entry
  and `NULL` for the null entry a lookup inserts), `boData` is the user data of a
  buffer object, `boLive` the objects the library has.
* A body under the mutex is two actions when a driver call stands between what it
  tests and what it changes: device creation, import, map, unmap. The mutex is then
  held between them. It is one action when it only tests and sets, and so is alloc, whose
  driver call comes first: nothing it tested can go stale during the call, and the mutex is
  held throughout. This is where threads interleave in the code: the
  mutex makes the rest atomic, and the property `ChecksStillHold` says that what
  was checked before the driver call holds after it.
* `gbm_init` takes the mutex for itself and gives it back, so a call is between
  `GbmInit` and its body without it. close takes no mutex at all.
* Use of a destroyed device and the read through a missing `bo_data_t` are undefined
  behaviour: the model records them in `fault` and the process makes no step more.
* Handles are addresses and are reused after a delete; buffer objects likewise.
* Abstracted here: formats, sizes, strides and descriptors of buffers, which are in
  `GrallocShape` and `GrallocShare`; log messages. Usage masks are sets of the bits the
  code tells apart.

### GrallocClient

The gralloc interface asks its users for an order: register before use, one unlock
per lock, no free while locked, unregister only what was registered, close last.
Properties that are about leaks and faults make sense only under it; the properties
of `Gralloc` itself do not assume it.

### GrallocShape and GrallocShare

* `GrallocShape` has one operator per table or computation: `get_gbm_format`,
  `gralloc_gbm_get_bpp` and `get_pipe_bind` keep their names; `AllocSize` and `ImportSize`
  are the sizes computed by gbm_alloc and gbm_import, `MapSize` the region gbm_map maps,
  `PixelStride` the division that gives the caller its stride, `Permitted` the test of
  gralloc_gbm_bo_lock. `CursorBound` is FALSE: line 145 is commented out, so the
  minimum of 64 for cursors in gbm_alloc is never used. The reads and writes by the CPU have
  the two bits each that the header gives them, since RARELY and OFTEN share one.
* The driver is external: it refuses an unknown format and an empty size and makes rows of
  `cols * GbmCpp` bytes and a padding.
* A handle's `mem` is what its descriptor `prime_fd` is of. gbm_alloc stores what
  gbm_bo_get_fd returns without a look (line 232), so it may be negative: `mem` is then
  `NULL`, alloc succeeds all the same, the allocator can use and free such a buffer, and an import
  of its handle is refused (line 168). `Views` pairs each handle with the memory it
  stands for, by its descriptor or by the buffer object its process has.
* `mem` (the variable) is the kernel's: a piece of memory lives while a descriptor, a buffer
  object or a message refers to it (`Settle`). `handle`, `fds`, `bo`, `map` are per process.
* A process that dies loses all of them. A message to it is dropped; its own
  messages stay.

### PowerHal

* One action per step that another thread can see: taking the mutex and the time,
  the write and the post, the deadline, the unlock; in the thread `sem_wait`, lock
  and time, sleep, deboost.
* `Tick` may come between any two actions. `nanosleep` ends at its time, or early by
  a signal (its result is not looked at); `sem_wait` is restarted after a signal.
* Each write to the file may fail, the read at init may fail (the default stays),
  the file may be missing (no thread) and `pthread_create` may fail.
* `Die` may come at any step: the process loses its memory, threads and mutex, and the file
  keeps its value. What opens next finds that value (`norm`). `deaths` counts them.
* The history variables `lastHint` and `lastWrite` serve the properties: the time the last
  hint read, and how the last write of this process to the file went.

### AudioHal

* The two mutexes are entries of `lock`. A call takes `Order(call)[1]`, then
  `Order(call)[2]`; write gives the device's back before `pcm_mmap_write`.
* `pcm_mmap_write` moves a frame at a time, waits for room and may end early. A write
  counts only when all of it went well.
* The position query reads the pcm pointer twice, the time stamp, and the frame count
  without a mutex. A build may reuse the first read: both outcomes are in the model.
* A pcm that fails to open is closed and leaves a dangling pointer, the value `Closed`.
* `Mod` is the range of an unsigned int, scaled down. `wide` tells a 64-bit from a
  32-bit build: `Android.mk` installs both and the audio service of `device-common.mk`
  loads the 32-bit one.
* `Orderly` restricts the callers to what the audio service does: write, standby and
  position of a stream one after the other, standby before close.

## Runs

| run | question | instance | states |
|---|---|---|---|
| `gralloc_any_calls` | safety under any calls in any order; the mutex given back on every path | 2 threads, 2 handles, 3 objects, 3 usages (CPU read, GPU read, CPU and GPU write) | 690 k |
| `gralloc_one_buffer` | refinement of `BufferLocks`; every call returns | 2 threads, 1 handle, 2 objects, 2 usages | 26 k |
| `gralloc_client` | faults, leaks, balance and buffers destroyed at rest under an orderly client | 2 threads, 2 handles, 2 objects, up to 3 locks | 21 k |
| `gralloc_unregister_local` | comment of gralloc_gbm.cpp:354 (violated) | as the first | |
| `gralloc_compatible_locks` | comment of gralloc_gbm.cpp:425 (violated) | as the first | |
| `gralloc_share` | memory, description, pixels and locks of a shared buffer; refinement of `SharedMemory` | allocator and 1 client, 1 piece of memory, all formats, 2 by 3 and 3 by 2 pixels (YV12 also 2 by 2 and 3 by 3), 5 usages, 2 lock usages, all rectangles, rows with and without padding, handles without a descriptor for 2 descriptions, 1 message at a time | 340 k |
| `power_boost` | wakeups, tokens, file, no early deboost; refinement of `Boost`; boosts end, hints return | 2 clients, boost of 2 ticks, clock to 7, 1 death | 206 k |
| `power_restart` | log texts of power_dragonboard.c:164 and 170 (violated) | as `power_boost` | |
| `audio_any_calls` | pcm and standby, writes and their pcm, nobody blocked for good; refinement of `Playback` | 2 threads, 2 streams, 2 pcms, any callers, no routing to a device | 339 k |
| `audio_orderly` | leaks, active output, unlocked reads | the same, orderly callers, routing to a device | 273 k |
| `audio_position` | positions against the card and against the last one | 1 stream, buffer of 2 frames, counter modulo 8 | 552 k |
| `audio_calls_return` | no deadlock, calls return | 2 threads, 2 streams, 1 pcm | 39 k |

Deadlock checking is off in every run: a process stops at a fault, the clock of the
power model stops at its horizon. That calls do not get stuck is checked as liveness
instead (`CallsReturn`, `HintsReturn`).

**Bounds.** Two threads are enough for each race, which is between two calls; two
handles or streams are needed to see one object reach another's owner; one object more
than handles lets a leaked one be missed. `MaxLocks` 2 (3 for the client) distinguishes
first, middle and last lock of a buffer. `MaxOpens` bounds the devices open when an
open starts, so two threads may still open two. In the power model a hint starts only
when its boost can end before `Horizon`; 7 ticks with a boost of 2 hold a boost, its
extension during the sleep, its end and another boost, or a boost cut off by the death of
the process and one of the next process. `gralloc_share` has one client and one piece of
memory: what is shared is between the allocator and one user at a time, buffers do not
touch each other, and sizes of 2 and 3 are the smallest even and odd ones in which
rectangles have an inside. `FdMayFail` names the descriptions for which no descriptor may be
had (one of them YV12) and `MaxSent` the handles on their way at a time, which one piece of memory
would not bound, as handles without a descriptor can be sent again and again. Its theorems are for any
number of processes and memories, all sizes, and any value of these two. In the audio model no write
starts after `MaxFrames`; with a counter modulo 8 and 10 frames the counter wraps.
`audio_any_calls` leaves the routing value at 0, which still makes the call take both
mutexes: which device it names is read by nothing else, and `audio_orderly` has one.
The theorems have none of these bounds but `Horizon` and `MaxDeaths`, which are any numbers.

**Fairness.** Every thread keeps running (weak fairness of its steps), as the scheduler
of the system gives it. A thread that waits for a pthread mutex gets it if it is free
again and again (strong fairness of the step that takes it): the code holds each mutex
for a bounded time, but no thread may be starved for the properties to hold. Driver
calls and `pcm_mmap_write` return. Calls and hints from outside, signals,
the death and the restart of a process and the sound card get no fairness. Nor does the
clock: only `BoostEnds` assumes in its formula that it moves, and `HintsReturn` holds
without, so that no hint waits for the thread's sleep.

## Findings

* gralloc_gbm.cpp:354 says unregister "is no-op for handles created locally".
  The function frees any handle; a buffer allocated here and unregistered loses its
  buffer object (`gralloc_unregister_local`).
* gralloc_gbm.cpp:425 says "allow multiple locks with compatible usages".
  A second lock with a usage the first covers is refused by gbm_map when the CPU is
  involved (`gralloc_compatible_locks`). What the code does grant is `BufferLocks`.

* power_dragonboard.c:164 and 170 call what init reads from the file the normal boost
  value. After a death during a boost it is the interactive value (line 161 takes what is
  there), every later deboost writes it back, and the boost stays for good (`power_restart`).
  When that read fails instead, the default is used and the token init puts into the
  semaphore (line 146) makes the thread take the old boost back: `WakeupNotLost` and
  `BoostEnds` say so.

Other things a reader of the models should know: a position query after a failed
`pcm_open` reads a closed pcm (`FaultNeedsFailedOpen` says this is the only way for
orderly callers); on a 32-bit build a failed write can lead to a position near 2^32;
a boost whose last write fails stays until the next one; a failed write of the boost
value is not tried again by the hints that extend it; an alloc whose gbm_bo_get_fd failed
returns success with a handle nobody else can import; a YV12 buffer of odd width has no
room for its last column (`PixelsInMemory` leaves it out and says so); a YV12 lock at the left edge
loses the last column of an odd rectangle, all of a rectangle one pixel wide; one at the origin
that is not of the whole buffer gets none or only some of its chroma; and one with an
offset to the right may map columns past the buffer (`MapCoversLock` says which bytes a lock
maps, but for the chroma and the right end of a YV12 rectangle with an offset); the
tables of gbm formats and of bytes per pixel disagree on three YCbCr formats, which never
get as far as the second table because gbm refuses the first's answer; the note on the order of mutexes
that audio_hw.c:68 and 78 point to is not in the file.

## Proofs

TLAPS checks every proof to the last leaf. The assumptions are the named `ASSUME`s of the
modules: constants are of their sorts, sentinels are none of the values they stand beside.

* `GrallocProofs`. The inductive invariant `IInv` is the conjunction of the five invariants of
  the first run: none is inductive alone. A CPU lock is exclusive only if what `LockEnter` checked
  still holds at `LockMap` (`ChecksStillHold`), which needs the mutex to belong to the thread
  between the two and no other handle to reach the buffer (`BoOwnership`). From it follow
  `TypeCorrect`, `BuffersOwned`, `CpuLocksExclude`, `DeviceIsSingle`, `ChecksProtected`, and
  `MutexIsGivenBack`: the holder of the mutex is in the middle of a call.
* `GrallocRefinementProofs`. Each step of `Gralloc` is a step of `BufferLocks` or leaves the
  lock table alone: enter steps stutter, `LockMap` is `Lock`, `UnlockDec` is `Unlock`, alloc
  and register are `Create`, free and unregister `Destroy`. `GrallocImplementsBufferLocks`.
* `GrallocClientProofs`. Each step of the client is a step of `Gralloc`, so `IInv` carries over.
  `ClientInv` adds what the order of calls gives: what is owned has a handle and only that is
  locked (`OwnedHandles`), a handle in a call is owned, or is being registered by one thread
  (`CallsOwned`), and the device is destroyed last (`ClosedLast`). Without `CallsOwned` a step
  in the middle of a call could find its handle gone. From it `OrderlyClientsAreSafe`,
  `MapIsWhatIsOwned`, `LocksAreBalanced`. `BuffersAreDestroyedAtRest` (an
  action property) puts both invariants together: gbm_free unmaps nothing, but a client with no
  lock left means a count of zero (`LocksBalance`), and a mapping needs a count of one
  (`CpuLockExclusive`). That a client's behaviours are behaviours of the module is a theorem of
  its own, `ClientsAreCallers`, and with the refinement it gives `ClientsSeeBufferLocks`.
* `GrallocShareProofs`. The six properties of the run are proved for any processes, memories,
  descriptions, paddings and lock usages. `IInv` says of each process what its handle,
  descriptors and buffer object have to do with each other (`FdsInv`, `BoInv`, `MapInv`), that
  memory lives exactly while a handle stands for it (`Backed`), and that a handle holds
  what the allocation computed (`Described`). A handle stands for memory (`Has`) by the
  descriptor in it or, when it got none, by the buffer object of its process; either keeps the
  memory. The arithmetic of halved sizes and strides is in lemmas of its own, and
  `LocksAreCovered` goes through the formats with it. A descriptor closed once too often would free memory under another
  process, which is why `FdsInv` counts them. `ShareImplementsMemory` refines `SharedMemory`:
  the kernel frees what no descriptor, object or message refers to, and by `FdsInv` that is what
  no handle stands for (`SettleLeft`); sending and receiving a handle without a descriptor
  moves no memory; and a receiver takes all that was coming to it because
  of one piece of memory there is one handle only (`OneHandle`, part of `IInv`).
* `PowerHalProofs`. The inductive invariant ties each step of a hint and of the thread to the
  holder of the mutex, relates deadline, last hint and tokens, and survives the death of the
  process because what dies with it is the whole left side of each implication. From it
  `TypeCorrect`, `WakeupIsNotLost`, `TokensStayBounded`, `FileFollows` and the action property
  `BoostIsNotCutShort`. `PowerImplementsBoost` refines `Boost`. It needs one invariant more,
  `HintsOrdered`: the time a hint has read is not before that of the last hint served, which set
  the deadline it finds, so the deadline never moves back.
* `AudioHalProofs`. `LocksHeld` says which mutexes a call holds at each step; with it a standby
  and a write of one stream exclude each other although the write has given the device's mutex
  back, and a start opens a pcm no stream has. `TypeCorrect`, `PcmAgreesWithStandby`,
  `WritesKeepTheirPcm`, for callers of any order. `NoCircularWait` adds that a mutex is held by a
  call at a step that holds it (`MutexHeld`, its theorem is `MutexesAreHeld`): a call that holds
  one mutex and waits for another has the device's and waits for a stream's, and whoever holds
  that one without the device's is in its write.
* `AudioRefinementProofs`. `AudioImplementsPlayback`, for any callers. A write begins in
  `Playback` with the step that gives the device's mutex back; starts, failures and standbys are
  the step under both mutexes; waits, frames, routing and position queries stutter. `IInv`
  keeps a second writer and a standby away from a stream in its write.
* `AudioOrderlyProofs`, each theorem from the assumption `Orderly`. A position query takes no
  mutex; what protects it is that the stream has no other call but routing meanwhile
  (`OneCaller`). So the pcm it tested is the one it uses (`TestedPcm`), and the frames it
  computes with are those of its time stamp, minus what has played since (`StampIsPast`, which
  rests on `FramesCounted`: nothing is counted as written that is not in the kernel buffer or
  gone from it). A position goes back only when the count has missed frames (`PositionsGoOn`,
  an action property): `ReportsWhole` says that a report the card has not reached any more, and one
  about to be lower than the last, belong to a count that is short of the frames delivered even
  after the write in progress, and `MissesKept` that such a count never catches up. What a step does
  to frames and reports is stated once (`FrameSteps`, `ReportSteps`). Pcms and active_output
  follow from the standby that comes before each close.
  `NoPcmLeaks`, `ActiveOutputRuns`, `QueriesFailAfterFailedOpen`, `PositionsArePast`.

Every safety invariant, action property and refinement of the passing runs is proved.
Model-checked only: liveness (`CallsReturn` of gralloc and audio, `BoostEnds`, `HintsReturn`),
which is out of the prover's reach, as are ENABLED and induction over data. What liveness rests
on is proved: mutexes are given back (`MutexIsGivenBack`, `MutexesAreHeld`), nobody waits in
a circle (`NoCircularWait`), no wakeup is lost (`WakeupIsNotLost`).

## Plan

1. (done) `Gralloc`, `BufferLocks`, `GrallocClient`, `PowerHal`, `AudioHal`, their runs and proofs.
2. (done) `GrallocShape` and `GrallocShare` with their proofs; death and restart in `PowerHal`.
3. (done) `GrallocClientProofs`, `AudioOrderlyProofs`.
4. (done) An abstract specification for each HAL, refined by its model, with the proofs;
   the absence of circular waits; positions that go on.
5. Left: nothing of the code that a model would add to; the list below says why for each part.

## Not modelled

* Audio capture is a stub: the entry points return constants, read sleeps for the length of
  its buffer and gives zeros, close forgets the stream (audio_hw.c:614). Nothing is shared
  between its calls, so no order of them matters.
* memtrack answers every query with an error and keeps nothing.
* The USB gadget triggers of init.common.usb.rc set configfs attributes and pull the
  controller up, but the triggers that tear a configuration down and set
  `sys.usb.state` are those of the platform's init.usb.configfs.rc, which is not in this
  repository: their order cannot be read from its source.
* Scripts for flashing and factory images run once from top to bottom and keep no state that
  another run sees. Makefiles, firmware, policies, manifests and overlays do not run.
* The reported text and length of the sysfs value (power_dragonboard.c:163), the code errno
  holds after a failed allocation (gralloc.cpp:188), and whether a driver maps a buffer with
  another stride than it made it with (gralloc_gbm.cpp:288, an assert that a release build
  leaves out) are decided outside this code.
