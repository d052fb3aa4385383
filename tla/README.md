# Verification of the om.code tools

om.code is a collection of small programs and libraries: downloaders, a site
crawler, file converters, a frame-sync server experiment, engine components,
language exercises. They share no process. What they have in common is that
the interesting ones keep state in several threads, or on a disk that survives
the process. This directory holds TLA+ models of those parts, the TLC
configurations that check them on small instances, and proofs that TLAPS checks.

## 1. Inventory

### Modelled

**Block downloader** (`c#/code/XUtils/XHttpDownLoader.cs`, its host in
`c#/code/Console/Program.cs:233`). One large file is fetched in 4 MiB blocks by
several threads.
State: the file with a trailer (progress per block and a marker byte 233), the
block list, the index of the next block, the total and the counted size, the
thread list.
Operations: start (reset, HEAD, trailer in three cases, spawn), the block loop
of a thread, abort, poll (`CheckIsFinished`, which joins and cuts off the trailer).
Hard: the process may die between any two writes; the two `Seek`s of
`ChunkInfo.Write` decide what reaches the disk first; `Thread.Abort` is only a
request, so threads of an earlier start run on; the counter is changed after the
block's own progress; the poll trusts the counter.
Correct when: progress on disk never speaks of data that is not there; a file of
the server's length is the server's file; nothing on disk is lost by a restart;
the poll answers in the end.

**Batch downloader** (`c#/code/XUtils/XHttpBatchDownloader.cs`). A queue of files
is fetched by a few threads; hashed files go through `<path>.temp`, are verified,
and get a second download from the first byte if leftovers spoil them.
State: each item's file and .temp, the queue, statuses, one byte counter, threads.
Operations: start with reset, the thread loop, request with or without a range,
read, verify, second chance, delete and move, four rollbacks of the counter.
Hard: rollbacks on four error paths and a fifth path without one (a check that
throws), two-step publication, old leftovers, servers that ignore ranges, process
death, threads of an earlier start.
Correct when: Finished means verified and in place; a verified copy is never
lost; the counter adds up, whatever fails before or after the check; no item is
forgotten when the threads are gone.

**Site crawler** (`c#/other/DownloadWebsite/DownloadWebsite/Worker.cs`, `Form1.cs`).
Threads take addresses from a queue, save pages, enqueue links; each tries to
start one more thread; the last one reports the end.
State under `lock(this)`: queue, known addresses, thread list, thread counter,
stop flag; on disk: the saved pages; the UI thread.
Operations: start, cancel (both abort all threads on the UI thread with the lock
held), and the thread loop with its six lock sections and its calls to the UI
through `Control.Invoke`.
Hard: two locks in effect (the monitor and the UI thread), `Thread.Abort` that
waits for a catch block, threads that leave while links arrive, a counter that
is decremented and compared in different lock sections, addresses that differ
(`m_url_path`) and are saved to one file (`m_file_path`: unescaped, sanitised, on a
disk that may not tell capitals apart).
Correct when: no queued address is left alone, "Success" is true when logged,
no address has two threads, an undisturbed crawl ends, a click returns.

**SPSC ring buffer** (`cpp-test/test-ringbuffer.cpp`). One thread puts, another
one eats. State: the slots, shared; an index for each thread, private.
Operations: `tryput`, `tryeat`, and the two busy loops of `main`.
Hard: the slots are plain pointers without any synchronisation, so a store becomes
visible at any later time, stores to different slots in any order, and a busy loop
may be compiled to read its slot only once.
Correct when: what is eaten is what was put, in order and once; no slot is
overwritten before it is emptied; the program ends.

**Frame-sync server** (`go/misc/reflect/server/server.go`). One thread answers
datagrams: each brings a player's input and asks for a frame of a battle; the
answer is a slice of the battle's history.
State: the battles by session id, each with its start time, its sealed frames
and the inputs that wait, by player; the wall clock.
Operations: one handler: find or (re)start the battle, merge the input, seal the
frames that are due, answer with as many frames as fit.
Hard: lost, repeated and late datagrams, several frames due at once, a clock that
is set back, a battle that gets too old between two datagrams, inputs cut off at
80 bytes, a single frame larger than the MTU, a process that is started again.
Correct when: a frame that was answered never changes; an input is in the first
frame with inputs that is sealed after it, once and in order; who goes on asking
gets every frame.

**Minimap registry** (`Some-UE/MiniMap/`). Components register with a manager,
which the minimap's panel asks for the components in a box.
State: per manager an index counter, a table of all components, one of the
dynamic ones, an octree of the static ones, and a table of places in the octree;
per component its index and what the panel cached.
Operations: register, unregister, report a new box, destroy, clear, rebuild,
query, collect.
Hard: four tables that must agree; the octree moves elements on its own and tells
them so; copies of an element take their box from the component; clear keeps some
tables and drops others; components are destroyed while tables name them.
Correct when: what is registered is found, where it is or where it last
said to be; ids lead to their own element; no table holds a dead component; an
index never means two components.

**Moving component** (`Some-UE/MoeLerpToTargetComponent.cpp`). A server starts a
move by setting one replicated value; server and clients then move on their own.
State: per end the value it knows, the move it runs, its place, whether it moves,
and the notifications that are not yet broadcast.
Operations: start a move (whole or one axis), the handler of the value, BeginPlay,
tick, notifications in which scripts may start the next move.
Hard: values that come late, before BeginPlay, or not at all; clients that join in
the middle with a clock of their own; a move started inside a notification.
Correct when: everybody comes to rest at the last target, at the server's time or
no more than the tolerated delay off it; listeners can tell from broadcasts
whether it moves.

### Not modelled (section 6 says what could come next)

| Component | State and operations | What is hard |
|---|---|---|
| Encoding converter (`c#/other/FileEncode/FileEncode/WorkModel.cs`) | file list, one worker, two busy flags | flags set by the worker itself, list cleared while it is walked through |
| File packers (`go/gowork/mypkg`, `dotnet/FileEncrypt`) | one file; rename, XOR in place, rename | death between the three steps |
| Events, signals (`c#/code/XUtils/XEvent.cs`) | handler lists | removal while handlers run |
| Parallel unzip (`MultiThreadUnZip`) | an index under a lock | the reported share |

### Not modelled, and why

The crawler's web client and address parsing are inputs and text; the tray
launcher's interesting part is the operating system; the serializers are
recursive reflection over .NET types; the command-line and conversion tools,
scripts, shaders and demos keep no state worth a model. The bulk of the
repository's C++, about 127,000 of 130,000 lines, is a copy of Google's protobuf
(`cmake.projs/protobuf`), third-party code that the repository builds and never
changes, like the zip library; it is not this project's subject. What
remains of the C++ is the ring buffer, the two Unreal components above, and
demos. `PROJECT.json` lists every component with its status.

### How components interact

Within a downloader: host thread and worker threads share counters and lists
under locks, and the file through the file system's sharing rules. Within the
crawler: workers call the UI thread and wait for it. Players and the frame-sync
server exchange datagrams; the ends of a moving component share a replicated
value; minimap components, managers and the panel call each other on one thread.
The programs do not call each other, so the modules below do not
compose; each contains its own environment (host, network, disk, UI, engine).

## 2. Modules

| Module | Models | Proved about in |
|---|---|---|
| `ChunkDownload` | block downloader | `ChunkDownload_proofs` |
| `BatchDownload` | batch downloader | `BatchDownload_proofs` |
| `Crawler` | site crawler | `Crawler_proofs` |
| `SpscRing` | ring buffer and the program that drives it | `SpscRing_proofs` |
| `ResumableFile` | what the block downloader promises about its file, abstractly | refined by `ChunkDownload` |
| `BoundedQueue` | what the ring promises, abstractly | refined by `SpscRing` |
| `FrameSync` | frame-sync server, its players and their network | `FrameSync_proofs` |
| `LerpToTarget` | moving component on a server and its clients | `LerpToTarget_proofs` |
| `Minimap` | minimap registry: components, managers, octree | `Minimap_proofs` |
| `MC*` | values, symmetry and constraints for TLC | |

Operators named after a slip ("Slip: ..." in their comment) are plausible wrong
versions of the definition that follows them. No specification uses them; each
is the mutant that shows that a property notices such a bug.

### ChunkDownload

| Code | Model |
|---|---|
| `StartDownLoadBigFile`, `Reset` (170-199, 258-281) | `Start`: aborts, clears the counters; `HeadFails` when `GetWebFileSize` throws |
| `InitChunkList` (73-164) | `InitResume` (trailer valid), `InitSetLength` then `InitWriteMeta` (new trailer; two steps, since `SetLength` acts at once and the bytes wait for the close), `InitSharingViolation` |
| `LockGetNextChunkInfo` | `Take`, `Exit` |
| `DownloadChunkStart` | `Open`, `RequestOk`, `RequestMismatch` (another length: the thread leaves the block), `RequestFails` (retried for ever, -1), `CloseFile` |
| `ChunkInfo.Write` (36-47) | `Write`: the first `Seek` flushes the buffered progress, the second the data; the new progress stays buffered (`pend`) |
| `WriteToChunk`'s counter (68) | `Count` |
| `AbortDownloadBigFile`, `Thread.Abort` | `AbortDownloadBigFile`, `Die` at any later point |
| `CheckIsFinished` | `PollFinished`, `PollCut` |
| end of the process | `Crash` at any point: buffers vanish, the file stays |

A byte is its offset; `good` holds the offsets where the file has the server's
byte. The file's length is one of four classes (absent, data, full, other).
`BlockSize * i` is computed modulo `IntMod`, as the code computes it in `int`.

`ResumableFile` is the promise, without threads, blocks or a trailer: a file holds
some of the server's bytes (`data`), and a start need not fetch some of these
again (`kept`). `Fetch` adds bytes, and keeps only what was there before;
`Publish` gives the file the server's length once it has all bytes. Two steps take
a complete file's record away, and the owner asked for both: `Restart` (a start
makes a trailer for a complete file, `XHttpDownLoader.cs:101-112`) and `LateWrite`
(a thread that was told to stop writes its buffered progress behind the end). The
refinement maps `kept` to what `InitChunkList` would take from the trailer
(`Kept`), `complete` to "the file has the server's length", `starting` to the time
between `Start` and the look at the file, `aborted` to "somebody was told to
stop", and `foreign` to `interfered`, after which nothing is promised.

### BatchDownload

A file is the sequence of its units, unit k of the server's file being k and 0
something else, so "the hash matches" is equality with `Want`. The counter
`m_current_download_size` is kept by item (`credit`), which loses nothing, since
the code only adds and subtracts, and says which item a wrong amount came from.
`Server` fixes how an item's server answers: with ranges, with the whole file,
or with the whole file and no length. `Die` runs what the catch block runs for
the place where the abort hits.

Failures: `OpenFails` (the file or its directory cannot be made or opened, or
another thread has it), `RequestRefused`, `WebFails` and an early `ReadEnd`,
`VerifyFails` (the seek, the flush or the reads of `CheckFileOk` throw, 262 and 268),
`PublishFails`. In the catch block (283-287) the local `download_size` has only been
set after a check that returned; so `VerifyFails`, like an abort at that place,
takes nothing back from the counter, and the history variable `unchecked` says
of which item. Opening or hashing the file at the item's path (199-207) happens
outside of the `try`; an exception there ends the process, which is `Crash`.

### Crawler

A lock section is one step, with one exception: `AbortDownload` holds the lock
over one `Thread.Abort` after the other, each of which may have to wait
(`AbortThread`). `LockFree` and `UiFree` are the guards of everything else.
A page is its address, kind and links. Thread numbers are reused once their
thread is dead. Address filters and the careful mode's HEAD cache are left out,
and so are the error and warning counts, which are only shown.

`seen` and `queue` hold addresses, as `AddUrl` compares `m_url_path`
(`Worker.cs:640`); the disk (`file`) is by file, and the constant `FileOf` says
which file an address has (`GetSaveFileNameFromUrl`, `XHttp.cs:173`, `208-228`). Several
addresses may have one. Then `OthersWrite` is the file system's sharing rule: who
creates or reads a file that another thread is writing gets an exception
(`SharingViolation`), and who comes later takes the other page for its own
(`FetchCached`: the links are those of whichever page the file holds, as far as it
was written).

### SpscRing

Every access of `tryput` and `tryeat` to a slot is a step. A store first waits in
`stored` (the producer's) or `cleared` (the consumer's null); its own thread sees
it at once, the other one when `PutArrives` or `ClearArrives` has happened, in any
order between slots. So the model covers every machine on which the accesses to
one location are coherent. `PutSpins` and `EatSpins` are what a compiler may make
of the busy loops. A failing try changes nothing and is a stuttering step.
`BoundedQueue` is the promise: `Put` while there is room, `Eat` the oldest. The
refinement maps `sent` and `eaten` to themselves: the store is the `Put`, clearing
the slot is the `Eat`.

### FrameSync

| Code (`server.go`) | Model |
|---|---|
| `handle_udp_pack` (88-120), called for each datagram (61-71) | `Handle(p, k, n)`: one step for a datagram of player p that asks for frame k and brings n words |
| find, replace or create the battle (105-114) | `fresh`, `NewBattle` |
| `handle_one_input` (133-167) | `MergeInput`, then `SealFrames` |
| `one_input_get_and_clear` (205-222) | `Part` (the first 80 bytes) and `Cleared` |
| `get_data` (170-194) | `Sent` (frames up to the one that crosses the MTU), `GetData` |
| end of the process, `checkError` | `Restart`: battles are only in memory |
| `time.Now()` | `Clock`: any other value |

The repository has no player. The model's player asks for the frame after those
it has and takes frames in order of their numbers; `Arrive` lets any question it
ever sent arrive, so lost, repeated and late questions are included; answers
under way are a set that may lose any of its members at each step. An input
is a number of four-byte words; a word is its place among those heard from its
player (`pos`) and, as history, the first frame it may go into (`first`). `gen`
tells apart the battles that had the same session id.

### Minimap

`RegisterSelf`, `UnregisterSelf`, `ReupdateSelfBound`, `Destroy`
(`OnComponentDestroyed`), `Clear`, `Rebuild` (`RebuildAllElenments`) and `NativeTick`
are the operations of component, manager and panel; `Found` is the query. `Collect` is
what a component does when its elements are asked for, by the panel for what it found or
by a script (`CollectMinimapDrawElement` is BlueprintCallable) at any time, registered
or not: all its elements get its index as `SubSortIndex`, and -1 when it has none yet
(`sortIndex`). `AddElement`, `RemoveElement` and `UpdateElement` are the engine's octree
as far as it is one leaf (up to 16 elements): an array in which the last element takes
the place of a removed one, with `SetElementId` called for whoever moves. A rebuild adds
the elements in any order: which one `FindAllElements` has is the engine's. `Copied` is
the copy constructor that computes the box anew. `told` is history: the box a static
component reported last. A component's map does not change, nor does its static flag
while it is registered.

### LerpToTarget

| Code | Model |
|---|---|
| `StartLerpToTrans`, `StartMoveTo`, ... | `StartLerpToTrans`, `StartAxisTo`, on the server, also inside a script's event |
| `OnRep_LerpToTargetSyncInfo` | `OnRep` with its outcomes `Snap`, `Follow`, `Chase` |
| `BeginPlay` | `BeginPlay` (up to its script) and `ReturnToBeginPlay` |
| `EnterMovingState`, `ExitMovingState` | the same; the script's event and the broadcast after it are frames on the call stack `owed`, taken off by `Broadcast` |
| `TickComponent` | `TickComponent` |
| replication, joining, leaving, time | `Replicate`, `Join`, `Leave`, `Advance` |

A transform is a number per axis. Between an event and its broadcast a script may
start the next move: `owed` is not empty then and `StartLerpToTrans` is enabled.
Replication brings the newest value or one in between, never an older one, as
the engine does for a property.

## 3. Runs

| Run | Question | Bounds |
|---|---|---|
| `chunk_resume` | Is what is on disk always safe to resume from, and the counter right? | file of 3 bytes in blocks of 2 (a full and a short block), 2 threads, 2 starts per process, any number of process deaths |
| `chunk_live` | Does a download end? | 5 bytes in 3 blocks (more blocks than threads), 2 threads, one start per process |
| `chunk_overflow` (violation) | The same, with a block beyond the largest int | `IntMod` = 4: the file has 4 bytes, its second block begins at 2 = 2^(w-1) |
| `batch_resume` | Publication, counter, no item forgotten | a sized and an unsized hashed item, files of 2 units, leftovers of 1 and 3 units, 2 threads, 2 starts, one failure (of opening, request, read, check or publication), any number of process deaths; 1,549,426 states |
| `batch_hash_only` (violation) | Is a complete `.temp` resumed? | one start per process, no failures |
| `crawl_ends` | Is every address handled, the end reported, and truly? | 3 addresses with a cycle, two of them one file, thread limit 2, numbers for 3 threads; of a second start, a cancel and an exception at most two; 565,663 states |
| `crawl_cancel` (violation) | Does a click return? | one start, one cancel, one exception |
| `crawl_said_once` (violation) | Is the end logged once? | one start, nothing else |
| `lerp_moves` | Does everybody come to rest at the last target, on time? | a server and a client that comes twice with a clock 0 or 1 ahead, 2 moves of cost 0 or 3 on two axes, tolerated delay 1, time up to 7 |
| `minimap_tables` | Do octree, ids and tables agree? | 2 components of one map, 2 boxes, 3 indexes; 4,023,612 states |
| `frame_answers` | Are frames final, inputs accounted for and in time, and does a player catch up? | 2 players in one battle, one of whom listens; inputs of 0, 1, 2 words with a limit of 1; 2 battles of 2 frames, any number of restarts, a clock that jumps anywhere in 0..4, one answer under way |
| `ring_queue` | Is the ring a bounded queue, and does the program end? | 3 slots, 7 items: every slot is used twice, the first one three times |

Why these bounds are enough to say something. Two threads are the fewest that
race, and a second start gives the old threads of the first. Three bytes in
blocks of two give a whole block, a short last block, reads that end a block and
reads that do not. Leftovers shorter and longer than the file are the two ways a
resume can go wrong. A site with a cycle makes two threads find one address at
once, and `css` and `CSS`, one file on a disk that does not tell capitals apart,
meet there in each of the three ways: while one writes, after it, and after its
writing failed. Process deaths are not counted at all. In `lerp_moves` a delay of one step is
within the limit and one of two is not, the second move may start before,
during and after the first one, and a client may come at any point of either. In
`minimap_tables` two elements are enough for one to take the other's place, and
three indexes for a component to come back under a new one. In `frame_answers`
an input of two words is cut and one of one word is not, a jump of the clock makes
several frames due at once or none, and a frame with both parts is larger than
what is left of the MTU of 8 words. `MaxRead`, `MaxLen`, `MaxFaults`,
`MaxCancels`, `MaxStarts`, `LastStart`, `MaxJoins`, `MaxNow`, `MaxIndex`, `MaxHeard`,
`MaxBorn`, `MaxFlight` and `Sizes` are the named bounds; everything else is finite
by itself.

What each run does not explore is named in its constraint. `Undisturbed` ends
the exploration where `interfered` becomes true: where a thread that an
*earlier* start aborted changes what the *current* start uses. The code does
nothing against this (no generation number, no join), and the damage
is obvious in the model: an old thread adds to a counter that was
reset. Every property excludes such behaviours by name (`~interfered`), and the
step into them is part of the model. Under `Undisturbed` in `crawl_ends` at most
one aborted thread is alive and `starts + cancels + faults <= 3`: that is a bound
on size. The liveness property of that run is checked within the same bound.

Other history variables: `cut` (BatchDownload) marks items whose answer ended
early in a second chance, for which the caller's bookkeeping is known to count
too much (`XHttpBatchDownloader.cs:266`), so `CreditExact` leaves them out, as it
leaves out servers without ranges; `unchecked` marks items whose check threw, for
which `CreditExact` says what stays counted; `failed`, `crawl` and `said` (Crawler)
remember what was reported.

### Properties

- `MetaNeverAheadOfData`: whatever progress a restart would read from a valid
  trailer was written before. This is what the order of the two `Seek`s in
  `ChunkInfo.Write` is for.
- `PlainLengthMeansComplete`: a file of the server's length is taken for finished
  by the next start; it is, even if the process died between `SetLength` and the
  trailer, or after an abort.
- `CounterMatchesBlocks`: the counter equals what the blocks record, less what
  threads have written and not yet counted.
- `ProgressNeverLost`: on-disk progress of a block only grows.
- `Completes`: a running download ends unless it is stopped, or a refused answer
  made a thread drop its block (`XHttpDownLoader.cs:237`: nobody takes it again in
  this start; a hazard, and the exception is named in the property).
- `ImplementsResumableFile` (refinement): besides what the four above say of the
  file, that the poll never cuts it to another length, that nobody writes to a
  finished file without having been told to stop, and that a complete file's
  record is lost to a start or to such a thread only. A poll that does not join
  the threads (`PollCutAtOnce`) is noticed by this property alone. Both `Restart`
  and `LateWrite` occur: without either, TLC finds a step that is not allowed.
- `FinishedIsVerified`: an item reported Finished has the server's file.
  `VerifiedCopySurvives`: the last verified copy is never lost between Delete and
  Move. `DoneMeansSettled`: when the threads are gone, every item has its verdict.
- `CreditExact`: the counter holds a finished file's length, a running item's
  position, nothing of a failed item, and, where the check threw, the whole
  `.temp` file until the next start: the one error path that rolls nothing back.
- `QueueIsWatched`: while something is queued, a thread comes to look. `Ends`: the
  end of an undisturbed crawl is reported.
- `SuccessIsTrue`: at "finish: Success" nothing is queued or in hand, and every
  address found was reported as failed or has its file, whole unless an
  earlier start left it cut off or the writing for another address with that file
  failed. It does not say that the page in the file is that address's.
- `OneThreadPerAddress`: no two threads handle one address. Of files nothing like it
  holds, and the property says so.
- `RestsAtTarget`: who plays and does not move stands at the target of the last
  move it knows of. `ArrivalWithinLimit`: a client's move ends when the server's
  does, or within the tolerated delay. `BroadcastsBalance`: between two calls,
  starts and stops that listeners heard differ by whether it moves. `Settles`:
  all of them come to rest at the last target.
- `RegisteredIsFound`: a query that covers a registered component's box finds it.
  `IdsPointHome`, `TablesAreAlive`: the tables lead where they should, and to
  nobody who is gone. `KeysAreNotReused`: the key a component's elements got from
  its index is nobody else's key or index in that map, through clear, rebuild and
  registering again, because the counter is not reset. It does not say that the
  panel's order is strict; section 7 says why it is not.
- `HistoryAgrees`: two frames of one battle with one number are equal, wherever
  they are. `InputsAccounted`: what was heard is in the frames or waits, once and
  in order, or was cut off. `InputsInTime`: it is in the first frame with inputs
  sealed after it came, and in none whose time was over. `CatchesUp`: a player
  that goes on asking gets what is sealed, unless the battle is over.
- `ImplementsQueue` (refinement), `NothingOverwritten`, `AllEaten` (the program
  ends, unless a busy loop reads its slot only once).

Deadlock is checked in the downloaders' runs: a process can always be started
again. The crawler's runs say `CHECK_DEADLOCK FALSE`, because its form may just
sit there when no click is left; `Ends` and `UiReturns` take the place of the
check. So does `ring_queue`, whose program ends; `AllEaten` takes its place; and
`lerp_moves`, where everything rests once time is over, and `Settles` says so.
`minimap_tables` and `frame_answers` check deadlock.

### Fairness

`ChunkDownload`: the host polls until it is told that the file is there
(`Console/Program.cs:233-238` loops on `CheckIsFinished`), so the poll is weakly
fair; a thread that can go on does (`WF` on `Runs(t)`); `CloseFile` is in it
because a response ends or a read times out. Failing requests are retried
without limit, so the end needs a network that answers again and again: `SF` on
`RequestOk(t)` and `ReadSome(t)`. Nothing forces `Start`, an abort, a death or a
refused answer. `Crawler`: each thread and the running click handler go on
(`WF`); nobody has to click, nothing has to fail.
`SpscRing`: both threads are scheduled, and a store becomes visible in the end.
`LerpToTarget`: the engine begins play of what it spawned, ticks what asked for
it and brings a property's last value to every client that stays, functions
return, time goes on (`WF`); nobody has to start a move, to come or to leave.
`FrameSync`: a player asks again and again and the network, however bad, lets a
question and its answer through again and again (`SF` on `Answered` and on the
player's `Take`); the clock and restarts are not forced, and `CatchesUp` gives up
when the battle is replaced. `Minimap` has no liveness property: nothing in it waits.
`BatchDownload` has no liveness property: its host only looks at `IsDone`, and
`DoneMeansSettled` says what that means.

## 4. Findings

1. `chunk_overflow`: `XHttpDownLoader.cs:85` computes `BlockSize * i` in `int`.
   From 2 GiB on a block begins at a negative offset, `AddRange` throws, and the
   retry without limit never ends, in a class whose comment (`:179`) offers it for big files.
2. `batch_hash_only`: `XHttpBatchDownloader.cs:17` says that resuming needs the
   hash. With the hash and without the size, a complete `.temp` is requested
   behind its end, the server refuses, and the item is an error in every later start.
3. `crawl_cancel`: `Worker.cs:177` calls `Thread.Abort` with the lock held on the
   UI thread, while a catch block waits for the UI thread in `Log`. The project's
   Readme (`:11`) names the rule this breaks.
4. `crawl_said_once`: the thread counter is decremented at `Worker.cs:347` and
   compared with 0 in another lock section; two threads may both be the last.

## 5. Proofs

`ChunkDownload_proofs` proves, for every file size, block size, set of threads,
number of starts and width of int:

- `TypeCorrect`: `Spec => []TypeOK`, from `SizesAssumption` alone. It holds even
  when block offsets overflow.
- `MetaBehindData`: `Spec => []MetaNeverAheadOfData`.
- `PlainIsComplete`: `Spec => []PlainLengthMeansComplete`.
- `CounterIsExact`: `Spec => []CounterMatchesBlocks`.
- `ProgressIsKept`: `Spec => ProgressNeverLost`.
- `IsResumableFile`: `Spec => ImplementsResumableFile`.

All but the first assume `NoOverflow`, that no block begins beyond the largest int;
finding 1 is what happens without it.

The properties are not inductive. The invariant `SafeInv` that carries them has
these parts. `ThreadsInv`: threads of later starts do not exist, the threads of a
running start have its list, and only a thread with its file open has progress
in a buffer. `BlockBounds`: no block records more than it holds. Then, as long as
no old thread interfered: `OwnBlocks` (a thread works on a block of its own
start), `ListGood`
(what the lists record is on disk: this is why buffered progress may
later be flushed), `PendGood` (a thread's buffered progress is on disk as data),
`Begun` (a running start's blocks have reached their beginning) and
`CounterBelow` (the counter never exceeds what the blocks record). The last one
is the heart of `PlainIsComplete`: the poll cuts the file when the counter equals
the size, hence the blocks record at least as many bytes as the file has; lemma
`AllRecorded` says that so many recorded bytes are all bytes, a counting argument
on the pairs of block and offset; `ListGood` says that they are on disk.
`RecordedGrows`, `UncountedGrows` and `UncountedShrinks` are the lemmas about
cardinalities that `Write`, `Count` and `Die` need. Each part has its own lemma,
with a case per action, and `NextSafeInv` puts them together.

The counter and the progress need more, `StrictInv`. `DoomedInv` says whom an
abort can still reach. `FlowInv` says how blocks and the file change hands as long
as no old thread interferes: a block in a thread's hands has reached its
beginning (`BlocksBegun`), it is in one thread's hands (`Handed`), the file is open
for the threads of one start (`OneUser`), and neither the trailer nor progress in a
buffer is ahead of the block list (`TrailerBehind`), which is why the next flush
cannot take anything back. `CounterExact` then is an equation: the counter and the
bytes written but not counted add up to the bytes recorded. Only an abort makes it
an inequality, since a thread that dies between the two leaves the difference
behind. At the poll the counter equals the size, so nothing is uncounted
(`RecordedAtMost`: the blocks cannot record more than the file has), and every
block ends where it should (`EndsRecorded`), so what the poll cuts off is no loss.

The refinement needs one more invariant, `LateInv`: a live thread of an earlier
start was told to stop, once the file has its final length every live thread was,
and a trailer is only written to a file that does not have that length. `KeptIsGood` ties the
trailer to the data. A flush (`FlushImplements`) then adds to what is kept,
because `TrailerBehind` says that buffered progress is never behind the trailer,
or it reopens a finished file, and by `LateInv` the thread that does so was told to
stop. `StepImplements` goes through the steps that touch the file (`FileSteps`).
From the step on in which an old thread interferes every step is `Disturb`.

`BatchDownload_proofs` proves, for every list of items, set of threads, number of
starts and failures, every way to answer and every leftover on disk:

- `TypesHold`: `Spec => []TypeOK`.
- `FinishedFilesAreVerified`: `Spec => []FinishedIsVerified`.
- `CounterIsExact`: `Spec => []CreditExact`.
- `DoneIsSettled`: `Spec => []DoneMeansSettled`.
- `CopySurvives`: `Spec => VerifiedCopySurvives`.

They assume `ItemsAssumption` (each item is in the list once; there is a thread, as
`AsyncThreadLimit` is 5, `XHttpBatchDownloader.cs:46`) and `FilesAssumption` (leftovers
are files within the model's length). `SafeInv` has three parts. `ThreadsInv` holds
whatever interferes: an open file exists and no two threads have the same one open,
which the file system's sharing rules give. `CurrentInv` is about the threads of the
last start. `QueueOK` and `Holds`: an item is in the queue, with one thread, or through.
`FileOK` follows a file through the steps of a thread: what was asked for lines up with
what is there (`RequestOK`), what is read continues it or is a whole file put behind a
leftover (`Aligned`, `Appending`), and *past the check a thread owns a verified .temp*
(`PublishOK`); the two-step publication rests on this. `CreditOK` says for each item
what the counter holds of it: its owner's position, nothing, the published file, or the
`.temp` file whose check threw. `Step` splits a step of a thread into what it does to
its own item and the frame condition that everybody else keeps theirs, so that each
action has one lemma about one thread and one item.

`Crawler_proofs` proves, for every site, thread limit, set of threads and number of
starts, cancels and exceptions, from `SiteAssumption` (whose `"none" \notin Urls`
only says that "no page" is not a page):

- `TypesHold`: `Spec => []TypeOK`, which contains the bound on living threads.
- `AddressHasOneThread`: `Spec => []OneThreadPerAddress`.
- `SuccessHolds`: `Spec => []SuccessIsTrue`.
- `QueueIsNotLeft`: `Spec /\ [](Spare # {}) => []QueueIsWatched`.
- `QueueIsNeverLeft`: with an infinite set of threads, `Spec => []QueueIsWatched`.

The last two are one property. Threads are numbers, and a model has so many of
them; the program starts a thread whenever it wants one. `Spare # {}` says that
a thread can be had; with infinitely many numbers that is proved (only finitely
many live) and not assumed. In `SafeInv`, `ListOK` says that whoever lives and is not
aborted is in the list, `UiOK` and `FreshOK` that an undisturbed start begins from
nothing, `PlacesOK` that an address is queued once or handled once, and
`CrawlOK` what holds while a crawl goes on: the counter is the number of threads
between their first and their last lock section, whoever keeps the queue company
has been counted (`WatchOK`), every address found is queued, saved, reported or in
hand (`AccountOK`, `PageOK`, `WriterOK`), and once the end was `Said` nothing is left.
`ZeroIsTheEnd` is the heart of `SuccessHolds`: at zero nobody is counted, so the
queue has no company, so it is empty. `QuietStep` reduces a step of one thread to
five obligations (`Keeps`, `Counts`, `Watches`, `Writes`, `Reports`).

`SpscRing_proofs` proves, for every number of slots and of items:

- `RingIsQueue`: `Spec => ImplementsQueue`, the refinement.
- `NoOverwriting`: `Spec => NothingOverwritten`.
- `TypeCorrect`: `Spec => []TypeOK`.

The only assumption is `RingAssumption` (at least one slot). The invariant
`RingInv` ties each slot to the items between `eaten` and `sent`: an item that was
sent and not eaten is in its slot or on its way there and nothing else is
(`Held`); every other slot is empty or its null is on its way (`Freed`,
`Pending`); the indexes and the consumer's locals fit the histories (`Places`,
`InOrder`); and what a thread has seen in its slot stays true until it acts on
it (`Seen`), which is why no lock is needed. The arithmetic that makes it work is
`ModDistinct`: fewer than Size items in a row are in different slots.

`LerpToTarget_proofs` proves, for every set of clients, axes, values, costs,
clocks and bounds, from `LerpAssumption` alone:

- `TypeCorrect`: `Spec => []TypeOK`.
- `AtRestAtTarget`: `Spec => []RestsAtTarget`.
- `ArrivesWithinLimit`: `Spec => []ArrivalWithinLimit`.
- `ListenersCanCount`: `Spec => []BroadcastsBalance`.

`SafeInv` is a conjunction over the ends. `EndSafe` says of an end that plays that
either it is still between the two halves of BeginPlay, or it runs the last
move it knows of, or it stands at that move's target; `ArrivesOnTime` bounds the
end of the move it runs. Both are about one end at a time, so each action needs a
lemma for the end it changes, and the others keep what they had.
`BroadcastsBalance` speaks of an empty call stack and says nothing about the stack
in between, where starts and stops need not alternate: a script may start a
move inside the notification that the last one stopped. `CountInv` says that the
broadcasts made and those still on the stack come to 1 or 0, as the end moves
or not. The sum is not computed but witnessed (`Reaches`): there is a function on
the places of the stack whose first value is the balance, whose last value is the
goal, and whose steps are the frames' weights. `PopReaches` and `PushReaches` shift
it, so no induction over the stack is needed.

`FrameSync_proofs` proves, for every number of players, battles and datagrams
and every size, rate and limit, from `FrameSyncAssumption` alone:

- `TypeCorrect`: `Spec => []TypeOK`.
- `FramesAreFinal`: `Spec => []HistoryAgrees`.
- `InputsAreInTime`: `Spec => []InputsInTime`.
- `NoInputIsLost`: `Spec => []InputsAccounted`.

`MergeIs`, `SealIs` and `SliceIs` say once what the three parts of the handler do
to a battle; `HandleIs` and `NewIs` put them together. `InputsInTime` is inductive
as it stands: lemma `MergeInTime` says what may wait between the two halves of the
handler (`MayGoNext`), `SealInTime` that sealing puts it in its place.
`HistoryAgrees` is not: `Finality` adds that every frame anywhere *is* the one in
its battle's history, that histories and answers are numbered one by one, and
that no two battles, past ones included, have one `gen`. `InputsAccounted` is
carried by `Accounted`, a statement about the parts of one player as a function of
the frame, with the bound that nothing has a place beyond what was heard;
`SealAccounted` is its heart: what waits moves to the frame that is due, and a word
behind the limit becomes one that a full part accounts for.

`Minimap_proofs` proves, for every set of components, maps and boxes and up to
16 indexes, from `MinimapAssumption` alone, all five properties of `minimap_tables`:

- `TypeCorrect`: `Spec => []TypeOK`.
- `TablesAlive`: `Spec => []TablesAreAlive`.
- `IdsLeadHome`: `Spec => []IdsPointHome`.
- `AllFound`: `Spec => []RegisteredIsFound`.
- `KeysNotReused`: `Spec => []KeysAreNotReused`.

`AddIs`, `RemoveIs` and `UpdateIs` say what the octree's operations return, and
`AddKeeps` and `UpdateKeeps` what they leave alone: an id that leads home
(`Home`) and an element with a certain box (`Kept`). `RegisteredIsFound` and
`IdsPointHome` are not inductive, since a removed component leaves its element
behind. `ElementOK` says why such an element does no harm: its component was
given an index, its own index was given before, and if that index is in use it is
still that component's. `StaticOK` ties a registered static component to the
octree, and `IndexInv` says that indexes and cached sort keys are given once.
A rebuild gives all elements of one component the same index, and the last one
added has the id: `IdsAfterIs`.

Every invariant and every safety action property that a passing run checks is
a theorem. Only model-checked: liveness under fairness (`Completes`, `Ends`,
`AllEaten`, `Settles`, `CatchesUp`), ENABLED, and induction over data, which are out
of this prover's reach.

## 6. Plan

In this order; each module is written with `CONSTANTS` and recursive functions
rather than `RECURSIVE` operators, so that it can be proved about.

1. `ChunkDownload`, `BatchDownload`, `Crawler` with their runs, and the proofs of
   `ChunkDownload` (done).
2. `BoundedQueue` and `SpscRing`, run `ring_queue`, the refinement proved (done).
3. `FrameSync`, run `frame_answers`, its four safety properties proved (done).
4. `LerpToTarget`, run `lerp_moves`, its three safety properties proved (done).
5. `Minimap`, run `minimap_tables`, its five properties proved (done).
6. More proofs: the counter and the progress of `ChunkDownload`, all safety
   properties of `BatchDownload` and `Crawler`, `BroadcastsBalance` (done).
7. `EncodeWorker` (`WorkModel.cs`): the busy flags against the thread.

Abstract specifications worth stating: the bounded queue, and the resumable file
that `ChunkDownload` implements, as long as no old thread interferes (both done,
refinements proved).

## 7. Limits

The models check the code's control. They do not cover: the server's file changing while
it keeps its length (the trailer identifies a file by its length only); a host that
polls after a start that threw (both counters are 0 and the file is cut to length 0;
`Console/Program.cs` does not); the cast of `start_pos` to `int` in the batch downloader
(`:313`), the overflow of finding 1 once more; a HEAD answer without Content-Length in
the block downloader; torn writes of one 8-byte progress value; the contents behind a
pointer in the ring buffer (its program stores numbers), and the overflow of its indexes
after 2^31 items (it sends 99). In the batch downloader an item without a hash never
becomes Finished (`XHttpBatchDownloader.cs:237`): its host does not ask.

`FrameSync`: of too much input the server keeps the first 80 bytes
(`data[length-80:]` is taken after `length` was set to 80), and a repeated
datagram adds its input again; both are in the model and no text says
otherwise. A player cannot tell that its battle was replaced and puts the
new battle's frames behind the old one's. A frame too large for one datagram makes
the send fail, which ends the process (`Restart`). The cast of the frame count to
`int32` (`server.go:145`) is the identity in the model: it differs only when the
clock is set back by more than a year. `LerpToTarget`: sounds and
conversions between world and relative transforms are left out, and so are the
overlap events that `SetRelativeTransform` may raise inside a tick. `Minimap`: a removed static
component stays in the octree, is still found while it lives, is made anew by a
rebuild, and is found twice when it registers again; the properties only speak of
what must be found. Octrees of more than 16 elements are not modelled. `bStaticElement` is open to
scripts (`DungeonMinimapComponent.h:104`); the model flips it only while the component
is not registered, and without that an entry of the second table would survive
the removal (`DungeonMinimapWorldSubsystem.cpp:133`).

The panel's sort is not modelled, because its order is not strict in the code.
`DungeonMinimapComponent.h:11` says of `SubSortIndex`, translated, that together with
`DrawPriority` it makes the sort stable and so avoids flicker. All elements of one component share
one `SubSortIndex` (`DungeonMinimapComponent.cpp:16-20`), components collected before
they are registered share -1, the managers of different maps give out the same
indexes, and `TArray::Sort` (`SDungeonMinimapPanel.cpp:66`) is not stable. So elements of
equal priority may change places from frame to frame, against what the comment
says; the model shows where the keys come from and no more than that.

The crawler: `OneThreadPerAddress` is what the lock around `m_urls_set` gives. Two
addresses with one file are not told apart on the disk; one of them may fail on
the other's open file, be taken for cached, or overwrite it, and all three are in
the model. A cached html page's links are in the code those of the saved
page, which are relative and sanitised; in the model they are the links of the
page that was saved. The handler of a cached file goes by its extension
(`Worker.cs:328-335`), in the model by the address's kind. The unsynchronised error count
is only shown. `hazards` in `PROJECT.json` names the line and the properties of
each hazard, and why some have no property.
