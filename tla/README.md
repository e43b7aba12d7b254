# Verification of program-learning

The repository holds several small C programs: a thread pool, a service that
records speech sessions on a disk through that pool, a ring buffer, a library
for sound devices (tinyalsa: PCM streams and mixers), a reader for a microphone
array on top of it, and a packer of display frames for an SPI bus. This directory
models them in TLA+, checks the models with TLC on small instances, and proves
most of what the runs check with TLAPS, for instances of any size.

Paths below are relative to the repository (`src/` in PROJECT.json's map).

## Inventory

| part | code | state | operations | what is hard |
|---|---|---|---|---|
| thread pool | `libutils/handlerthread.c`, `demo/SpeechPersistentDemo/threadpool.c` (the same text) | a ring of tasks, three thread counters, two mutexes, two condition variables, `shutdown` | `threadpool_create`, `threadpool_add_task`, `threadpool_thread` (worker), `admin_thread`, `threadpool_destroy`, two getters | workers, callers, admin and destroyer interleave; `shutdown` and the broadcasts of destroy are outside the lock; wakeups can be lost or taken by the wrong thread |
| recording service | `demo/SpeechPersistentDemo/SpeechPersistent.c` | current tree and its index, `gPreName`, count of kept sessions, directories on the disk | `Init`, `speechStart`, `speechProcess`, `speechStop`, `unInit`, the tasks behind them, `UploadTask`, `remove_file` | the pool's worker and detached upload threads share globals without a lock; session ids are the time in seconds; a full disk |
| its client | `demo/SpeechPersistentDemo/SpeechDemo.c` | none | calls in a fixed order with pauses | whether its pauses are what makes the service right |
| ring buffer | `libutils/fifo.c` | a ring, two pointers, two 32-bit counters | alloc, write, read, drain, reset, size, space, free | one writer and one reader without a lock or barriers; wrap of pointers and counters |
| PCM library | `speech/src/pcm.c` | `running`, `prepared`, `underruns`, descriptor, mapped ring and its pointers | open, close, prepare, start, stop, read, write, mmap transfer, wait, position and timestamp, `avail_min` | flags and pointers that copy the state of a kernel stream which changes by itself (xrun, suspend); retry after an xrun; a transfer cut short; signals during a wait; failure in the middle of open; pointers that wrap at the boundary |
| mixer library | `speech/src/mixer.c` | descriptor, controls, names of enumeration items | open, close, setters and getters | failure at every step of open; read-modify-write of values other processes set too; conversions |
| microphone array | `speech/src/speecharray.c` | a buffer and what is left in it between calls | open, close, read, (empty) write | samples that start anywhere in a block, data kept from call to call, a second read after a skip; an open that fails half way |
| SPI packing | `demo/perfdemo/perfdemo.c` | one output buffer and its length | several packers of the same frame | 9-bit symbols across byte borders, constant shifts, byte order, a buffer that is reused |
| lists | `libutils/llist.h`, `libutils/list.h` | intrusive lists | add, delete, iterate | used by nothing in the repository |
| handler thread interface | `libutils/handlerthread.h` | - | declarations only | implemented by nothing |
| command line tools, log output, build files | `speech/test/*`, `dprintf.c`, Makefiles | - | - | no state of their own |

Interactions. The recording service creates a pool of one worker
(`threadpool_create(1, 1, MAX_INDEX)`) and hands it every start, chunk and stop
as a task; after enough completed sessions the worker starts a detached upload
thread that shares the service's globals. The microphone array reads through
`pcm_read`. Mixer and PCM library talk to the kernel through ioctl and, for rings,
through mapped memory. The fifo, the lists and the packer stand alone.

## Modules

| module | models | composes |
|---|---|---|
| `TaskQueue` | what the pool promises: a bounded FIFO queue whose tasks run at most once | |
| `ThreadPool`, `ThreadPoolProperties`, `MCThreadPool` | the pool | refines `TaskQueue` (`IsTaskQueue`) |
| `ThreadPoolProofs` | theorems about the pool, and that it implements `TaskQueue` | |
| `SpeechPersistent`, `SpeechPersistentProperties`, `MCSpeechPersistent` | the recording service, its clients and its disk | uses the queue of `TaskQueue` for the pool |
| `SpeechPersistentProofs`, `SpeechPatientProofs` | theorems about the service for every client, and for a patient one | the second extends the first |
| `Fifo`, `FifoProofs` | the ring buffer and its theorems | |
| `Pcm`, `PcmProofs`, `MCPcm` | a PCM handle, its client and the kernel's stream | |
| `Mixer`, `MixerProofs`, `MCMixer` | a mixer handle, the card and another process | |
| `SpeechArray`, `SpeechArrayProofs`, `MCSpeechArray` | a handle on the array from open to close, its client and the device | `pcm_read` is its device |
| `SpiPack`, `SpiPackProofs`, `MCSpiPack` | the packers, the display that decodes what they send, and their theorems | |

Definitions named `...Unlocked`, `...Late`, `...Forgets` and the like, marked
`Mutant` in a comment, are wrong variants of the definition that follows them;
replacing it by one of them must make TLC find the named property violated. No
specification uses them.

### ThreadPool

A worker is an index of `pool->threads`; `wpc`, `ppc`, `apc` and `dpc` say where
workers, callers, admin and destroyer are. A critical section of `pool->lock` is
one step, because nobody else can act on what it reads, with one exception:
testing a waiting condition and entering `pthread_cond_wait` are two steps
("parking"), since `shutdown` is written and the conditions are signalled
without the lock. `Worker` is `threadpool_thread` (252-313), `AddTask` and
`Calling` are `threadpool_add_task`, `Admin` is `admin_thread` with its samples
taken under two locks, `DestroyCall` and `Destroying` are `threadpool_destroy` and
`threadpool_free`. Condition variables may wake spuriously. `ExitedIsESRCH` covers
both behaviours of `pthread_kill(t, 0)` on a thread that has exited.

Assumptions: the pool has been created and `pthread_create` succeeds; a task's
function returns and does not call the pool; the unlocked reads of `shutdown` and
`live_thr_num` are sequentially consistent; tasks are named in the order they are
offered.

### SpeechPersistent

The pool is the queue that `TaskQueue` specifies, with the one worker of `Init()`.
Each access of the worker or of an upload thread to `gpDefaultPath`,
`gnDefaultPathIndex`, `gPreName` or the disk is a step, except that a `mkdir` reads the
path it makes in its own step (256-264, 328-342): the reads just before it and the call are
not separated. A directory is a tree and
an id, an id is the second in which the session started, and the three files of a
session are one sequence of chunks. `level` counts which of the three directories
above the sessions exist. `Habit` lists the clients. `Patient` meets two conditions: it waits between sessions until
the service is done (`patient`), and it opens no two sessions in the same second
(`distinct`). `Demo` is the client of `SpeechDemo.c`: its pauses of 100 to 300 ms leave the
service time to finish, but its sessions follow each other within a second, so they share an id and
a directory. `Hasty`, `Chatty` and `Idle` wait for nothing and share ids; `Brisk` opens
one session per second without waiting. The disk may refuse a directory, a file or the
rest of a chunk as often as the habit's `faults` say (`LevelRefused`, `DirRefused`,
`WriteRefused`): `Full` and `FullLater` are patient clients of such a disk, `Chatty` is a
hasty one. What was refused is kept in `refused`, and a chunk of which only a part was
written is `torn`.

### Fifo

`memcpy` is byte by byte, and each store to a shared field is a step. The code's
comments ask for barriers that are not there: `ordered` says whether the writer's
stores become visible in the order of the program, and where they do not,
`WriteNdxEarly` lets `wndx` be seen before the bytes it counts. The reader's barrier
(90) is not modelled. Callers respect `st_fifo_space` and `st_fifo_size`, as the header
asks. Bytes carry their number in the stream.

### Pcm

Sizes are in frames. `Client` is the program, `Library` the steps of `pcm_read`,
`pcm_write`, `pcm_wait` and `pcm_mmap_transfer`. The kernel is external: `Play`, `Capture`,
`Xrun`, `Suspend` and `Die`; PREPARE resets both pointers and drops the ring. READI and WRITEI
may be cut short by an xrun, a suspend, a failure, or a signal that lets the stream run on
(`cut`); a signal before the first frame ends them with EINTR, and ends a `poll`. A device that fails fails for
good. A captured ring goes on, over frames that were not read, until it holds `stop_threshold`
of them, and `pcm_wait` is woken by what it polls for: room in a played ring, an error, a
signal or its timeout, never by captured frames. `pcm_open` negotiates: the device grants period sizes of `Period`, `boundary`,
`start_threshold`, `stop_threshold` and `avail_min` are computed as in the code, and it may fail at each
of its steps (`failure`). The two ways to share the pointers differ: `appl_ptr` is what
the library sees, `k_appl_ptr` what the kernel sees, and with `sync_ptr` the first is a
copy that SYNC_PTR exchanges. `upset` is a history of what the library does not
handle, and each property names the cases it leaves out:

* `stopped`: a stop of a stream of whose `appl_ptr` the process has a copy, which survives PREPARE;
* `suspended`: a suspend between PREPARE and the start;
* `interrupted`: a signal that ends an ioctl or a poll with an error;
* `unprepared`: a ring used without `pcm_prepare`, which `pcm_start` prepares too late (1017);
* `overrun`: a frame captured in the place of one that was not read;
* `wrapped`: a played stream that reached the boundary.

Assumptions: the kernel's pointers wrap at the boundary the library computes (one with longs of 64
bits takes a larger one). Nobody but the library calls `pcm_start` on a ring. The return for a
negative count of frames (1203-1206) is not in the model: `AvailNatural` of `PcmProofs` shows that
neither comparison yields one.

### Mixer

`mixer_open` is a chain of steps each of which may fail; `mem` and `fds` are what the
process holds. The setters are the calls of a client of a card of five controls.
`mixer_ctl_set_value` is two steps, its ELEM_READ and its ELEM_WRITE, and another
process may write between them. The getters, `mixer_ctl_get_array` among them, read
back what was set. The kernel refuses values out of range.

### SpeechArray

`speechArrayOpen` succeeds or fails at one of the steps of `Part`; `held` is what is left.
Sizes are in words of input; a word is its number in the device's stream, so its
sample and tag are known. The overlapping `memcpy` that moves the rest of the data
to the front is a copy from low to high addresses. `pcm_read` fills
the block it was asked for or fails: that it also returns 0 after a short transfer (pcm.c:541, see
Pcm), which leaves words of an earlier read in the block, is not in the model. The device may
lose frames between two reads.

The settings pair clients and devices. Three kinds are in `Served`, whose calls never both
keep words and skip some, as the properties about samples need: a client that asks for
whole samples and once for more than the buffer, also with a device that fails, and the client of
`speecharraytest.c`, which asks for a buffer full, with a device that loses a frame
and with an array of which some of the first samples are silent. `Any` lifts that:
requests below and at the size of the buffer, of a device that loses a frame and an
array that is silent for long enough that calls keep and skip, keep too much, and find nothing.

### SpiPack

A byte or a word is the set of its one-bits. `Received` decodes the output as the
display does, most significant bit first, nine bits per symbol; the packers must
send `Stream`. Each packer is modelled as the whole call, its header included; that of
`display_data2` is wrong in the code, so only its pixels are compared. The machine is little-endian and the buffer comes from `malloc`.

Every module has a type invariant `TypeOK`, and each is proved: by `TypeCorrect`, `ServiceTypes`,
`MixerTypes`, `ArrayTypeCorrect` and `PackTypesHold`, or as a conjunct of an inductive invariant
(`Consistent` of the fifo, `CallInv` of the PCM library).

## Runs

"v" marks runs in which TLC must find a violation.

| run | instance | question |
|---|---|---|
| PoolFixed | 2 workers, 2 callers, 3 tasks, queue of 2 | Is a pool of fixed size right, from locks to liveness? |
| PoolElastic | 1..2 workers, 1 caller, 3 tasks | Do growing, retiring and destroying at any moment keep counters and queue right? |
| PoolElasticStrands (v) | as above, growing at 2 queued tasks | Is every accepted task of an elastic pool run? |
| PoolDestroyHangs (v) | 1 worker, 1 task | Does destroy return? |
| Speech | 4 sessions, 2 trees of 2, 2 upload threads, 7 kinds of client; 470 000 states | What does the service keep, for which clients, and on a full disk? |
| SpeechUploadRace (v) | 3 sessions, 1 upload thread | Is a completed session stored if it starts during an upload? |
| Fifo | ring of 4, counters modulo 7, 14 bytes, stores in order or not; 296 000 states | Do reader and writer agree without a lock? |
| SpeechArray | samples of 4 words, buffer of 24, 120 words; 107 000 states | Are samples returned once, whole and in order, which calls write outside the buffer, and is a handle released? |
| SpiPack | frames of 1, 4, 5 words, two frames in a row | Do the packers send the frame? |
| Pcm | ring of 3, boundary 6, 11 kinds of handle, calls of 2 and 4 frames, 2 xruns, 1 disturbance; 1.2 million states | Are flags, retries, waits and the ring right, and until when? |
| PcmWraps (v) | the same without disturbances | Are only frames that are available copied? |
| Mixer | 5 controls, 3 writes; 432 000 states | Is what open collects released, and what is set kept? |

What they show:

* **PoolFixed**. The lock is held by at most one thread across steps and what a thread
  tested still holds when it waits (`WaitConditionStillHolds`); a queued task always has somebody
  coming for it (`NoStrandedTask`) and sleeping workers are matched by wakeups
  (`WakeupPerTask`); destroy frees nothing in use (`NoUseAfterFree`); tasks run,
  calls return, and destroy returns unless a worker was parking
  (`TaskServed`, `CallReturns`, `DestroyReturnsUnlessParking`).
* **PoolElastic**. `LiveThreadsCounted`, `IdlePoolShrinks`, `CallReturns` (of the calls a
  destroy meets, those that are awake return as well), and
  `IsTaskQueue`: the pool refines the abstract queue with its ring read from
  `queue_front` as `pending`.
* **PoolElasticStrands**. `wait_exit_thr_num` left from a shrink makes the worker that
  `add_task` woke retire; the task stays queued (finding at handlerthread.c:266).
* **PoolDestroyHangs**. `shutdown` and the broadcast fall between a worker's test and
  its wait; destroy joins it for ever (finding at handlerthread.c:169).
* **Speech**. With a patient client whose sessions start in different seconds recordings are kept
  until uploaded (`RecordingKept`), and a full disk costs the session
  or the chunk it refuses and no other; with any patient client, the demo included, interrupted and
  uploaded sessions disappear (`NothingLeftBehind`) and `gPreName` is not used after it is freed
  (`NameNotUsedFreed`); with every client chunks are appended in order, an id
  outlives the tasks that point to it, the count is exact, and a stopped session is
  processed.
* **SpeechUploadRace**. `EveryRecordingKept` fails for a client that is not patient
  (finding at SpeechPersistent.c:207).
* **Fifo**. `SizeExact`, `ReadsInOrder`, and the inductive invariant `Consistent`. Without
  ordered stores the counters stay exact and nothing is overwritten too early; what the
  reader may see wrong are bytes announced before they are stored, no others.
* **SpeechArray**. `NoOverrun` names the three kinds of call that write outside the buffer:
  one that has kept words and skips (line 306 counts the kept words twice), one that has kept more
  than leaves room for a block, and one that finds no sample that counts in what it
  read. Each occurs in the run; with every other call of any client the buffer is large enough. For the
  clients and devices of `Served`: no torn, repeated or lost sample (`InOrder`), full
  answers (`NothingLost`), and calls that return unless the device fails (`ReadsReturn`). A failed open
  and a close leave nothing held but the device that the label `Error` forgets
  (`NothingHeld`).
* **SpiPack**. What the display decodes is the frame, for the bit-wise and the word-wise
  packer, and no byte is written that is not sent; `display_data2` sends the pixels too
  (`PixelsArrive`). An odd word at the end is not sent by the last two, and the
  properties say so.
* **Pcm**. A failed open or a close leaks nothing but what `NoLeak` names. Outside the four
  cases `stopped`, `suspended`, `interrupted` and `unprepared`, `prepared` and `running` never make it ask
  what the kernel forbids (`NeverRefused`). A call that returns 0 has transferred its data
  once, or only a part of it: then the stream stopped and the next call meets that, or
  a signal cut the ioctl short and nobody learns of it; a failed one has
  transferred nothing (`TransferredOnce`). Ring frames are neither overwritten nor
  repeated, with either way to share the pointers, across xruns, suspends and restarts, and past
  the boundary for captured streams (`InOrder`): in every case but a suspend, `upset` ends what
  it says. The position reported is
  the kernel's while `upset` is empty (`ReportsAvailable`). Calls return, signals, suspends and PCM_NOIRQ's
  computed waits included, outside `stopped`, `unprepared` and `wrapped`, whose wrong
  counts of frames may keep a call going; the reader of a captured ring without PCM_NOIRQ needs a
  `stop_threshold` that is reached (`CallReturns`).
* **PcmWraps**. `pcm_mmap_playback_avail` is wrong for a full ring of which only one
  pointer has wrapped (finding at pcm.c:1049).
* **Mixer**. Whatever step fails, no memory is left; the card's descriptor and no other
  is closed, outside the known defect; each value is the last one it was set to
  unless another process wrote to its control between a call's two ioctls, every
  percentage is accepted and arrays read back as set (`LastSetHolds`); a name selects its
  item.

### Why the bounds are enough

Pool: two workers and two callers suffice for every pairwise race, three tasks fill
a queue of two and block a caller, two workers let one retire while one remains;
the theorems remove these bounds for the safety properties. Speech: two trees make
an upload's switch come back to a tree used before, four sessions of two per tree
start two uploads; a disk that refuses once can do so in the first tree or, after an
upload has cleared `gPreName`, in the second, with sessions behind it. Fifo: fourteen bytes
wrap a ring of four three times and counters modulo seven twice; the theorems remove
the bounds. SpeechArray: samples are two
frames of the device, a block is three samples and the buffer two blocks, so samples start at every
frame of a block and a call may keep part of one; 120 words are several calls, each of which may
read twice, and the three kinds of overrun of `NoOverrun` all occur. SpiPack: packing permutes
bits, so one bit at a time and a full byte decide it; two groups of eight bytes and
an odd word cover the loop; two frames in a row cover the reused buffer. Pcm: a
boundary of two rings, the least for which pointers and ring wrap apart, streams that
pass it; calls smaller and larger than the ring; captured rings that stop when full and
two frames later;
a second xrun strikes the retry of the first; one stop, suspend or signal can fall into
any step of any call (PcmWraps needs none). Mixer: every type of control, one with two values, one with a range that
starts below 0; three writes are a call, an intruder and another call.

`CHECK_DEADLOCK FALSE` everywhere: each system may stop. A pool is destroyed, a
service closed, a handle closed or failed, a client may make no more calls; bounds
end the rest. That nothing stops where it must go on is stated by the liveness
properties.

### Fairness

* Pool: strong fairness of each worker, each call under way, the admin and a destroy
  under way. They take the lock, and a thread that wants a mutex released again and
  again gets it under the usual schedulers. Nobody has to call the pool, and no
  spurious wakeup is promised.
* Recording service: weak fairness of the worker and of each upload thread; they are
  threads that run and wait for nothing but a task.
* SpeechArray: weak fairness of the device's answer and of the call's own step.
* Pcm: weak fairness of the library's step, of playing and of capturing: a thread in
  a call runs, and a running device moves. A signal, a suspend or an xrun is promised by nobody.

## Proofs

Checked by TLAPS from nothing but the named assumptions on the constants of each module
(`PoolAssumption`, `FifoAssumption`, `SpeechAssumption`, `PcmAssumption`,
`MixerAssumption`, `SpeechArrayAssumption`, `SpiAssumption`), which TLC evaluates too.

Each theorem rests on an inductive invariant; the larger ones were checked with TLC on the
component's instance first. Where a theorem has a hypothesis, it is a condition on the
constants that the instance of its property's run meets, and the case it leaves out is named below.

**ThreadPoolProofs** - for every `MinThr <= MaxThr`, queue length, set of tasks and finite
set of callers, and both values of `ExitedIsESRCH`:

* `TypeCorrect` and `BusyCounted`, from `PoolTypes`: types, the bounds of the counters
  and the exact busy count. The bounds need each other: `live_thr_num` stays in
  `MinThr..MaxThr` only because retiring tests it under the lock.
* `NoMissedWakeup`, from `Waiting`: the lock and both wait sets, and that a call sleeps
  only while the queue is full (`BlockedOnlyWhenFull`). The parking thread
  must hold the lock for its test to stay true, and that it is the only one there is
  part of the invariant.
* `NothingStranded`, from `PoolTypes`, `Waiting`, `Staffed` (nobody leaves a pool of
  fixed size before shutdown) and `Attended`. The case that needs all of them is the worker
  that goes to sleep: it may only because the queue is empty.
* `WakeupForEveryTask` counts: while a worker of a pool of fixed size sleeps, at least as many workers and signals
  are on their way as tasks are queued (`Awaited`). Each step is a change of cardinality of a
  set of workers by one, or of the queue by one; a signal that wakes nobody is harmless
  because then nobody sleeps.
* `LiveThreadsAreCounted`, from `PoolTypes` and `LiveCounted`, by cardinalities of the
  set of live workers.
* `FreedLast`: destroy frees nothing in use, from `Retreat`, which says who is gone at each
  step of destroy. Its hypotheses are those of the property's run, `FixedSize` (no worker retires) and
  `QuiescentDestroy` (no call is under way when destroy is called): otherwise the code joins by an index whose
  thread has changed, or frees mutexes a caller holds (Known defects).

* `Refinement`: the pool implements `TaskQueue`. The mapping
  reads `Pending` off the ring from `queue_front` on, `Running` off the tasks the workers hold
  (`Holding`), and whether a task was refused or dropped off its fate (`Met`). Adding and
  taking a task are `Append` and `Tail` on that sequence although the ring wraps; every other
  step is a stutter. `QueueInv` says that a task is in one place at a time, which the
  mapped steps need for their guards.

**FifoProofs** - for every ring size, counter modulus larger than it and stream length:
`AlwaysConsistent`, `SizeIsExact` and `StreamInOrder`, from the inductive invariant
`Consistent`. `ReadsInOrder` is not inductive: it needs that every byte between
reader and writer is intact, and that pointers and counters, which each thread
updates one after the other, are ahead of one another by the lengths the history
counts.

**SpeechPersistentProofs** - for every set of sessions, number of trees, queue length and
client, patient or not:

* `Service` is the invariant `ServiceInv`. Its core is `Line`: the task the worker runs
  followed by those in the queue is, for each session, what its state says is due, in the order
  of the calls. `IdOutlives`, `AppendedInOrder` and `CountsKept` follow from it, with `Written`
  (a file holds the chunks up to the one in line) and `Counted` (the count is that of the kept
  sessions).

**SpeechPatientProofs** - for every client that waits until the service is done before it
opens the next session, and for `RecordingSafe` also opens no two sessions in the same second.
Nothing in the code makes a client do either. Without the wait a
recording is lost (SpeechUploadRace) and `gPreName` may be used after it is freed; sessions of one
second share a directory, and the demo's do (habit `Demo`).

* `NameSafe` (`gPreName` is not used after it is freed), `NothingLeft` and `RecordingSafe`
  (a recording is there until it is uploaded, but for what the disk refused), from
  `PatientInv`: one session is served at a time (`OneAtATime`), an upload and a session
  are never in the same tree (`OneTree`), ids differ where the client's seconds do (`DistinctIds`), and what
  a finished session has on the disk (`Stored`).

**PcmProofs** - for all handles, period sizes, `INT_MAX`, calls and devices:

* `PcmCalls` is `CallInv`: types, the sizes `pcm_open` computes, where a call is and what it
  knows there. `boundary` is computed by a loop; that it ends at `b * 2^k` within `INT_MAX`
  is shown by the least number of rounds after which it stops (`LeastNumber`), as the provers
  have no induction over data.
* `NothingLeaks`, from `HandleInv`, by the step at which open failed.
* `Transferred` (`TransferredOnce`), from `Returned`, if `ThresholdInRing`: no start threshold is
  larger than its ring. With a larger one `pcm_mmap_transfer` comes to a size of 0 before
  the stream runs and returns 0 without having transferred (Known defects). The property allows
  a short transfer that returns 0 where the code has one: at a stop, or a signal.
* `Unrefused` (`NeverRefused`), from `StreamInv`: while none of the four excepted
  disturbances has happened, `running` and `prepared` say what state the stream can be in, and
  the copy of `appl_ptr` is the kernel's. Its hypothesis `RingOfTwo` keeps the default
  threshold, half a ring, above 0; a ring of one frame is started before a frame is in it.
* `FramesInOrder` (`InOrder`) and `Reported` (`ReportsAvailable`), from `RingInv`: the frames between the pointers
  are in the ring at their places (`Holds`), the boundary is a number of whole rings, and
  what the library counts as available is what the stream holds (`RingCounted`). The
  lemmas about remainders (`ModMultiple`, `ModSum`, `ModApart`) and about frames put in and
  taken out (`PutFrames`, `TakeFrames`) carry the wrap of the ring, `CommitRing` and
  `CaptureRing` that of the pointers at the boundary. They have no hypothesis; what they do not
  say is in the properties, which speak of a ring until one of the listed cases of `upset` happens
  to it. The invariant needs the same (`Disordered`), since the library has lost count of
  the frames from there on.

**MixerProofs** - for every card: any number of controls, types, ranges, values and items.

* `HeldByNobody` (`NothingHeld`), from `OpenInv` (`Opening`): what is allocated is what `mixer_close` can reach
  from the handle (`Reachable`), at each step of `mixer_open`.
* `LastSet` (`LastSetHolds`) and `NamedItem`, from `ValueInv` (`Setting`): values stay in the range
  the kernel accepts, which for percentages is arithmetic on the range, and between a call's two
  ioctls the control has the values the call read, unless another process disturbed it.
* `MixerTypes`, from both and `Handle`: the control `mixer_open` is in and its count stay in the card.

**SpeechArrayProofs** - for all sizes with `Sizes`: frames divide samples, samples the buffer, a block
is at least two samples (12 words, 2 words and thousands of words in the code).

* `NeverOverruns` (`NoOverrun`), for every client, array and device, from `Inside`: sizes and
  marks are whole frames within the buffer (`Calling`, by where the call is), and so is where each word of the
  buffer stands in its sample (`Aligned`), which bounds how far the skip can go. The calls that
  do write outside the buffer are the cases the property names, and `DigestInside` shows that they are all.
* `SamplesInOrder` (`InOrder`) and `AllReturned` (`NothingLost`),
  from `ArrayInv`. Between calls the words kept are the device's last ones, and whatever came
  before them is returned, silent or lost (`Between`, `Before`). Within a call the buffer holds
  a run of the device's words before the mark `data`, then what is read; a device that loses frames
  makes it two runs, of which the second starts less than a sample later (`Pieces`, `Laid`).
  `DigestFirst` and `DigestSecond` are the code before and after the skip.
  `skipData` and `parseData` are loops, written as recursive functions. That each is defined, and where
  each stops, is shown at the least place where it would not (`LeastNumber`, from the
  well-foundedness of the naturals): `SkipDefined`, `FirstThatCounts`, `ParseDefined`, `ParseFits`,
  `ParseWhole`. The properties speak of the clients and devices of `Served`: samples are
  whole (`WholeSamples`: nothing lost or silent) or requests are a buffer full (`BufferFull`: a loss is
  shorter than a sample, and silent samples never fill a buffer; `SomeSound` finds the one that
  counts). Nothing in the code enforces it: for the others a call
  may overrun, as `NoOverrun` says, and returns anything after that.
* `ArrayTypeCorrect`, from `ArrayInv` and `Ranges`, for the clients and devices of `Served`: a call that
  overruns leaves sizes beyond the buffer.
* `HandleReleased`: a failed open and a close hold nothing but the device the label `Error`
  forgets, for all sizes.

**SpiPackProofs** - for every length of frame, size of buffer, content of the frame and of
the area, and whatever the buffer held before; no hypotheses:

* `SlowPacker` (`SlowSendsFrame`), `FastPacker` (`FastSendsFrame`) and `PixelPacker`
  (`PixelsArrive`), from `PackInv`: what the last packer left in the bytes that are sent,
  as long as the caller has changed nothing. For the bit-wise packer that is the frame symbol by symbol
  (`BitWise`), for the others the bytes they compute and zeros behind them (`WordWise`).
  `PackTypesHold` is the type invariant.
* The packers of words: `WordBits` and `NineBits` follow each bit of a word through
  `swap_endian_32` and the store, `GroupCodes`, `Group2Codes` and `HeaderCodes` say which symbols
  the nine bytes of a group and the eighteen of a header hold, and `PackedCodes` that a group's
  symbols stay whole at its place in the buffer, 72 bits being nine bytes.
* The packer of bits: `LcmWrites` says that a symbol goes to its nine bits and that every other
  bit of the buffer stays as it was, also where a symbol starts at a byte's last bit; `AllWritten` is its loop, on a
  buffer of which what is sent was cleared.
* The display: `ReceivedIs` says what a receiver that skips NOPs collects from symbols that
  are a frame with NOPs before its end or in one gap (`Carried`). The loops of the packer
  and of the display are recursive functions; what they compute is shown at the least place where
  it would differ (`LeastNumber`).

The assumptions are the named ASSUMEs of the modules. Beyond the ranges of the constants
they say that `NoTask`, `NoOne` and `NoPath` are no tasks, threads or paths, that the
set of callers is finite (a program has finitely many threads, and the counts of
`WakeupPerTask` are of finite sets), and that items have names and ranges are not empty.

Only model-checked is liveness (`TaskServed`, `CallReturns` of the pool and of Pcm,
`DestroyReturnsUnlessParking`, `IdlePoolShrinks`, `StoppedIsFreed`, `ReadsReturn`): fairness and
ENABLED are out of the prover's reach. Some of the theorems about the pool, about
Pcm and about SpeechArray have hypotheses, as said above.

## Findings and known defects

Four findings have a run: PoolElasticStrands, PoolDestroyHangs, SpeechUploadRace and
PcmWraps (PROJECT.json quotes the lines). These have none; the models keep the code's
behaviour and the properties or the settings leave the case out:

* Pool: `threadpool_destroy` of an elastic pool joins and frees by index while workers
  retire, and never signals `queue_not_full`, so a caller asleep there stays asleep
  (`CallReturns` says which calls do return).
  `threadpool_create`'s error path uses mutexes that were not initialised and
  `pthread_create`'s result is ignored.
* Recording service: ids are the time in seconds and `mkdir` accepts a directory that is there (330), so
  sessions that start within a second share one, and the client of `SpeechDemo.c` starts several: the
  files hold the data of all of them, and the interruption
  of one removes what another, completed one has stored (352-355); with
  overlapping uploads `gPreName` may be used or freed again after it was freed; `open`
  takes descriptor 0 for a failure, and a failed write is only logged and leaks `name`
  (416-421).
* Fifo: where stores are not ordered `wndx` may be seen before the bytes it announces, and
  the reader returns what was there before; `st_fifo_free` frees the address of its first member and not the ring; a write
  larger than the space overwrites unread bytes.
* SpeechArray: the overruns that `NoOverrun` excepts. `AddedTwice`: line 306 adds the kept words to a
  pointer that already stands behind them. `KeptTooMuch`: a request is rounded up to a block, for which
  the kept words may leave no room. `NothingFound`: 315-317 test `read_size` where `read_bytes` is read, so a
  buffer full without a sample that counts is skipped whole and read again with a frame more than
  the buffer holds. A request
  smaller than a sample passes -1 to `memcpy` (excluded by `SpeechArrayAssumption`). The label `Error` of `speechArrayOpen` never closes
  the device. A failing `pcm_read` is retried for ever with the lock held, though `speecharray.h:46`
  promises a value below zero, and one
  that returns 0 after a short transfer leaves old words in the block, which are taken for new ones;
  `speechArrayClose` frees a handle
  another reader may wait on; `handle->buffer` is used before it is tested (261).
* SPI packing: `fill_header_withnop`, the header of `display_data2`, takes y from x and its
  mask is one bit off; `display_data1` overwrites its header; `display_data4` loses the
  lowest bit of a pixel byte (`& 0xfe`) and shifts two bits by 24 for 22. `main` calls none of
  them as compiled. `spi_send_len` is set even for a frame that is refused.
* PCM: `pcm_wait` polls for POLLOUT, POLLERR and POLLNVAL (1149), so captured frames never wake the reader
  of a captured ring, though 1178 looks for POLLIN: without PCM_NOIRQ it sleeps until the stream
  stops; a captured ring stops by default only when ten rings are full (934), where `asoundlib.h:102`
  says one, and frames that were not read are overwritten; `x.result` is ignored, so a transfer cut short counts as whole, by a signal without any
  later sign of it; a signal that ends READI or WRITEI with an error clears `prepared` and
  `running` while the stream runs on (506-507, 542-543), and the next PREPARE is refused with
  EBUSY; a ring that was not prepared takes frames and reports them as written, then the
  PREPARE of `pcm_start` (1017) drops them and START of the empty ring is refused; closing a ring
  whose open failed unmaps it twice (827); the last failure of open leaks the status
  pages; a suspend between PREPARE and the start leaves `prepared` set for ever; a signal
  during `poll` returns before the test that would handle it; a stop and a prepare leave
  the old copy of `appl_ptr` behind, with which a transfer may find no room and look for it without end,
  and `pcm_get_htimestamp` of a stopped stream fetches
  it back; line 476 has the same comparison as the finding at 1049; `PCM_FORMAT_S8` asks
  for 16 bits, so its open always fails; `pcm_mmap_write` takes rings that capture, since
  `PCM_OUT` is 0; `asoundlib.h` documents a default `start_threshold` of the whole buffer
  where the code takes half of it, or 1 for capture; the default `avail_min` is the period
  size asked for and not the one granted. A `start_threshold` larger than the ring is accepted,
  and a ring of one frame gets a default of 0 for playback: with the first `pcm_mmap_transfer`
  fills the ring, leaves its loop for a size of 0 and returns 0 with frames left, with the
  second it starts a stream without a frame, which the kernel refuses. `tinycap.c` uses its handle after `pcm_close`.
* Mixer: a failure of `mixer_open` between lines 113 and 130 closes descriptor 0 and
  leaks the card's; `int_to_percent` divides first and returns only 0 or 100; what another
  process sets between the two ioctls of `mixer_ctl_set_value` is lost;
  `mixer_ctl_set_array` and `mixer_ctl_set_enum_by_string` zero the values they were not
  given; `mixer_ctl_get_array` of an IEC958 control never reads it.
* Lists: `llist_add_batch` never stores the new head, and `llist_del_first` dereferences
  the head of an empty list.

## Not modelled

* The lists and `handlerthread.h`: used or implemented by nothing, so there are no
  sequences of calls to model; the defects of the lists are above.
* The command line tools, log output, `asound.h` and the build files: no state.
* `pcm.c`: the queries of parameter masks and intervals (`pcm_params_*`), which read a
  structure and keep no state.
* `mixer.c`: TLV byte arrays, which by-pass the values the other calls see,
  `mixer_ctl_update`, and 64-bit controls, which every setter refuses.
* `speecharray.c`: `SpeechArrayRead1` (nothing calls it), the dump file for debugging, and
  a close by a second thread during a read, which is a use of freed memory.
* `perfdemo.c`: `display_data1`, `display_data4` (nothing calls them, see above) and the
  measurement of time.
* `fifo.c`: `st_fifo_free`, and loads the reader's processor reorders.
* `threadpool_create`'s error path.

## Plan

Done in this order: the pool and its theorems, the recording service, the fifo and its
theorems, the microphone array, the packers, the PCM library, the mixer; then suspend,
signals, cut transfers, positions and `PCM_NOIRQ` in `Pcm`, unordered stores in `Fifo`, open
and close in `SpeechArray`, the full disk in `SpeechPersistent`; then the refinement of
`TaskQueue` and the theorems about the pool, the recording service, the PCM library, the mixer
and the handle of the array; then `InOrder` and `NothingLost` of the array, also for devices
that lose or silence samples, and the packers, for frames of any length; then signals within an
ioctl, unprepared and overrun rings and POLLIN in `Pcm`, the demo's sessions, and `NoOverrun` for every
client of the array. Open: the parts under "Not
modelled", and weaker hypotheses where a theorem has one.

Runs stay one per question: new properties join the run of their component.
