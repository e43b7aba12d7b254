--------------------------------- MODULE Pcm ---------------------------------
(***************************************************************************)
(* speech/src/pcm.c: a handle on a sound device and its client, with the   *)
(* kernel's stream as its environment.  A handle reads or writes through   *)
(* ioctl (pcm_read, pcm_write) or through a ring of frames that it shares  *)
(* with the kernel (pcm_mmap_transfer).                                    *)
(*                                                                         *)
(* Sizes are in frames; a frame is its number in the stream.  The kernel   *)
(* is external: it prepares, starts and stops the stream as asked, plays   *)
(* or captures a frame at a time, stops in an xrun, is suspended, may fail *)
(* for good, and lets a signal end an ioctl or a poll.                     *)
(*                                                                         *)
(* The kernel's appl_ptr is either mapped into the process, or the process *)
(* has a copy (pcm->sync_ptr) that SYNC_PTR exchanges with it: appl_ptr is *)
(* what the library sees, k_appl_ptr what the kernel sees.                 *)
(***************************************************************************)
EXTENDS Integers

CONSTANTS Setting,          \* handles, each a record of the flags, format,
                            \* period_size, period_count, start_threshold,
                            \* stop_threshold and avail_min it is opened with
          Period,           \* the period sizes of the device
          INT_MAX,
          Counts,           \* frames per call of the client
          MaxXrun,          \* bound: xruns of streams without a ring
          MaxDisturbed      \* bound: stops, suspends and signals

Flag == {"PCM_IN", "PCM_MMAP", "PCM_NOIRQ", "PCM_NORESTART", "PCM_MONOTONIC"}
Format == {"S8", "S16_LE", "S24_3LE", "S24_LE", "S32_LE"}

ASSUME PcmAssumption ==
    /\ Setting \subseteq [flags : SUBSET Flag, format : Format,
                           period_size : Nat \ {0}, period_count : Nat \ {0},
                           start_threshold : Nat, stop_threshold : Nat, avail_min : Nat]
    \* Only captured streams are given a stop_threshold of their own.
    /\ \A s \in Setting : "PCM_IN" \in s.flags \/ s.stop_threshold = 0
    /\ Period \subseteq Nat \ {0}
    /\ INT_MAX \in Nat
    /\ \A s \in Setting, p \in Period : 3 * s.period_count * p <= INT_MAX
    /\ Counts \subseteq Nat \ {0}
    /\ MaxXrun \in Nat /\ MaxDisturbed \in Nat

VARIABLES
    setting, handle,
    failure,                 \* the step at which pcm_open failed
    sync_ptr, buffer_size, boundary, start_threshold, stop_threshold, avail_min,
    running, prepared, underruns, wait_for_avail_min, appl_ptr,
    held,                    \* what the process holds for the handle
    unmapped,                \* history: a ring was unmapped a second time
    state, hw_ptr, k_appl_ptr, ring, dead,  \* the kernel's stream
    xruns,
    pc, count, size, frames, ret,  \* the client's call
    moved, cut,              \* frames its ioctls transferred; a signal cut one short
    total, done,             \* frames put into a ring, and taken out
    disturbed,
    garbled, refused,        \* history: a wrong frame was taken out; the kernel
                             \* refused an ioctl in the state it was in
    upset                    \* history: what the library does not handle

\* stopped:      a stream was stopped and the process has a copy of its appl_ptr
\* suspended:    a stream was suspended between PREPARE and its start
\* interrupted:  a signal ended an ioctl or a poll with an error
\* unprepared:   a ring was used that was not prepared
\* overrun:      a frame was captured in the place of one that was not read
\* wrapped:      a played stream reached the boundary of the pointers
Upset == {"stopped", "suspended", "interrupted", "unprepared", "overrun", "wrapped"}

opened == <<setting, handle, failure, sync_ptr, buffer_size, boundary, start_threshold,
            stop_threshold, held, unmapped>>
flags == <<running, prepared>>
pointers == <<appl_ptr, k_appl_ptr, hw_ptr>>
faults == <<dead, xruns, disturbed>>
call == <<pc, count, size, frames, ret, moved, cut>>
stream == <<ring, total, done, garbled>>
vars == <<opened, avail_min, flags, underruns, wait_for_avail_min, pointers, state, faults,
          call, stream, refused, upset>>

PCM_IN == "PCM_IN" \in setting.flags
PCM_MMAP == "PCM_MMAP" \in setting.flags
PCM_NOIRQ == "PCM_NOIRQ" \in setting.flags
PCM_NORESTART == "PCM_NORESTART" \in setting.flags
PCM_MONOTONIC == "PCM_MONOTONIC" \in setting.flags
Cell == 0..(buffer_size - 1)

TypeOK ==
    /\ setting \in Setting /\ handle \in {"none", "ready", "failed", "closed"}
    /\ failure \in {"none", "calloc", "open", "info", "noirq", "hw_params", "mmap",
                    "sw_params", "status", "ttstamp"}
    /\ sync_ptr \in BOOLEAN /\ buffer_size \in Nat /\ boundary \in Nat
    /\ start_threshold \in Nat /\ stop_threshold \in Nat /\ avail_min \in Nat
    /\ running \in BOOLEAN /\ prepared \in BOOLEAN /\ wait_for_avail_min \in BOOLEAN
    /\ underruns \in 0..MaxXrun
    /\ appl_ptr \in 0..boundary /\ k_appl_ptr \in 0..boundary /\ hw_ptr \in 0..boundary
    /\ held \subseteq {"struct", "fd", "ring", "pages", "sync_ptr"} /\ unmapped \in BOOLEAN
    /\ state \in {"setup", "prepared", "running", "xrun", "suspended"}
    /\ ring \in [Cell -> Int] /\ dead \in BOOLEAN
    /\ pc \in {"idle", "write", "initial", "read", "start", "transfer", "wait", "begin",
               "commit"}
    /\ count \in Nat /\ size \in Nat /\ frames \in 0..buffer_size
    /\ ret \in {"none", "ok", "rejected", "EPIPE", "ESTRPIPE", "EINTR", "error"}
    /\ total \in Nat /\ done \in Nat /\ moved \in Nat /\ cut \in BOOLEAN
    /\ xruns \in 0..MaxXrun /\ disturbed \in 0..MaxDisturbed
    /\ garbled \in BOOLEAN /\ refused \in BOOLEAN
    /\ upset \subseteq Upset

Init ==
    /\ setting \in Setting /\ handle = "none" /\ failure = "none"
    /\ sync_ptr = FALSE /\ buffer_size = 0 /\ boundary = 0
    /\ start_threshold = 0 /\ stop_threshold = 0 /\ avail_min = 0
    /\ running = FALSE /\ prepared = FALSE /\ underruns = 0 /\ wait_for_avail_min = FALSE
    /\ appl_ptr = 0 /\ k_appl_ptr = 0 /\ hw_ptr = 0
    /\ held = {} /\ unmapped = FALSE
    /\ state = "setup" /\ ring = [c \in Cell |-> -1] /\ dead = FALSE
    /\ pc = "idle" /\ count = 0 /\ size = 0 /\ frames = 0 /\ ret = "none"
    /\ moved = 0 /\ cut = FALSE /\ total = 0 /\ done = 0 /\ xruns = 0 /\ disturbed = 0
    /\ garbled = FALSE /\ refused = FALSE /\ upset = {}
-----------------------------------------------------------------------------
(* pcm_open and pcm_close.                                                 *)

\* Bits of storage the library asks for, and those of the format in the kernel.
pcm_format_to_bits(format) ==
    CASE format \in {"S32_LE", "S24_LE"} -> 32
      [] format = "S24_3LE"              -> 24
      [] OTHER                           -> 16
StorageBits(format) == IF format = "S8" THEN 8 ELSE pcm_format_to_bits(format)

\* The largest b * 2^k that the loop of pcm_open reaches.  The kernel's pointers are
\* taken to wrap there too; one with longs of 64 bits takes a larger boundary.
Boundary(b) ==
    LET grow[n \in 1..INT_MAX] == IF 2 * n <= INT_MAX - b THEN grow[2 * n] ELSE n
    IN  grow[b]

\* The calls of pcm_open that may fail.
Step ==
    {"calloc", "open", "info"} \union
    IF PCM_NOIRQ /\ ~PCM_MMAP THEN {"noirq"}
    ELSE {"hw_params", "sw_params", "status"}
         \union (IF PCM_MMAP THEN {"mmap"} ELSE {})
         \union (IF PCM_MONOTONIC THEN {"ttstamp"} ELSE {})

\* pcm_hw_mmap_status maps two pages, or falls back to memory of its own.
StatusPart(sync) == IF sync THEN "sync_ptr" ELSE "pages"

AfterMmap == {"sw_params", "status", "ttstamp"}

\* What pcm_open holds when a step fails.
Taken(step, sync) ==
    {part \in {"struct", "fd", "ring", StatusPart(sync)} :
        CASE part = "struct" -> step # "calloc"
          [] part = "fd"     -> step \notin {"calloc", "open"}
          [] part = "ring"   -> PCM_MMAP /\ step \in AfterMmap
          [] OTHER           -> step = "ttstamp"}

\* Mutant of Released: the ring is not unmapped when the status is not mapped.
ReleasedForgets(step) ==
    CASE step \in {"calloc", "open"}                      -> {}
      [] step \in {"info", "hw_params", "mmap", "status"} -> {"fd"}
      [] OTHER                                            -> {"fd", "ring"}

\* What the label that a failing step jumps to releases.
Released(step) ==
    CASE step \in {"calloc", "open"}            -> {}
      [] step \in {"info", "hw_params", "mmap"} -> {"fd"}
      [] OTHER                                  -> {"fd", "ring"}

\* The device grants a period size from the one asked for upwards.  The default
\* avail_min is the period size that was asked for.
pcm_open ==
    /\ handle = "none" /\ handle' = "ready"
    /\ PCM_NOIRQ => PCM_MMAP
    /\ pcm_format_to_bits(setting.format) = StorageBits(setting.format)
    /\ \E period \in Period, sync \in BOOLEAN :
        /\ period >= setting.period_size
        /\ buffer_size' = setting.period_count * period
        /\ sync_ptr' = sync
        /\ held' = {"struct", "fd", StatusPart(sync)} \union (IF PCM_MMAP THEN {"ring"} ELSE {})
    /\ boundary' = Boundary(buffer_size')
    /\ ring' = [c \in 0..(buffer_size' - 1) |-> -1]
    /\ start_threshold' = IF setting.start_threshold # 0 THEN setting.start_threshold
                          ELSE IF PCM_IN THEN 1 ELSE buffer_size' \div 2
    /\ stop_threshold' = IF setting.stop_threshold # 0 THEN setting.stop_threshold
                         ELSE IF PCM_IN THEN 10 * buffer_size' ELSE buffer_size'
    /\ avail_min' = IF setting.avail_min # 0 THEN setting.avail_min
                    ELSE IF PCM_MMAP THEN setting.period_size ELSE 1
    /\ UNCHANGED <<setting, failure, unmapped, flags, underruns, wait_for_avail_min, pointers,
                   state, faults, call, total, done, garbled, refused, upset>>

pcm_open_fails(step) ==
    /\ handle = "none" /\ handle' = "failed" /\ failure' = step
    /\ \E sync \in BOOLEAN : held' = Taken(step, sync) \ Released(step)
    /\ UNCHANGED <<setting, sync_ptr, buffer_size, boundary, start_threshold, stop_threshold,
                   unmapped, avail_min, flags, underruns, wait_for_avail_min, pointers, state,
                   faults, call, stream, refused, upset>>

\* The client closes its handle, also one that failed: mmap_buffer is unmapped in
\* any case.
pcm_close ==
    /\ handle \in {"ready", "failed"} /\ pc = "idle"
    /\ handle' = "closed"
    /\ prepared' = FALSE /\ running' = FALSE
    /\ held' = {}
    /\ unmapped' = (PCM_MMAP /\ failure \in AfterMmap)
    /\ state' = "setup" /\ ret' = "none"
    /\ UNCHANGED <<setting, failure, sync_ptr, buffer_size, boundary, start_threshold,
                   stop_threshold, avail_min, underruns, wait_for_avail_min, pointers, faults, pc,
                   count, size, frames, moved, cut, stream, refused, upset>>
-----------------------------------------------------------------------------
(* pcm_prepare, pcm_start and pcm_stop.                                    *)

Ready == handle = "ready" /\ pc = "idle"
Return(r) == pc' = "idle" /\ ret' = r

\* SNDRV_PCM_IOCTL_PREPARE drops the frames in the ring; a copy of appl_ptr in the
\* process stays as it is.
Prepare ==
    /\ prepared' = TRUE
    /\ state' = "prepared" /\ done' = total
    /\ hw_ptr' = 0 /\ k_appl_ptr' = 0
    /\ appl_ptr' = IF sync_ptr THEN appl_ptr ELSE 0

\* The stream runs though the library believes it does not.
Busy == state = "running" /\ ~running

\* pcm_prepare inside another call, which goes on at next or returns its error.
PrepareThen(next) ==
    \/ /\ prepared /\ pc' = next
       /\ UNCHANGED <<prepared, state, pointers, done, ret, refused>>
    \/ /\ ~prepared /\ (dead \/ Busy) /\ Return("error")
       /\ refused' = (refused \/ ~dead)
       /\ UNCHANGED <<prepared, state, pointers, done>>
    \/ /\ ~prepared /\ ~dead /\ ~Busy /\ pc' = next
       /\ Prepare /\ UNCHANGED <<ret, refused>>

\* The client prepares the stream.
pcm_prepare ==
    /\ Ready /\ ~prepared /\ ~dead
    /\ \/ ~Busy /\ Prepare /\ UNCHANGED refused
       \/ Busy /\ refused' = TRUE /\ UNCHANGED <<prepared, state, pointers, done>>
    /\ UNCHANGED <<opened, avail_min, running, underruns, wait_for_avail_min, faults, call, ring,
                   total, garbled, upset>>

\* SNDRV_PCM_IOCTL_START after pcm_prepare, for pcm_read.
pcm_start ==
    /\ pc = "start"
    /\ \/ /\ dead \/ state # "prepared"
          /\ Return("error")
          /\ refused' = (refused \/ ~dead)
          /\ UNCHANGED <<running, state>>
       \/ /\ ~dead /\ state = "prepared"
          /\ state' = "running" /\ running' = TRUE
          /\ pc' = "read" /\ UNCHANGED <<ret, refused>>
    /\ UNCHANGED <<opened, avail_min, prepared, underruns, wait_for_avail_min, pointers, faults,
                   count, size, frames, moved, cut, stream, upset>>

\* What may happen once in a while.
Disturb == disturbed < MaxDisturbed /\ disturbed' = disturbed + 1

\* Mutant of Stopped: prepared is not reset.
StillPrepared == running' = FALSE /\ UNCHANGED prepared

Stopped == running' = FALSE /\ prepared' = FALSE

pcm_stop ==
    /\ Ready /\ ~dead
    /\ Disturb
    /\ state' = "setup" /\ ret' = "none"
    /\ Stopped
    /\ upset' = upset \union (IF sync_ptr /\ PCM_MMAP THEN {"stopped"} ELSE {})
    /\ UNCHANGED <<opened, avail_min, underruns, wait_for_avail_min, pointers, dead, xruns,
                   pc, count, size, frames, moved, cut, stream, refused>>
-----------------------------------------------------------------------------
(* pcm_write and pcm_read.                                                 *)

Call(first, n) ==
    /\ pc' = first /\ count' = n /\ ret' = "none" /\ moved' = 0 /\ cut' = FALSE
    /\ UNCHANGED <<opened, avail_min, flags, underruns, wait_for_avail_min, pointers, state,
                   faults, size, frames, stream, refused>>

pcm_write(n) == Ready /\ ~PCM_MMAP /\ ~PCM_IN /\ Call("write", n) /\ UNCHANGED upset
pcm_read(n) == Ready /\ ~PCM_MMAP /\ PCM_IN /\ Call("read", n) /\ UNCHANGED upset

\* A call for the other direction, or for a ring the handle does not have.
Rejected ==
    /\ Ready /\ ret' = "rejected" /\ moved' = 0 /\ count' = 0 /\ cut' = FALSE
    /\ UNCHANGED <<opened, avail_min, flags, underruns, wait_for_avail_min, pointers, state,
                   faults, pc, size, frames, stream, refused, upset>>

\* EPIPE: prepare the stream and try again, unless a writer forbade it.
Lost ==
    /\ underruns' = underruns + 1
    /\ IF ~PCM_IN /\ PCM_NORESTART THEN Return("EPIPE") ELSE UNCHANGED <<pc, ret>>

\* Not running: a writer prepares the stream, a reader prepares and starts it.
Restart ==
    /\ pc \in {"write", "read"} /\ ~running
    /\ PrepareThen(IF pc = "write" THEN "initial" ELSE "start")
    /\ UNCHANGED <<opened, avail_min, running, underruns, wait_for_avail_min, faults, count, size,
                   frames, moved, cut, ring, total, garbled, upset>>

\* The ioctl moves all frames, and may start the stream; or those it can before an
\* xrun, a suspend or the device's failure, or before a signal, after which the
\* stream runs on.  It succeeds in all these cases, and x.result is not looked at.
Moves ==
    \/ /\ moved' = moved + count /\ state' \in {state, "running"}
       /\ UNCHANGED <<faults, cut>>
    \/ /\ \E part \in 1..(count - 1) : moved' = moved + part
       /\ \/ /\ xruns < MaxXrun /\ xruns' = xruns + 1 /\ state' = "xrun"
             /\ UNCHANGED <<dead, disturbed, cut>>
          \/ /\ Disturb /\ UNCHANGED <<dead, xruns>>
             /\ \/ state' = "suspended" /\ UNCHANGED cut
                \/ state' \in {state, "running"} /\ cut' = TRUE
          \/ dead' = TRUE /\ UNCHANGED <<state, xruns, disturbed, cut>>

\* The ioctl returns EINTR, of a signal before the first frame.
Signal == Disturb /\ Return("EINTR") /\ UNCHANGED <<state, dead, xruns, moved, cut>>

\* Mutant of Initial: the call goes on after the data is written.
InitialGoesOn ==
    /\ pc = "initial" /\ ~dead /\ state = "prepared"
    /\ running' = TRUE /\ pc' = "write" /\ Moves
    /\ UNCHANGED <<opened, avail_min, prepared, underruns, wait_for_avail_min, pointers,
                   count, size, frames, ret, stream, refused, upset>>

\* The first ioctl of a writer, after which the stream may be running.
Initial ==
    /\ pc = "initial"
    /\ \/ /\ dead \/ state \in {"setup", "xrun", "suspended"}
          /\ Return("error")
          /\ refused' = (refused \/ ~dead)
          /\ UNCHANGED <<running, state, faults, moved, cut>>
       \/ /\ ~dead /\ state \in {"prepared", "running"}
          /\ running' = TRUE
          /\ Moves /\ Return("ok") /\ UNCHANGED refused
       \/ /\ ~dead /\ Signal /\ UNCHANGED <<running, refused>>
    /\ UNCHANGED <<opened, avail_min, prepared, underruns, wait_for_avail_min, pointers,
                   count, size, frames, stream, upset>>

\* The ioctl of a stream that runs.  After any error the library takes it for one
\* that has stopped, also after a signal.
Transfer ==
    /\ pc \in {"write", "read"} /\ running
    /\ \/ /\ dead \/ state \in {"setup", "suspended"}
          /\ Stopped /\ Return("error")
          /\ refused' = (refused \/ (~dead /\ state = "setup"))
          /\ UNCHANGED <<underruns, state, faults, moved, cut, upset>>
       \/ /\ ~dead /\ state = "xrun"
          /\ Stopped /\ Lost
          /\ UNCHANGED <<state, faults, moved, cut, refused, upset>>
       \/ /\ ~dead /\ state \in {"prepared", "running"}
          /\ Moves /\ Return("ok")
          /\ UNCHANGED <<flags, underruns, refused, upset>>
       \/ /\ ~dead /\ state \in {"prepared", "running"}
          /\ Stopped /\ Signal /\ upset' = upset \union {"interrupted"}
          /\ UNCHANGED <<underruns, refused>>
    /\ UNCHANGED <<opened, avail_min, wait_for_avail_min, pointers, count, size, frames, stream>>
-----------------------------------------------------------------------------
(* pcm_mmap_transfer.                                                      *)

Smaller(a, b) == IF a < b THEN a ELSE b

pcm_mmap_playback_avail ==
    LET avail == hw_ptr + buffer_size - appl_ptr
    IN  IF avail < 0 THEN avail + boundary
        ELSE IF avail > boundary THEN avail - boundary
        ELSE avail

pcm_mmap_capture_avail ==
    LET avail == hw_ptr - appl_ptr
    IN  IF avail < 0 THEN avail + boundary ELSE avail

pcm_mmap_avail == IF PCM_IN THEN pcm_mmap_capture_avail ELSE pcm_mmap_playback_avail

pcm_mmap_appl_forward(n) ==
    IF appl_ptr + n > boundary THEN appl_ptr + n - boundary ELSE appl_ptr + n

\* pcm_sync_ptr hands appl_ptr to the kernel; its error is not looked at.
PushApplPtr(ptr) == k_appl_ptr' = IF dead /\ sync_ptr THEN k_appl_ptr ELSE ptr

\* The frames the kernel has for the client: free ones, or captured ones.
Available == IF PCM_IN THEN (hw_ptr - k_appl_ptr) % boundary
             ELSE buffer_size - ((k_appl_ptr - hw_ptr) % boundary)

\* Bound: frames of a stream, which passes the boundary.
Longest == boundary + (IF PCM_IN THEN buffer_size ELSE 2)

\* pcm_mmap_write, which any handle with a ring accepts, or pcm_mmap_read.  The
\* client need not have prepared the stream.
pcm_mmap_call(n) ==
    /\ Ready /\ PCM_MMAP
    /\ total + n + (IF PCM_IN THEN Smaller(stop_threshold, boundary) ELSE 0) <= Longest
    /\ Call("transfer", n)
    /\ upset' = upset \union (IF ~PCM_IN /\ appl_ptr + n >= boundary THEN {"wrapped"} ELSE {})

\* pcm_prepare inside pcm_start, and pcm_sync_ptr.  PREPARE drops what an unprepared
\* ring was given; a copy of appl_ptr is handed to the kernel as it was.
PrepareRing ==
    IF prepared
    THEN PushApplPtr(appl_ptr) /\ UNCHANGED <<prepared, appl_ptr, hw_ptr, done>>
    ELSE /\ prepared' = TRUE /\ hw_ptr' = 0 /\ done' = total
         /\ appl_ptr' = (IF sync_ptr THEN appl_ptr ELSE 0) /\ k_appl_ptr' = appl_ptr'

\* The threshold is reached: buffer_size - avail is unsigned.
Starts ==
    ~running /\ (pcm_mmap_avail > buffer_size \/ buffer_size - pcm_mmap_avail >= start_threshold)

\* The kernel starts a stream after PREPARE, and no playback without a frame.
CanStart ==
    /\ prepared => state = "prepared"
    /\ PCM_IN \/ appl_ptr' % boundary # hw_ptr'

\* Wait for avail_min frames if the call needs more than there are, else copy.  What
\* was available is not computed again after a PREPARE.
WaitOrCopy ==
    LET wait == (~Starts /\ wait_for_avail_min) \/ (running' /\ count > pcm_mmap_avail)
    IN  IF running' /\ wait /\ pcm_mmap_avail < avail_min
        THEN /\ wait_for_avail_min' = FALSE
             /\ pc' = "wait" /\ UNCHANGED <<size, ret>>
        ELSE /\ wait_for_avail_min' = wait
             /\ size' = Smaller(count, pcm_mmap_avail)
             /\ IF size' = 0 THEN Return("ok") ELSE pc' = "begin" /\ UNCHANGED ret

\* Start the stream at the threshold, then wait or copy.  avail is never negative.
TransferLoop ==
    /\ pc = "transfer"
    /\ \/ /\ Starts /\ (dead \/ (~prepared /\ Busy))
          /\ Return("error") /\ refused' = (refused \/ ~dead)
          /\ PushApplPtr(appl_ptr)
          /\ UNCHANGED <<running, prepared, state, appl_ptr, hw_ptr, done, wait_for_avail_min, size>>
       \/ /\ Starts /\ ~dead /\ (prepared \/ ~Busy)
          /\ PrepareRing
          /\ IF CanStart
             THEN running' = TRUE /\ state' = "running" /\ WaitOrCopy /\ UNCHANGED refused
             ELSE /\ Return("error") /\ refused' = TRUE
                  /\ state' = IF prepared THEN state ELSE "prepared"
                  /\ UNCHANGED <<running, wait_for_avail_min, size>>
       \/ /\ ~Starts /\ PushApplPtr(appl_ptr)
          /\ UNCHANGED <<running, prepared, state, appl_ptr, hw_ptr, done, refused>>
          /\ WaitOrCopy
    /\ upset' = upset \union (IF prepared \/ (PCM_IN /\ Starts /\ pcm_mmap_avail = 0) THEN {}
                              ELSE {"unprepared"})
    /\ UNCHANGED <<opened, avail_min, underruns, faults, count, frames, moved, cut, ring, total,
                   garbled>>

\* The events that pcm_wait polls for: room to write, or an error, not captured
\* frames.  With PCM_NOIRQ it has a timeout.
Wakes == (~PCM_IN /\ Available >= avail_min) \/ PCM_NOIRQ

\* Mutant of pcm_wait: an error is not looked at.
wait_ignores_error ==
    /\ pc = "wait" /\ pc' = "transfer"
    /\ ~dead /\ Wakes
    /\ UNCHANGED <<opened, avail_min, flags, underruns, wait_for_avail_min, pointers, state, faults,
                   count, size, frames, ret, moved, cut, stream, refused, upset>>

\* Mutant of GiveUp: appl_ptr stays.
GiveUpKeeps(r) == Stopped /\ Return(r) /\ UNCHANGED <<appl_ptr, k_appl_ptr>>

\* pcm_mmap_transfer gives up: the stream counts as stopped.
GiveUp(r) ==
    /\ Stopped /\ Return(r)
    /\ appl_ptr' = 0 /\ k_appl_ptr' = IF sync_ptr THEN k_appl_ptr ELSE 0

\* poll returns for an event, for an error, or because a signal interrupts it: errno
\* is compared with -EINTR only after that has been returned.
pcm_wait ==
    /\ pc = "wait"
    /\ \/ /\ dead \/ state \in {"xrun", "suspended"}
          /\ GiveUp(IF dead THEN "error" ELSE IF state = "xrun" THEN "EPIPE" ELSE "ESTRPIPE")
          /\ UNCHANGED <<disturbed, upset>>
       \/ /\ ~dead /\ state \notin {"xrun", "suspended"}
          /\ Wakes /\ pc' = "transfer"
          /\ UNCHANGED <<flags, appl_ptr, k_appl_ptr, ret, disturbed, upset>>
       \/ /\ Disturb
          /\ GiveUp("EINTR") /\ upset' = upset \union {"interrupted"}
    /\ UNCHANGED <<opened, avail_min, underruns, wait_for_avail_min, hw_ptr, state, dead, xruns,
                   count, size, frames, moved, cut, stream, refused>>

\* What is available and continuous.
pcm_mmap_begin ==
    /\ pc = "begin" /\ pc' = "commit"
    /\ frames' = Smaller(Smaller(size, Smaller(pcm_mmap_avail, buffer_size)),
                         buffer_size - (appl_ptr % buffer_size))
    /\ PushApplPtr(appl_ptr)
    /\ UNCHANGED <<opened, avail_min, flags, underruns, wait_for_avail_min, appl_ptr, hw_ptr,
                   state, faults, count, size, ret, moved, cut, stream, refused, upset>>

\* pcm_areas_copy, pcm_mmap_commit, and the rest of pcm_mmap_transfer_areas.
pcm_mmap_commit ==
    /\ pc = "commit"
    /\ LET at(c) == c - (appl_ptr % buffer_size)
       IN  IF PCM_IN
           THEN /\ done' = done + frames
                /\ garbled' = (garbled \/ \E c \in Cell : at(c) \in 0..(frames - 1)
                                                         /\ ring[c] # done + at(c))
                /\ UNCHANGED <<ring, total>>
           ELSE /\ total' = total + frames
                /\ ring' = [c \in Cell |-> IF at(c) \in 0..(frames - 1) THEN total + at(c)
                                           ELSE ring[c]]
                /\ UNCHANGED <<done, garbled>>
    /\ appl_ptr' = pcm_mmap_appl_forward(frames)
    /\ PushApplPtr(pcm_mmap_appl_forward(frames))
    /\ size' = size - frames /\ count' = count - frames /\ frames' = 0
    /\ IF size' > 0 THEN pc' = "begin" /\ UNCHANGED ret
       ELSE IF count' > 0 THEN pc' = "transfer" /\ UNCHANGED ret
       ELSE Return("ok")
    /\ UNCHANGED <<opened, avail_min, flags, underruns, wait_for_avail_min, hw_ptr, state, faults,
                   moved, cut, refused, upset>>
-----------------------------------------------------------------------------
(* Queries.                                                                *)

\* Mutant of pcm_get_htimestamp_avail: the wrap of the pointers is forgotten.
get_htimestamp_no_wrap ==
    IF PCM_IN THEN hw_ptr - appl_ptr ELSE hw_ptr + buffer_size - appl_ptr

\* The frames pcm_get_htimestamp reports.
pcm_get_htimestamp_avail ==
    LET avail == IF PCM_IN THEN hw_ptr - appl_ptr ELSE hw_ptr + buffer_size - appl_ptr
    IN  IF avail < 0 THEN avail + boundary
        ELSE IF avail > boundary THEN avail - boundary
        ELSE avail

\* SYNC_PTR with SNDRV_PCM_SYNC_PTR_APPL gets appl_ptr from the kernel.
PullApplPtr == appl_ptr' = k_appl_ptr

\* The client asks for the time stamp, which a stream that does not run has not.
pcm_get_htimestamp ==
    /\ Ready /\ PCM_MMAP /\ ~dead
    /\ PullApplPtr
    /\ upset' = upset \union (IF ~running /\ k_appl_ptr # appl_ptr THEN {"stopped"} ELSE {})
    /\ UNCHANGED <<opened, avail_min, flags, underruns, wait_for_avail_min, k_appl_ptr, hw_ptr,
                   state, faults, call, stream, refused>>

\* The client asks for the state of the stream, or for what is available.
pcm_state ==
    /\ Ready /\ PCM_MMAP
    /\ PushApplPtr(appl_ptr)
    /\ UNCHANGED <<opened, avail_min, flags, underruns, wait_for_avail_min, appl_ptr, hw_ptr,
                   state, faults, call, stream, refused, upset>>

pcm_set_avail_min(n) ==
    /\ Ready /\ PCM_MMAP /\ PCM_NOIRQ
    /\ avail_min' = n
    /\ UNCHANGED <<opened, flags, underruns, wait_for_avail_min, pointers, state, faults, call, stream,
                   refused, upset>>
-----------------------------------------------------------------------------
(* The kernel.                                                             *)

Forward == hw_ptr' = (hw_ptr + 1) % boundary

\* A frame of the ring is played, or there is none.
Play ==
    /\ state = "running" /\ PCM_MMAP /\ ~PCM_IN /\ ~dead
    /\ IF Available \in 0..(buffer_size - 1)
       THEN /\ Forward /\ done' = done + 1
            /\ garbled' = (garbled \/ ring[hw_ptr % buffer_size] # done)
            /\ UNCHANGED state
       ELSE state' = "xrun" /\ UNCHANGED <<hw_ptr, done, garbled>>
    /\ UNCHANGED <<opened, avail_min, flags, underruns, wait_for_avail_min, appl_ptr, k_appl_ptr,
                   faults, call, ring, total, refused, upset>>

\* A frame is captured, also when the ring is full.  The stream stops when as many
\* frames as stop_threshold are counted as not read.
Capture ==
    /\ state = "running" /\ PCM_MMAP /\ PCM_IN /\ ~dead
    /\ total < Longest
    /\ ring' = [ring EXCEPT ![hw_ptr % buffer_size] = total]
    /\ Forward /\ total' = total + 1
    /\ state' = IF (hw_ptr' - k_appl_ptr) % boundary >= stop_threshold THEN "xrun" ELSE state
    /\ upset' = upset \union (IF Available >= buffer_size THEN {"overrun"} ELSE {})
    /\ UNCHANGED <<opened, avail_min, flags, underruns, wait_for_avail_min, appl_ptr, k_appl_ptr,
                   faults, call, done, garbled, refused>>

\* A stream without a ring underruns or overruns.
Xrun ==
    /\ state = "running" /\ ~PCM_MMAP /\ xruns < MaxXrun
    /\ state' = "xrun" /\ xruns' = xruns + 1
    /\ UNCHANGED <<opened, avail_min, flags, underruns, wait_for_avail_min, pointers, dead, disturbed,
                   call, stream, refused, upset>>

\* The system suspends the device.
Suspend ==
    /\ state \in {"prepared", "running", "xrun"} /\ ~dead
    /\ Disturb
    /\ state' = "suspended"
    /\ upset' = upset \union (IF prepared /\ ~running THEN {"suspended"} ELSE {})
    /\ UNCHANGED <<opened, avail_min, flags, underruns, wait_for_avail_min, pointers, dead, xruns,
                   call, stream, refused>>

Die ==
    /\ handle = "ready" /\ ~dead /\ dead' = TRUE
    /\ UNCHANGED <<opened, avail_min, flags, underruns, wait_for_avail_min, pointers, state, xruns,
                   disturbed, call, stream, refused, upset>>

Client ==
    \/ pcm_open \/ (\E step \in Step : pcm_open_fails(step)) \/ pcm_close
    \/ pcm_prepare \/ pcm_stop \/ Rejected
    \/ pcm_get_htimestamp \/ pcm_state
    \/ \E n \in Counts : \/ pcm_write(n) \/ pcm_read(n) \/ pcm_mmap_call(n)
                         \/ pcm_set_avail_min(Smaller(n, buffer_size))

Library ==
    \/ Restart \/ pcm_start \/ Initial \/ Transfer
    \/ TransferLoop \/ pcm_wait \/ pcm_mmap_begin \/ pcm_mmap_commit

Next == Client \/ Library \/ Play \/ Capture \/ Xrun \/ Suspend \/ Die

\* A thread in the library runs, and a device plays and captures while it runs.
Spec == Init /\ [][Next]_vars /\ WF_vars(Library) /\ WF_vars(Play) /\ WF_vars(Capture)
-----------------------------------------------------------------------------
(* Properties.                                                             *)

\* A handle that failed to open, at whatever step and for whatever flags, holds
\* nothing but its own memory, and the status if the timestamp type was refused; a
\* closed one holds nothing.  Nothing is unmapped twice but the ring of a handle
\* that failed after it was mapped.
NoLeak ==
    /\ handle = "failed" => held \ (IF failure = "ttstamp" THEN {"pages", "sync_ptr"} ELSE {})
                              \subseteq {"struct"}
    /\ handle = "closed" => held = {}
    /\ unmapped => PCM_MMAP /\ failure \in AfterMmap

\* The library's flags never make it ask for what the state of the stream forbids:
\* pcm_prepare leaves out no PREPARE that is needed, and asks for none while the
\* stream runs.  In four cases it does: after a stop of a ring with a copy of
\* appl_ptr, a suspend between PREPARE and the start, a signal that ends an ioctl or
\* poll with an error, and the use of an unprepared ring.
NeverRefused ==
    upset \intersect {"stopped", "suspended", "interrupted", "unprepared"} = {} => ~refused

\* A read or write that returns 0 has transferred its data, exactly once however
\* often it was restarted; or a part of it, because the stream has stopped in the
\* middle and the library is bound to learn so from the next ioctl; or because a
\* signal cut the ioctl short, which it never learns.  One that returns an error has
\* transferred nothing.  A transfer through a ring that returns 0 is complete.  No
\* xrun is counted twice.
TransferredOnce ==
    /\ pc = "idle" =>
        /\ ret = "ok" => IF PCM_MMAP THEN count = 0
                         ELSE \/ moved = count
                              \/ /\ moved \in 1..(count - 1) /\ running
                                 /\ cut \/ dead \/ state \in {"xrun", "suspended"}
        /\ ret \notin {"ok", "none"} => moved = 0
    /\ underruns + (IF state = "xrun" /\ running /\ ~PCM_MMAP THEN 1 ELSE 0) <= xruns

\* Frames leave the ring as they entered it: none overwritten before it is played
\* or read, none played or read twice, also across xruns, suspends and restarts, and
\* for captured streams past the boundary.  Left out is a stream from the moment on
\* at which one of these happens: a stop that leaves a copy of appl_ptr behind, a
\* signal that makes the library give up, the use of an unprepared ring, captured
\* frames that come when the ring is full, and a call that takes a played stream to
\* the boundary.
InOrder == upset \subseteq {"suspended"} => ~garbled

\* What pcm_get_htimestamp reports of a running stream is what the kernel has,
\* unless one of the things happened that Upset lists.
ReportsAvailable ==
    upset = {} /\ Ready /\ PCM_MMAP /\ ~dead /\ state = "running" =>
        pcm_get_htimestamp_avail = Available

\* Only frames that are available are copied, as the comment in pcm_mmap_begin
\* says, of a stream that at most was played past the boundary.
CopiesOnlyAvailable ==
    upset \subseteq {"wrapped"} /\ pc = "commit" => frames <= Available

\* Every call returns, whatever the stream does in the meantime.  Left out are the
\* streams of which the library has a wrong count of frames, so that it may look for
\* the rest of them for ever: with a stale copy of appl_ptr after a stop, a ring that
\* was not prepared, or a played stream that reached the boundary.  A captured ring
\* without PCM_NOIRQ has to stop in the end, for only the error wakes its reader.
CallReturns ==
    (PCM_IN /\ PCM_MMAP /\ ~PCM_NOIRQ => stop_threshold < boundary) /\ pc # "idle"
        ~> pc = "idle" \/ upset \intersect {"stopped", "unprepared", "wrapped"} # {}
=============================================================================
