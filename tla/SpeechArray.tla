------------------------------ MODULE SpeechArray ------------------------------
(***************************************************************************)
(* A handle of speech/src/speecharray.c.  SpeechArrayRead reads blocks of  *)
(* 32-bit words from a microphone array, finds the samples and returns     *)
(* six channels of each.  A sample is Chan words, tagged 0, 1, 2, ... (the *)
(* nibble the code compares with 1..c); the rest of a block is kept in     *)
(* handle->buffer for the next call.                                       *)
(*                                                                         *)
(* All sizes are in words of input: a call for len bytes needs len words,  *)
(* since four bytes of input give one of output.  The words of the device  *)
(* are numbered: word p belongs to sample p \div Chan and has tag p % Chan.*)
(***************************************************************************)
EXTENDS Integers, Sequences

CONSTANTS Chan,          \* words per sample: 12
          HwAlign,       \* words per frame of the device: 2
          Buff,          \* handle->buff_size
          Start,         \* words at which the device may start
          MaxWord,       \* bound: no call starts that could read beyond this word
          Setting        \* clients and devices, each a record of
                         \*   asks:   what the client asks for
                         \*   silent: samples that CHECKDATA_INT32 takes for
                         \*           no data
                         \*   lost:   frames an overrun of the device may lose
                         \*   fails:  whether the device may fail for good

HW_BUFFER_COUNT == 2
Block == Buff \div HW_BUFFER_COUNT

ASSUME SpeechArrayAssumption ==
    /\ Chan \in Nat \ {0} /\ HwAlign \in Nat \ {0}
    /\ Buff \in Nat \ {0} /\ Block % HwAlign = 0
    /\ MaxWord \in Nat /\ Start \subseteq 0..MaxWord
    /\ Setting \subseteq [asks : SUBSET Nat, silent : SUBSET Nat, lost : Nat,
                           fails : BOOLEAN]
    /\ \A s \in Setting : \A n \in s.asks : n >= Chan /\ n % Chan = 0

Junk == -1               \* zero, memory never written, or output in place
Cell == 0..(Buff - 1)

VARIABLES
    setting, pos, gone,  \* the client and the device: its next word, and whether
                         \* it has failed
    held, at,            \* what the process holds; the step at which
                         \* speechArrayOpen failed
    buffer, data_size,   \* the handle
    pc, len, data, avail_size, read_size, read_bytes, check_skip,  \* the call
    out,                 \* the samples the call returns
    since, complete,     \* history: the word the device has lost none since,
                         \* and the samples it delivered whole
    delivered, last      \* history: the samples returned, and the last one of
                         \* earlier calls

handle == <<buffer, data_size>>
device == <<setting, pos, gone>>
resources == <<held, at>>
call == <<pc, len, data, avail_size, read_size, read_bytes, check_skip>>
history == <<since, complete, delivered, last>>
vars == <<device, resources, handle, call, out, history>>

\* What a handle is made of, in the order of speechArrayOpen.
Part == {"handle", "mutex", "cond", "pcm", "buffer"}

TypeOK ==
    /\ setting \in Setting /\ pos \in 0..MaxWord /\ gone \in BOOLEAN
    /\ held \subseteq Part /\ at \in Part \union {"none"}
    /\ buffer \in [Cell -> Int]
    /\ data_size \in 0..Buff
    /\ pc \in {"none", "failed", "closed", "idle", "read", "digest", "crashed"}
    /\ len \in 0..Buff /\ data \in 0..Buff /\ avail_size \in 0..Buff
    /\ read_size \in 0..Buff /\ read_bytes \in 0..Buff
    /\ check_skip \in BOOLEAN
    /\ out \in Seq([0..(Chan - 1) -> Int])
    /\ since \in 0..MaxWord /\ last \in Int
    /\ complete \subseteq Nat /\ delivered \subseteq Int

Init ==
    /\ setting \in Setting /\ pos \in Start /\ gone = FALSE
    /\ held = {} /\ at = "none"
    /\ buffer = [k \in Cell |-> Junk] /\ data_size = 0
    /\ pc = "none" /\ len = 0 /\ data = 0 /\ avail_size = 0
    /\ read_size = 0 /\ read_bytes = 0 /\ check_skip = FALSE
    /\ out = <<>> /\ since = pos /\ complete = {}
    /\ delivered = {} /\ last = -1
-----------------------------------------------------------------------------
(* speechArrayOpen and speechArrayClose.                                   *)

\* What is held when a step fails; pcm_open may return a handle that is not ready.
Taken(step) ==
    CASE step = "handle" -> {{}}
      [] step = "mutex"  -> {{"handle"}}
      [] step = "cond"   -> {{"handle", "mutex"}}
      [] step = "pcm"    -> {{"handle", "mutex", "cond"}, {"handle", "mutex", "cond", "pcm"}}
      [] step = "buffer" -> {{"handle", "mutex", "cond", "pcm"}}

\* Mutant of Released: the mutex is not destroyed.
ReleasedForgets(step) ==
    CASE step = "handle"          -> {}
      [] step \in {"mutex", "cond"} -> {"handle"}
      [] OTHER                    -> {"mutex", "cond", "buffer", "handle"}

\* What is released on the way out, at last at the label Error.
Released(step) ==
    CASE step = "handle" -> {}
      [] step = "mutex"  -> {"handle"}
      [] step = "cond"   -> {"mutex", "handle"}
      [] OTHER           -> {"mutex", "cond", "buffer", "handle"}

speechArrayOpen ==
    /\ pc = "none" /\ pc' = "idle" /\ held' = Part
    /\ UNCHANGED <<device, at, handle, len, data, avail_size, read_size, read_bytes, check_skip,
                   out, history>>

speechArrayOpen_fails(step) ==
    /\ pc = "none" /\ pc' = "failed" /\ at' = step
    /\ \E taken \in Taken(step) : held' = taken \ Released(step)
    /\ UNCHANGED <<device, handle, len, data, avail_size, read_size, read_bytes, check_skip,
                   out, history>>

\* The client closes its handle when no call is under way.
speechArrayClose ==
    /\ pc = "idle" /\ pc' = "closed" /\ held' = {}
    /\ UNCHANGED <<device, at, handle, len, data, avail_size, read_size, read_bytes, check_skip,
                   out, history>>
-----------------------------------------------------------------------------
(* skipData and parseData_INT32.                                           *)

\* A word of a buffer; past its end, memory that looks like no sample.
At(b, i) == IF i \in Cell THEN b[i] ELSE Junk

\* Mutant of BadTags: the tags are not looked at.
NeverBad(b, i) == FALSE

\* CHECKERROR_INT32_LE
BadTags(b, i) == \E k \in 0..(Chan - 1) : At(b, i + k) < 0 \/ At(b, i + k) % Chan # k

\* CHECKDATA_INT32
NoSound(b, i) == \A k \in 0..(Chan - 1) : At(b, i + k) \div Chan \in setting.silent

Whole(n) == n - (n % Chan)

\* Words to drop before the first sample that counts; -1 if there are too few.
skipData(b, n) ==
    LET skip[i \in 0..(Whole(n) + Chan)] ==
            IF i >= Whole(n) THEN i
            ELSE IF BadTags(b, i) THEN skip[i + 1]
            ELSE IF NoSound(b, i) THEN skip[i + Chan]
            ELSE i
    IN  IF n < Chan THEN -1 ELSE skip[0]

\* The samples in the first n words; the last one may end after them.
parseData(b, n) ==
    LET samples[i \in 0..(Whole(n) + Chan)] ==
            IF i >= Whole(n) THEN <<>>
            ELSE IF BadTags(b, i) THEN samples[i + 1]
            ELSE <<[k \in 0..(Chan - 1) |-> At(b, i + k)]>> \o samples[i + Chan]
    IN  samples[0]
-----------------------------------------------------------------------------
\* The sample of the device that a sample returned starts in.
Number(sample) == sample[0] \div Chan

RoundUp(n) == IF n % HwAlign = 0 THEN n ELSE n + HwAlign - (n % HwAlign)
Larger(a, b) == IF a > b THEN a ELSE b
Smaller(a, b) == IF a < b THEN a ELSE b

\* A request as large as handle->buffer at most.
AtMost(n) == Smaller(n, Buff)

\* The call: how much to read after what is left of the last call.  Requests that
\* are no whole samples have been refused (out_align, line 262).
Read(n) ==
    /\ pc = "idle"
    /\ pos + 2 * (Buff + setting.lost * HwAlign) <= MaxWord
    /\ LET need == AtMost(n)
           size == IF data_size > need THEN 0
                   ELSE Larger(RoundUp(need - data_size), Block)
       IN  /\ len' = need
           /\ read_size' = size /\ read_bytes' = size
           /\ pc' = IF size = 0 THEN "digest" ELSE "read"
    /\ data' = data_size /\ avail_size' = data_size
    /\ check_skip' = FALSE /\ out' = <<>>
    /\ last' = IF out = <<>> THEN last ELSE Number(out[Len(out)])
    /\ UNCHANGED <<device, resources, handle, since, complete, delivered>>

\* pcm_read fills whole frames, all it was asked for; an overrun before it loses
\* some.  (It also returns 0 for a transfer the kernel cut short, pcm.c:541, whose
\* x.result it does not read; that is not modelled.)  While it fails the call
\* tries again, which changes nothing.
PcmRead ==
    /\ pc = "read" /\ ~gone
    /\ \E lost \in 0..setting.lost :
        LET from == pos + lost * HwAlign
            got == read_bytes - (read_bytes % HwAlign)
        IN  /\ pos' = from + got
            /\ since' = IF lost > 0 THEN from ELSE since
            /\ complete' = complete \union
                 {f \in 0..(pos' \div Chan) : f * Chan >= since' /\ (f + 1) * Chan <= pos'}
            /\ buffer' = [k \in Cell |-> IF k >= data /\ k < data + got
                                         THEN from + k - data ELSE buffer[k]]
    /\ avail_size' = avail_size + read_bytes
    /\ pc' = IF data + read_bytes > Buff THEN "crashed" ELSE "digest"
    /\ UNCHANGED <<setting, gone, resources, data_size, len, data, read_size, read_bytes,
                   check_skip, out, delivered, last>>

\* Mutant of ReadAgain: the end of the buffer is not looked at.
ReadAgainUnbounded(skip, avail) ==
    IF avail >= len THEN 0 ELSE Larger(skip - (skip % HwAlign) + HwAlign, Block)

\* How much to read once skip words are dropped and avail are left.
ReadAgain(skip, avail) ==
    IF avail >= len THEN 0
    ELSE IF avail + read_size > Buff THEN Buff - avail - (read_size % HwAlign)
    ELSE Larger(skip - (skip % HwAlign) + HwAlign, Block)

Shifted(b, skip, n) == [k \in Cell |-> IF k < n THEN At(b, k + skip) ELSE b[k]]

\* Mutant of Deliver: what the client did not ask for is dropped.
DeliverDropsRest(b, avail) ==
    LET samples == parseData(b, Smaller(avail, len))
    IN  /\ out' = samples
        /\ delivered' = delivered \union {Number(samples[i]) : i \in 1..Len(samples)}
        /\ data_size' = 0 /\ buffer' = b
        /\ pc' = "idle"

\* The samples of b, whose first avail words are data, are returned; the rest
\* is kept.  For less than a sample parseData_INT32 returns -1, and so many bytes
\* are copied.
Deliver(b, avail) ==
    LET size == Smaller(avail, len)
        samples == parseData(b, size)
    IN  /\ out' = samples
        /\ delivered' = delivered \union {Number(samples[i]) : i \in 1..Len(samples)}
        /\ data_size' = avail - size
        /\ buffer' = IF avail > size
                     THEN [k \in Cell |-> IF k < avail - size THEN b[k + size] ELSE Junk]
                     ELSE [k \in Cell |-> IF k < Len(samples) * (Chan \div 4) THEN Junk ELSE b[k]]
        /\ pc' = IF size < Chan THEN "crashed" ELSE "idle"

\* Drop what is not a sample, once per call, and read again to fill up.
Digest ==
    /\ pc = "digest"
    /\ LET skip == skipData(buffer, avail_size)
           left == avail_size - skip
           more == ReadAgain(skip, left)
       IN  IF check_skip \/ skip <= 0
           THEN /\ Deliver(buffer, avail_size)
                /\ UNCHANGED <<data, avail_size, read_bytes, check_skip>>
           ELSE /\ data' = data + left
                /\ avail_size' = left
                /\ read_bytes' = more
                /\ check_skip' = TRUE
                /\ IF left < 0 THEN pc' = "crashed" /\ UNCHANGED <<handle, out, delivered>>
                   ELSE IF more = 0 THEN Deliver(Shifted(buffer, skip, left), left)
                   ELSE /\ pc' = "read"
                        /\ buffer' = Shifted(buffer, skip, left)
                        /\ UNCHANGED <<data_size, out, delivered>>
    /\ UNCHANGED <<device, resources, len, read_size, since, complete, last>>

\* From here on pcm_read returns an error.
Fail ==
    /\ setting.fails /\ ~gone
    /\ gone' = TRUE
    /\ UNCHANGED <<setting, pos, resources, handle, call, out, history>>

Next ==
    \/ speechArrayOpen \/ (\E step \in Part : speechArrayOpen_fails(step)) \/ speechArrayClose
    \/ (\E n \in setting.asks : Read(n)) \/ PcmRead \/ Digest \/ Fail

\* A device that works delivers, and the thread in the call runs.
Spec == Init /\ [][Next]_vars /\ WF_vars(PcmRead) /\ WF_vars(Digest)
-----------------------------------------------------------------------------
(* Properties.                                                             *)

\* The calls that do write past handle->buffer.  Line 306 adds the words left to
\* data, which stands after those kept from the last call already; such a call
\* may also keep more than leaves room for a block.  Where no sample counts in
\* what was read, lines 305 and 309-318 have nothing to keep in bounds.
AddedTwice == data_size > 0 /\ check_skip
KeptTooMuch == data_size + Block > Buff
NothingFound == check_skip /\ avail_size <= read_bytes

\* For every client, array and device, no other call writes outside
\* handle->buffer or moves a block back by more than its size (305, 312-318),
\* and what is returned fits in the client's buffer.
NoOverrun ==
    /\ pc = "crashed" => AddedTwice \/ KeptTooMuch \/ NothingFound
    /\ Len(out) * Chan <= len

\* A client that asks for whole samples, of an array that is never silent and a
\* device that loses nothing.
WholeSamples(s) == s.silent = {} /\ s.lost = 0

\* A client that asks for a buffer full, as speecharraytest does, of an array whose
\* silent samples never follow each other until they fill a buffer and a device
\* that loses less than a sample.
BufferFull(s) ==
    /\ \A n \in s.asks : n >= Buff
    /\ s.lost * HwAlign < Chan
    /\ \A f \in s.silent : \E g \in f..(f + (Buff \div Chan) - 2) : g \notin s.silent

\* No call of such a client both keeps words and skips some, or finds no sample.
\* What others are returned after a call that does is anything.
Served == {s \in Setting : WholeSamples(s) \/ BufferFull(s)}

\* Every sample returned is one the device delivered whole, its words not mixed
\* with those of another, in the order of delivery and none twice, also from one
\* call to the next.
InOrder ==
    setting \in Served =>
        /\ \A i \in 1..Len(out) : \A k \in 0..(Chan - 1) :
              out[i][k] = Number(out[i]) * Chan + k
        /\ \A i \in 1..Len(out) : Number(out[i]) > last /\ Number(out[i]) \in complete
        /\ \A i, j \in 1..Len(out) : i < j => Number(out[i]) < Number(out[j])

\* While the device loses nothing, every sample it delivered whole is returned or
\* kept for the next call, unless it counts as no data, and a client that meets no
\* such sample gets all it asked for.
NothingLost ==
    setting \in Served /\ pc = "idle" /\ setting.lost = 0 =>
        /\ \A f \in complete \ (delivered \union setting.silent) :
              \E i \in 0..(data_size - Chan) :
                  \A k \in 0..(Chan - 1) : buffer[i + k] = f * Chan + k
        /\ setting.silent = {} => Len(out) * Chan = len

\* A speechArrayOpen that fails, wherever it does, holds nothing afterwards, and a
\* closed handle leaves nothing behind.  The exception: the label Error never
\* closes the device (lines 120 and 129).
NothingHeld ==
    /\ pc = "failed" => held \ (IF at \in {"pcm", "buffer"} THEN {"pcm"} ELSE {}) = {}
    /\ pc = "closed" => held = {}

\* Every call of such a client returns unless the device has failed; it reads at
\* most twice and crashes nowhere.  (While pcm_read fails it is called again, for
\* ever; speecharray.h:46 promises a value below zero.)
ReadsReturn ==
    setting \in Served /\ pc \in {"read", "digest", "crashed"} ~> pc = "idle" \/ gone
=============================================================================
