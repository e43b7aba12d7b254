------------------------------ MODULE PcmProofs ------------------------------
(***************************************************************************)
(* Invariants of the PCM library, for all sizes of periods and rings, all  *)
(* flags, and clients that make any calls: what a handle holds, what its   *)
(* calls transfer, what its flags know of the stream, and the frames in    *)
(* its ring.                                                               *)
(***************************************************************************)
EXTENDS Pcm, WellFoundedInduction, TLAPS

\* A ring that can reach the threshold at which it is started.
ThresholdInRing ==
    \A s \in Setting, p \in Period : s.start_threshold <= s.period_count * p

\* The default threshold, half a ring, is a frame at least.
RingOfTwo ==
    \A s \in Setting, p \in Period : s.start_threshold # 0 \/ s.period_count * p >= 2
-----------------------------------------------------------------------------
(* A handle and its calls.                                                 *)

\* The calls with a ring and without one, by the step they are at.
WithRing == {"transfer", "wait", "begin", "commit"}
Plain == {"write", "initial", "read", "start"}

\* A closed or failed handle holds nothing more than NoLeak says.
HandleInv ==
    /\ NoLeak
    /\ unmapped => handle = "closed"

\* What pcm_open has set.
Sizes ==
    /\ handle = "none" => buffer_size = 0 /\ boundary = 0 /\ start_threshold = 0
    /\ handle = "ready" =>
        /\ buffer_size > 0 /\ 2 * buffer_size <= boundary /\ avail_min > 0
        /\ \E p \in Period :
              /\ buffer_size = setting.period_count * p
              /\ start_threshold = IF setting.start_threshold # 0 THEN setting.start_threshold
                                   ELSE IF PCM_IN THEN 1 ELSE buffer_size \div 2

\* Where a call is, and what it has found out by then.
Calls ==
    /\ handle # "ready" => pc = "idle" /\ ret = "none" /\ ~running /\ ~prepared /\ state = "setup"
    /\ pc \in WithRing => PCM_MMAP /\ count > 0
    /\ pc = "wait" => running
    /\ pc \in {"begin", "commit"} => prepared \/ "unprepared" \in upset
    /\ pc \in Plain => ~PCM_MMAP /\ moved = 0
    /\ pc \in {"initial", "start"} => prepared /\ ~running
    /\ running => prepared
    /\ PCM_MMAP => moved = 0
    /\ pc \in {"begin", "commit"} => size \in 1..count
    /\ pc = "commit" => frames <= size

\* No xrun is counted twice, nor before it happened.
Counted == underruns + (IF state = "xrun" /\ running /\ ~PCM_MMAP THEN 1 ELSE 0) <= xruns

CallInv == TypeOK /\ Sizes /\ Calls /\ Counted

\* What a call that returns has transferred.
Returned ==
    pc = "idle" =>
        /\ ret = "ok" => IF PCM_MMAP THEN count = 0
                         ELSE \/ moved = count
                              \/ /\ moved \in 1..(count - 1) /\ running
                                 /\ cut \/ dead \/ state \in {"xrun", "suspended"}
        /\ ret \notin {"ok", "none"} => moved = 0
-----------------------------------------------------------------------------
(* What the library knows of the stream, unless one of the four things     *)
(* happens that NeverRefused names, or the device has failed.              *)

Clean == upset \intersect {"stopped", "suspended", "interrupted", "unprepared"} = {}
Handled == Clean /\ ~dead

Flags ==
    Handled =>
        /\ state = "running" => running
        /\ running => state # "setup"
        /\ prepared /\ ~running => state = "prepared" /\ hw_ptr = 0

\* The frames put into a ring before it runs are those from 0 to appl_ptr.
Pointers ==
    Handled /\ PCM_MMAP /\ handle = "ready" =>
        /\ ~prepared /\ sync_ptr => appl_ptr = 0
        /\ prepared => k_appl_ptr = appl_ptr
        /\ prepared /\ ~running /\ ~PCM_IN =>
              /\ appl_ptr <= buffer_size
              /\ pc = "commit" => frames <= buffer_size - appl_ptr

StreamInv == Flags /\ Pointers /\ (Clean => ~refused)
-----------------------------------------------------------------------------
(* The boundary of the pointers.  A set of natural numbers has a least     *)
(* element: what a loop computes is shown for the number of its rounds.    *)

LEMMA LeastNumber ==
    ASSUME NEW T, T \subseteq Nat, T # {}
    PROVE  \E x \in T : \A y \in T : x <= y
<1> DEFINE R == {ss \in Nat \X Nat : ss[1] < ss[2]}
<1>1. IsWellFoundedOn(R, Nat) BY NatLessThanWellFounded DEF OpToRel
<1> HIDE DEF R
<1>2. PICK x \in T : \A y \in T : ~(<<y, x>> \in R) BY <1>1, WFMin
<1>3. \A y \in T : ~(y < x)
  <2> SUFFICES ASSUME NEW y \in T, y < x PROVE FALSE
    OBVIOUS
  <2>1. <<y, x>> \in R BY DEF R
  <2> QED BY <2>1, <1>2
<1> QED BY <1>3

\* How the loop of pcm_open goes on from n, for the numbers from a on.
Loop(b, a, g) ==
    /\ g = [n \in a..INT_MAX |-> g[n]]
    /\ \A n \in a..INT_MAX : g[n] = IF 2 * n <= INT_MAX - b THEN g[2 * n] ELSE n

\* The loop ends: it is defined from INT_MAX downwards.
LEMMA LoopDefined ==
    ASSUME NEW b \in Nat
    PROVE  \E g : Loop(b, 1, g)
<1> DEFINE T == {a \in Nat \ {0} : \E g : Loop(b, a, g)}
<1>0. INT_MAX \in Nat BY PcmAssumption
<1>1. Loop(b, INT_MAX + 1, [n \in (INT_MAX + 1)..INT_MAX |-> n]) BY <1>0 DEF Loop
<1>2. T \subseteq Nat /\ T # {}
  <2>1. INT_MAX + 1 \in Nat \ {0} BY <1>0
  <2>2. INT_MAX + 1 \in T BY <1>1, <2>1
  <2> QED BY <2>2
<1>3. PICK a \in T : \A y \in T : a <= y BY <1>2, LeastNumber
<1>4. PICK g : Loop(b, a, g) BY <1>3
<1>5. ASSUME a # 1 PROVE FALSE
  <2> DEFINE c == a - 1
             h == [n \in c..INT_MAX |-> IF n # c THEN g[n]
                                        ELSE IF 2 * n <= INT_MAX - b THEN g[2 * n] ELSE n]
  <2>1. a \in Nat /\ c \in Nat \ {0} /\ c < a /\ a = c + 1 BY <1>3, <1>5
  <2> HIDE DEF c
  <2>2. \A n \in c..INT_MAX : h[n] = IF 2 * n <= INT_MAX - b THEN h[2 * n] ELSE n
    <3> SUFFICES ASSUME NEW n \in c..INT_MAX
                 PROVE  h[n] = IF 2 * n <= INT_MAX - b THEN h[2 * n] ELSE n
      OBVIOUS
    <3>1. 2 * n <= INT_MAX - b => 2 * n \in c..INT_MAX /\ 2 * n # c BY <1>0, <2>1
    <3>2. 2 * n <= INT_MAX - b => h[2 * n] = g[2 * n] BY <3>1
    <3>3. CASE n = c BY <3>2, <3>3
    <3>4. CASE n # c
      <4>1. n \in a..INT_MAX BY <3>4, <2>1, <1>0
      <4> QED BY <4>1, <3>2, <3>4, <1>4 DEF Loop
    <3> QED BY <3>3, <3>4
  <2>3. Loop(b, c, h) BY <2>2 DEF Loop
  <2>4. c \in T BY <2>1, <2>3
  <2> QED BY <2>4, <2>1, <1>3
<1> QED BY <1>4, <1>5

LEMMA BoundaryLoop ==
    ASSUME NEW b \in Nat
    PROVE  \E g : Loop(b, 1, g) /\ Boundary(b) = g[b]
<1> DEFINE F(g) == [n \in 1..INT_MAX |-> IF 2 * n <= INT_MAX - b THEN g[2 * n] ELSE n]
           grow == CHOOSE g : g = F(g)
<1>1. Boundary(b) = grow[b] BY DEF Boundary
<1>2. PICK g : Loop(b, 1, g) BY LoopDefined
<1>3. g = F(g) BY <1>2 DEF Loop
<1>4. grow = F(grow)
  <2> HIDE DEF F
  <2> QED BY <1>3
<1>5. Loop(b, 1, grow)
  <2> HIDE DEF grow
  <2> QED BY <1>4 DEF Loop
<1> QED BY <1>1, <1>5

\* The boundary is a multiple of the ring, two rings at least, and as large as an
\* int and a ring allow.
LEMMA BoundaryFits ==
    ASSUME NEW b \in Nat \ {0}, 3 * b <= INT_MAX
    PROVE  /\ Boundary(b) \in Nat /\ 2 * b <= Boundary(b) /\ Boundary(b) <= INT_MAX - b
           /\ \E k \in Nat : Boundary(b) = k * b
<1>0. INT_MAX \in Nat BY PcmAssumption
<1>1. PICK g : Loop(b, 1, g) /\ Boundary(b) = g[b] BY BoundaryLoop
<1> DEFINE Reaches(n) == /\ g[n] \in Nat /\ n <= g[n] /\ (g[n] = n \/ g[n] <= INT_MAX - b)
                         /\ \E k \in Nat : g[n] = k * n
           T == {d \in 0..(INT_MAX - 1) : ~Reaches(INT_MAX - d)}
<1>2. T = {}
  <2> SUFFICES ASSUME T # {} PROVE FALSE
    OBVIOUS
  <2>0. T \subseteq Nat OBVIOUS
  <2>1. PICK d \in T : \A y \in T : d <= y
    <3> HIDE DEF T
    <3> QED BY <2>0, LeastNumber
  <2> DEFINE n == INT_MAX - d
  <2>2. n \in 1..INT_MAX /\ d = INT_MAX - n /\ ~Reaches(n) BY <2>1, <1>0
  <2>3. g[n] = IF 2 * n <= INT_MAX - b THEN g[2 * n] ELSE n BY <1>1, <2>2 DEF Loop
  <2>4. CASE 2 * n <= INT_MAX - b
    <3>1. INT_MAX - 2 * n \in 0..(INT_MAX - 1) /\ INT_MAX - 2 * n < d
          /\ INT_MAX - (INT_MAX - 2 * n) = 2 * n
      BY <2>2, <2>4, <1>0
    <3>2. INT_MAX - 2 * n \notin T BY <3>1, <2>1
    <3>3. Reaches(2 * n) BY <3>1, <3>2, <2>2, <1>0
    <3>4. g[n] \in Nat /\ n <= g[n] /\ g[n] <= INT_MAX - b BY <2>2, <2>3, <2>4, <3>3, <1>0
    <3>5. \E k \in Nat : g[n] = k * n
      <4>1. PICK k \in Nat : g[2 * n] = k * (2 * n) BY <3>3
      <4>2. g[n] = (2 * k) * n /\ 2 * k \in Nat BY <4>1, <2>2, <2>3, <2>4
      <4> QED BY <4>2
    <3> QED BY <2>2, <3>4, <3>5
  <2>5. CASE ~(2 * n <= INT_MAX - b)
    <3>1. g[n] = n /\ n = 1 * n /\ n \in Nat BY <2>2, <2>3, <2>5
    <3> QED BY <2>2, <3>1
  <2> QED BY <2>4, <2>5
<1>3. \A n \in 1..INT_MAX : Reaches(n)
  <2> SUFFICES ASSUME NEW n \in 1..INT_MAX PROVE Reaches(n)
    OBVIOUS
  <2>1. INT_MAX - n \in 0..(INT_MAX - 1) /\ INT_MAX - (INT_MAX - n) = n BY <1>0
  <2>2. INT_MAX - n \notin T BY <1>2
  <2> QED BY <2>1, <2>2
<1>4. 2 * b <= INT_MAX - b /\ b \in 1..INT_MAX /\ 2 * b \in 1..INT_MAX BY <1>0
<1>5. g[b] = g[2 * b] BY <1>1, <1>4 DEF Loop
<1>6. Reaches(b) /\ Reaches(2 * b) BY <1>3, <1>4
<1> QED BY <1>1, <1>4, <1>5, <1>6, <1>0
-----------------------------------------------------------------------------
(* What a handle is, step by step.                                         *)

\* A ring of any device fits an int three times.
LEMMA RingFits ==
    ASSUME setting \in Setting, NEW p \in Period
    PROVE  /\ setting.period_count * p \in Nat \ {0}
           /\ 3 * (setting.period_count * p) <= INT_MAX
<1>1. p \in Nat \ {0} /\ setting.period_count \in Nat \ {0} BY PcmAssumption
<1>2. setting.period_count * p \in Nat \ {0} BY <1>1
<1>3. 3 * setting.period_count * p <= INT_MAX BY PcmAssumption
<1>4. 3 * setting.period_count * p = 3 * (setting.period_count * p) BY <1>1
<1> QED BY <1>2, <1>3, <1>4

\* What pcm_open computes.
LEMMA Opened ==
    ASSUME CallInv, pcm_open
    PROVE  /\ buffer_size' \in Nat \ {0} /\ boundary' \in Nat /\ 2 * buffer_size' <= boundary'
           /\ start_threshold' \in Nat /\ stop_threshold' \in Nat /\ avail_min' \in Nat \ {0}
           /\ sync_ptr' \in BOOLEAN
           /\ held' \subseteq {"struct", "fd", "ring", "pages", "sync_ptr"}
           /\ Sizes'
<1>1. PICK period \in Period, sync \in BOOLEAN :
        /\ buffer_size' = setting.period_count * period
        /\ sync_ptr' = sync
        /\ held' = {"struct", "fd", StatusPart(sync)} \union (IF PCM_MMAP THEN {"ring"} ELSE {})
  BY DEF pcm_open
<1>2. setting \in Setting BY DEF CallInv, TypeOK
<1>3. buffer_size' \in Nat \ {0} /\ 3 * buffer_size' <= INT_MAX BY <1>1, <1>2, RingFits
<1>4. boundary' = Boundary(buffer_size') BY DEF pcm_open
<1>5. boundary' \in Nat /\ 2 * buffer_size' <= boundary' BY <1>3, <1>4, BoundaryFits
<1>6. /\ setting.start_threshold \in Nat /\ setting.stop_threshold \in Nat
      /\ setting.avail_min \in Nat /\ setting.period_size \in Nat \ {0}
  BY <1>2, PcmAssumption
<1>7. /\ start_threshold' = IF setting.start_threshold # 0 THEN setting.start_threshold
                            ELSE IF PCM_IN THEN 1 ELSE buffer_size' \div 2
      /\ stop_threshold' = IF setting.stop_threshold # 0 THEN setting.stop_threshold
                           ELSE IF PCM_IN THEN 10 * buffer_size' ELSE buffer_size'
      /\ avail_min' = IF setting.avail_min # 0 THEN setting.avail_min
                      ELSE IF PCM_MMAP THEN setting.period_size ELSE 1
      /\ handle' = "ready" /\ UNCHANGED setting
  BY DEF pcm_open
<1>8. buffer_size' \div 2 \in Nat
  <2>1. \A b \in Nat : b \div 2 \in Nat OBVIOUS
  <2> QED BY <1>3, <2>1
<1>9. start_threshold' \in Nat /\ stop_threshold' \in Nat /\ avail_min' \in Nat \ {0}
  <2>1. start_threshold' \in Nat BY <1>6, <1>7, <1>8
  <2>2. 10 * buffer_size' \in Nat /\ buffer_size' \in Nat
    <3>1. \A b \in Nat \ {0} : 10 * b \in Nat /\ b \in Nat OBVIOUS
    <3> QED BY <1>3, <3>1
  <2>3. stop_threshold' \in Nat BY <1>6, <1>7, <2>2
  <2>4. avail_min' \in Nat \ {0} BY <1>6, <1>7
  <2> QED BY <2>1, <2>3, <2>4
<1>10. held' \subseteq {"struct", "fd", "ring", "pages", "sync_ptr"} BY <1>1 DEF StatusPart
<1>11. Sizes' BY <1>1, <1>3, <1>5, <1>7, <1>9 DEF Sizes, PCM_IN
<1> QED BY <1>1, <1>3, <1>5, <1>9, <1>10, <1>11

\* The frames a ring has for the client, as the library counts them.
LEMMA AvailNatural ==
    ASSUME TypeOK
    PROVE  pcm_mmap_avail \in Nat
BY DEF TypeOK, pcm_mmap_avail, pcm_mmap_capture_avail, pcm_mmap_playback_avail

\* pcm_mmap_begin stays within what is asked for and what is available.
LEMMA BeginBounds ==
    ASSUME CallInv, pcm_mmap_begin
    PROVE  /\ frames' \in 0..buffer_size /\ frames' <= size /\ frames' <= pcm_mmap_avail
           /\ frames' <= buffer_size - (appl_ptr % buffer_size)
<1>1. pcm_mmap_avail \in Nat BY AvailNatural DEF CallInv
<1>2. pc = "begin" /\ handle = "ready" BY DEF pcm_mmap_begin, CallInv, Calls
<1>3. buffer_size \in Nat \ {0} /\ appl_ptr \in Nat /\ size \in Nat
  BY <1>2 DEF CallInv, Sizes, TypeOK
<1>4. appl_ptr % buffer_size \in 0..(buffer_size - 1) BY <1>3
<1> QED BY <1>1, <1>3, <1>4 DEF pcm_mmap_begin, Smaller

\* The pointers stay below the boundary, or at it.
LEMMA ForwardBounds ==
    ASSUME CallInv, handle = "ready", frames \in 0..buffer_size
    PROVE  pcm_mmap_appl_forward(frames) \in 0..boundary
<1>1. buffer_size \in Nat \ {0} /\ boundary \in Nat /\ 2 * buffer_size <= boundary /\ appl_ptr \in 0..boundary
  BY DEF CallInv, TypeOK, Sizes
<1> QED BY <1>1 DEF pcm_mmap_appl_forward

LEMMA HwBounds ==
    ASSUME CallInv, handle = "ready", Forward
    PROVE  hw_ptr' \in 0..boundary
<1>1. boundary \in Nat \ {0} /\ hw_ptr \in Nat BY DEF CallInv, TypeOK, Sizes
<1> QED BY <1>1 DEF Forward

\* The types, action by action.
LEMMA ClientTypes ==
    ASSUME CallInv, Client
    PROVE  TypeOK'
<1>0. TypeOK BY DEF CallInv
<1>1. CASE pcm_open
  <2>1. /\ buffer_size' \in Nat \ {0} /\ boundary' \in Nat
        /\ start_threshold' \in Nat /\ stop_threshold' \in Nat /\ avail_min' \in Nat \ {0}
        /\ sync_ptr' \in BOOLEAN
        /\ held' \subseteq {"struct", "fd", "ring", "pages", "sync_ptr"}
    BY <1>1, Opened
  <2>2. /\ handle = "none" /\ handle' = "ready"
        /\ ring' = [c \in 0..(buffer_size' - 1) |-> -1]
        /\ UNCHANGED <<setting, failure, unmapped, flags, underruns, wait_for_avail_min, pointers,
                       state, faults, call, total, done, garbled, refused, upset>>
    BY <1>1 DEF pcm_open
  <2>3. boundary = 0 /\ buffer_size = 0 BY <2>2 DEF CallInv, Sizes
  <2>4. appl_ptr = 0 /\ k_appl_ptr = 0 /\ hw_ptr = 0 /\ frames = 0 BY <1>0, <2>3 DEF TypeOK
  <2>5. ring' \in [Cell' -> Int] BY <2>2 DEF Cell
  <2> QED BY <1>0, <2>1, <2>2, <2>4, <2>5 DEF TypeOK, flags, pointers, faults, call
<1>2. ASSUME NEW step \in Step, pcm_open_fails(step) PROVE TypeOK'
  <2>1. step \in {"calloc", "open", "info", "noirq", "hw_params", "mmap", "sw_params", "status", "ttstamp"}
    BY <1>2 DEF Step
  <2>2. held' \subseteq {"struct", "fd", "ring", "pages", "sync_ptr"}
    BY <1>2 DEF pcm_open_fails, Taken, StatusPart
  <2> QED BY <1>0, <1>2, <2>1, <2>2 DEF pcm_open_fails, TypeOK, Cell, flags, pointers, faults, call, stream
<1>3. CASE pcm_close
  <2>1. /\ handle' = "closed" /\ prepared' \in BOOLEAN /\ running' \in BOOLEAN /\ held' = {}
        /\ state' = "setup" /\ ret' = "none"
    BY <1>3 DEF pcm_close
  <2>2. unmapped' \in BOOLEAN BY <1>3 DEF pcm_close
  <2>3. UNCHANGED <<setting, failure, sync_ptr, buffer_size, boundary, start_threshold,
                    stop_threshold, avail_min, underruns, wait_for_avail_min, pointers, faults, pc,
                    count, size, frames, moved, cut, stream, refused, upset>>
    BY <1>3 DEF pcm_close
  <2> QED BY <1>0, <2>1, <2>2, <2>3 DEF TypeOK, Cell, pointers, faults, stream
<1>4. CASE pcm_prepare
  <2>1. UNCHANGED <<opened, avail_min, running, underruns, wait_for_avail_min, faults, call, ring,
                    total, garbled, upset>>
    BY <1>4 DEF pcm_prepare
  <2>2. CASE Prepare /\ UNCHANGED refused
    BY <1>0, <2>1, <2>2 DEF Prepare, TypeOK, Cell, opened, faults, call
  <2>3. CASE refused' = TRUE /\ UNCHANGED <<prepared, state, pointers, done>>
    BY <1>0, <2>1, <2>3 DEF TypeOK, Cell, opened, pointers, faults, call
  <2> QED BY <1>4, <2>2, <2>3 DEF pcm_prepare
<1>5. CASE pcm_stop
  <2>1. disturbed' \in 0..MaxDisturbed BY <1>0, <1>5, PcmAssumption DEF pcm_stop, Disturb, TypeOK
  <2>2. upset' \subseteq Upset BY <1>0, <1>5 DEF pcm_stop, TypeOK, Upset
  <2>3. /\ state' = "setup" /\ ret' = "none" /\ running' \in BOOLEAN /\ prepared' \in BOOLEAN
        /\ UNCHANGED <<opened, avail_min, underruns, wait_for_avail_min, pointers, dead, xruns,
                       pc, count, size, frames, moved, cut, stream, refused>>
    BY <1>5 DEF pcm_stop, Stopped
  <2> QED BY <1>0, <2>1, <2>2, <2>3 DEF TypeOK, Cell, opened, pointers, stream
<1>6. CASE Rejected
  <2>1. ret' = "rejected" /\ moved' \in Nat /\ count' \in Nat /\ cut' \in BOOLEAN BY <1>6 DEF Rejected
  <2>2. UNCHANGED <<opened, avail_min, flags, underruns, wait_for_avail_min, pointers, state,
                    faults, pc, size, frames, stream, refused, upset>>
    BY <1>6 DEF Rejected
  <2> QED BY <1>0, <2>1, <2>2 DEF TypeOK, Cell, opened, flags, pointers, faults, stream
<1>7. CASE pcm_get_htimestamp
  <2>1. upset' \subseteq Upset BY <1>0, <1>7 DEF pcm_get_htimestamp, TypeOK, Upset
  <2> QED BY <1>0, <1>7, <2>1 DEF pcm_get_htimestamp, PullApplPtr, TypeOK, Cell, opened, flags, faults, call, stream
<1>8. CASE pcm_state
  BY <1>0, <1>8 DEF pcm_state, PushApplPtr, TypeOK, Cell, opened, flags, faults, call, stream
<1>9. ASSUME NEW n \in Counts, pcm_write(n) \/ pcm_read(n) \/ pcm_mmap_call(n) PROVE TypeOK'
  <2>1. n \in Nat BY PcmAssumption
  <2>5. /\ pc' = "write" \/ pc' = "read" \/ pc' = "transfer"
        /\ count' = n /\ ret' = "none" /\ moved' = 0 /\ cut' = FALSE
    BY <1>9 DEF pcm_write, pcm_read, pcm_mmap_call, Call
  <2>2. count' \in Nat /\ moved' \in Nat BY <2>1, <2>5
  <2>6. /\ pc' \in {"idle", "write", "initial", "read", "start", "transfer", "wait", "begin", "commit"}
        /\ ret' = "none" /\ cut' \in BOOLEAN
    BY <2>5
  <2>4. UNCHANGED <<opened, avail_min, flags, underruns, wait_for_avail_min, pointers, state,
                    faults, size, frames, stream, refused>>
    BY <1>9 DEF pcm_write, pcm_read, pcm_mmap_call, Call
  <2>3. upset' \subseteq Upset
    BY <1>0, <1>9 DEF pcm_write, pcm_read, pcm_mmap_call, TypeOK, Upset
  <2> QED BY <1>0, <2>2, <2>3, <2>4, <2>6 DEF TypeOK, Cell, opened, flags, pointers, faults, stream
<1>10. ASSUME NEW n \in Counts, pcm_set_avail_min(Smaller(n, buffer_size)) PROVE TypeOK'
  <2>1. Smaller(n, buffer_size) \in Nat BY <1>0, PcmAssumption DEF Smaller, TypeOK
  <2> QED BY <1>0, <1>10, <2>1 DEF pcm_set_avail_min, TypeOK, Cell, opened, flags, pointers, faults, call, stream
<1> QED BY <1>1, <1>2, <1>3, <1>4, <1>5, <1>6, <1>7, <1>8, <1>9, <1>10 DEF Client

\* What TransferLoop decides: start the stream or not, wait, return, or copy.
StartFails ==
    /\ Starts /\ (dead \/ (~prepared /\ Busy)) /\ refused' = (refused \/ ~dead)
    /\ pc' = "idle" /\ ret' = "error" /\ PushApplPtr(appl_ptr)
    /\ UNCHANGED <<running, prepared, state, appl_ptr, hw_ptr, done, wait_for_avail_min, size>>
StartRefused ==
    /\ Starts /\ ~dead /\ (prepared \/ ~Busy) /\ PrepareRing /\ ~CanStart /\ refused' = TRUE
    /\ pc' = "idle" /\ ret' = "error" /\ state' = IF prepared THEN state ELSE "prepared"
    /\ UNCHANGED <<running, wait_for_avail_min, size>>
GoesOn ==
    /\ \/ /\ Starts /\ ~dead /\ (prepared \/ ~Busy) /\ PrepareRing /\ CanStart
          /\ running' = TRUE /\ state' = "running"
       \/ /\ ~Starts /\ PushApplPtr(appl_ptr)
          /\ UNCHANGED <<running, prepared, state, appl_ptr, hw_ptr, done>>
    /\ UNCHANGED refused /\ wait_for_avail_min' \in BOOLEAN
    /\ \/ /\ running' /\ pc' = "wait" /\ UNCHANGED <<size, ret>>
       \/ /\ size' = Smaller(count, pcm_mmap_avail)
          /\ running' /\ count > pcm_mmap_avail => pcm_mmap_avail >= avail_min
          /\ \/ size' = 0 /\ pc' = "idle" /\ ret' = "ok"
             \/ size' # 0 /\ pc' = "begin" /\ UNCHANGED ret

LEMMA WaitsOrCopies ==
    ASSUME TypeOK, WaitOrCopy
    PROVE  /\ wait_for_avail_min' \in BOOLEAN
           /\ \/ running' /\ pc' = "wait" /\ UNCHANGED <<size, ret>>
              \/ /\ size' = Smaller(count, pcm_mmap_avail)
                 /\ running' /\ count > pcm_mmap_avail => pcm_mmap_avail >= avail_min
                 /\ \/ size' = 0 /\ pc' = "idle" /\ ret' = "ok"
                    \/ size' # 0 /\ pc' = "begin" /\ UNCHANGED ret
<1> DEFINE wait == (~Starts /\ wait_for_avail_min) \/ (running' /\ count > pcm_mmap_avail)
<1>1. IF running' /\ wait /\ pcm_mmap_avail < avail_min
      THEN /\ wait_for_avail_min' = FALSE
           /\ pc' = "wait" /\ UNCHANGED <<size, ret>>
      ELSE /\ wait_for_avail_min' = wait
           /\ size' = Smaller(count, pcm_mmap_avail)
           /\ IF size' = 0 THEN Return("ok") ELSE pc' = "begin" /\ UNCHANGED ret
  BY DEF WaitOrCopy
<1>2. wait \in BOOLEAN OBVIOUS
<1>3. pcm_mmap_avail \in Nat /\ avail_min \in Nat BY AvailNatural DEF TypeOK
<1>4. running' /\ count > pcm_mmap_avail => wait OBVIOUS
<1> HIDE DEF wait
<1>5. CASE running' /\ wait /\ pcm_mmap_avail < avail_min BY <1>1, <1>5
<1>6. CASE ~(running' /\ wait /\ pcm_mmap_avail < avail_min)
  <2>1. /\ wait_for_avail_min' \in BOOLEAN /\ size' = Smaller(count, pcm_mmap_avail)
        /\ \/ size' = 0 /\ pc' = "idle" /\ ret' = "ok"
           \/ size' # 0 /\ pc' = "begin" /\ UNCHANGED ret
    BY <1>1, <1>2, <1>6 DEF Return
  <2>2. running' /\ count > pcm_mmap_avail => pcm_mmap_avail >= avail_min BY <1>3, <1>4, <1>6
  <2> QED BY <2>1, <2>2
<1> QED BY <1>5, <1>6

LEMMA LoopKinds ==
    ASSUME TypeOK, TransferLoop
    PROVE  /\ pc = "transfer"
           /\ UNCHANGED <<opened, avail_min, underruns, faults, count, frames, moved, cut, ring,
                          total, garbled>>
           /\ upset' = upset \union (IF prepared \/ (PCM_IN /\ Starts /\ pcm_mmap_avail = 0) THEN {}
                                     ELSE {"unprepared"})
           /\ StartFails \/ StartRefused \/ GoesOn
<1>1. \/ StartFails \/ StartRefused
      \/ /\ Starts /\ ~dead /\ (prepared \/ ~Busy) /\ PrepareRing /\ CanStart
         /\ running' = TRUE /\ state' = "running" /\ WaitOrCopy /\ UNCHANGED refused
      \/ /\ ~Starts /\ PushApplPtr(appl_ptr)
         /\ UNCHANGED <<running, prepared, state, appl_ptr, hw_ptr, done, refused>>
         /\ WaitOrCopy
  BY DEF TransferLoop, StartFails, StartRefused, Return
<1>2. WaitOrCopy /\ UNCHANGED refused
      /\ (\/ /\ Starts /\ ~dead /\ (prepared \/ ~Busy) /\ PrepareRing /\ CanStart
             /\ running' = TRUE /\ state' = "running"
          \/ /\ ~Starts /\ PushApplPtr(appl_ptr)
             /\ UNCHANGED <<running, prepared, state, appl_ptr, hw_ptr, done>>) => GoesOn
  BY WaitsOrCopies DEF GoesOn
<1>3. StartFails \/ StartRefused \/ GoesOn BY <1>1, <1>2
<1> QED BY <1>3 DEF TransferLoop

\* What TransferLoop does to the pointers.
LEMMA LoopPointers ==
    ASSUME TypeOK, TransferLoop
    PROVE  /\ appl_ptr' \in {appl_ptr, 0} /\ hw_ptr' \in {hw_ptr, 0} /\ done' \in {done, total}
           /\ k_appl_ptr' \in {k_appl_ptr, appl_ptr, 0}
           /\ prepared' = prepared \/ prepared' = TRUE
           /\ running' = running \/ running' = TRUE
           /\ state' \in {state, "prepared", "running"}
           /\ size' = size \/ size' = Smaller(count, pcm_mmap_avail)
           /\ refused' \in {refused, refused \/ ~dead, TRUE}
           /\ wait_for_avail_min' \in BOOLEAN
           /\ ret' \in {ret, "ok", "error"} /\ pc' \in {"idle", "wait", "begin"}
<1>1. \A ptr : PushApplPtr(ptr) => k_appl_ptr' \in {k_appl_ptr, ptr} BY DEF PushApplPtr
<1>2. PrepareRing =>
        /\ appl_ptr' \in {appl_ptr, 0} /\ hw_ptr' \in {hw_ptr, 0} /\ done' \in {done, total}
        /\ k_appl_ptr' \in {k_appl_ptr, appl_ptr, 0} /\ (prepared' = prepared \/ prepared' = TRUE)
  BY <1>1 DEF PrepareRing
<1>3. wait_for_avail_min \in BOOLEAN BY DEF TypeOK
<1>4. CASE StartFails BY <1>1, <1>3, <1>4 DEF StartFails
<1>5. CASE StartRefused BY <1>2, <1>3, <1>5 DEF StartRefused
<1>6. CASE GoesOn BY <1>1, <1>2, <1>6 DEF GoesOn
<1> QED BY <1>4, <1>5, <1>6, LoopKinds

LEMMA LibraryTypes ==
    ASSUME CallInv, Library
    PROVE  TypeOK'
<1>0. TypeOK /\ Calls BY DEF CallInv
<1>1. CASE Restart
  <2>1. UNCHANGED <<opened, avail_min, running, underruns, wait_for_avail_min, faults, count, size,
                    frames, moved, cut, ring, total, garbled, upset>>
    BY <1>1 DEF Restart
  <2>2. PICK next \in {"initial", "start"} : PrepareThen(next)
    BY <1>1 DEF Restart
  <2>3. CASE pc' = next /\ UNCHANGED <<prepared, state, pointers, done, ret, refused>>
    BY <1>0, <2>1, <2>3 DEF TypeOK, Cell, opened, faults, pointers
  <2>4. CASE Return("error") /\ refused' = (refused \/ ~dead)
             /\ UNCHANGED <<prepared, state, pointers, done>>
    BY <1>0, <2>1, <2>4 DEF Return, TypeOK, Cell, opened, faults, pointers
  <2>5. CASE pc' = next /\ Prepare /\ UNCHANGED <<ret, refused>>
    BY <1>0, <2>1, <2>5 DEF Prepare, TypeOK, Cell, opened, faults
  <2> QED BY <2>2, <2>3, <2>4, <2>5 DEF PrepareThen
<1>2. CASE pcm_start
  <2>1. UNCHANGED <<opened, avail_min, prepared, underruns, wait_for_avail_min, pointers, faults,
                    count, size, frames, moved, cut, stream, upset>>
    BY <1>2 DEF pcm_start
  <2>2. running' \in BOOLEAN /\ refused' \in BOOLEAN BY <1>0, <1>2 DEF pcm_start, TypeOK
  <2>3. pc' \in {"idle", "read"} /\ ret' \in {ret, "error"} /\ state' \in {state, "running"}
    BY <1>2 DEF pcm_start, Return
  <2> QED BY <1>0, <2>1, <2>2, <2>3 DEF TypeOK, Cell, opened, pointers, faults, stream
<1>3. ASSUME state \in {"prepared", "running"}, Moves
      PROVE  /\ moved' \in Nat /\ state' \in {"prepared", "running", "xrun", "suspended"}
             /\ xruns' \in 0..MaxXrun /\ disturbed' \in 0..MaxDisturbed
             /\ dead' \in BOOLEAN /\ cut' \in BOOLEAN
  <2>1. /\ count \in Nat /\ moved \in Nat /\ xruns \in 0..MaxXrun /\ disturbed \in 0..MaxDisturbed
        /\ dead \in BOOLEAN /\ cut \in BOOLEAN /\ MaxXrun \in Nat /\ MaxDisturbed \in Nat
    BY <1>0, PcmAssumption DEF TypeOK
  <2>2. \A part \in 1..(count - 1) : moved + part \in Nat BY <2>1
  <2>3. moved + count \in Nat BY <2>1
  <2>4. Disturb => disturbed' \in 0..MaxDisturbed BY <2>1 DEF Disturb
  <2>5. xruns < MaxXrun => xruns + 1 \in 0..MaxXrun BY <2>1
  <2> QED BY <1>3, <2>1, <2>2, <2>3, <2>4, <2>5 DEF Moves, faults
<1>4. ASSUME Signal
      PROVE  /\ pc' = "idle" /\ ret' = "EINTR" /\ disturbed' \in 0..MaxDisturbed
             /\ UNCHANGED <<state, dead, xruns, moved, cut>>
  BY <1>0, <1>4, PcmAssumption DEF Signal, Disturb, Return, TypeOK
<1>5. CASE Initial
  <2>1. UNCHANGED <<opened, avail_min, prepared, underruns, wait_for_avail_min, pointers,
                    count, size, frames, stream, upset>>
    BY <1>5 DEF Initial
  <2>2. CASE Return("error") /\ refused' = (refused \/ ~dead) /\ UNCHANGED <<running, state, faults, moved, cut>>
    BY <1>0, <2>1, <2>2 DEF Return, TypeOK, Cell, opened, pointers, stream, faults
  <2>3. CASE state \in {"prepared", "running"} /\ running' = TRUE /\ Moves /\ Return("ok") /\ UNCHANGED refused
    <3>1. /\ moved' \in Nat /\ state' \in {"prepared", "running", "xrun", "suspended"}
          /\ xruns' \in 0..MaxXrun /\ disturbed' \in 0..MaxDisturbed
          /\ dead' \in BOOLEAN /\ cut' \in BOOLEAN
      BY <1>3, <2>3
    <3>2. running' = TRUE /\ pc' = "idle" /\ ret' = "ok" /\ UNCHANGED refused BY <2>3 DEF Return
    <3> QED BY <1>0, <2>1, <3>1, <3>2 DEF TypeOK, Cell, opened, pointers, stream
  <2>4. CASE Signal /\ UNCHANGED <<running, refused>>
    BY <1>0, <1>4, <2>1, <2>4 DEF TypeOK, Cell, opened, pointers, stream
  <2> QED BY <1>5, <2>2, <2>3, <2>4 DEF Initial
<1>6. CASE Transfer
  <2>1. UNCHANGED <<opened, avail_min, wait_for_avail_min, pointers, count, size, frames, stream>>
    BY <1>6 DEF Transfer
  <2>2. CASE /\ Stopped /\ Return("error")
             /\ refused' = (refused \/ (~dead /\ state = "setup"))
             /\ UNCHANGED <<underruns, state, faults, moved, cut, upset>>
    <3>1. refused' \in BOOLEAN BY <1>0, <2>2 DEF TypeOK
    <3>2. /\ running' \in BOOLEAN /\ prepared' \in BOOLEAN /\ pc' = "idle" /\ ret' = "error"
          /\ UNCHANGED <<underruns, state, faults, moved, cut, upset>>
      BY <2>2 DEF Stopped, Return
    <3> QED BY <1>0, <2>1, <3>1, <3>2 DEF TypeOK, Cell, opened, pointers, stream, faults
  <2>3. CASE ~dead /\ state = "xrun" /\ Stopped /\ Lost /\ UNCHANGED <<state, faults, moved, cut, refused, upset>>
    <3>1. ~PCM_MMAP /\ running BY <1>0, <1>6 DEF Transfer, Calls, Plain
    <3>2. underruns' \in 0..MaxXrun
      <4>1. underruns + 1 <= xruns BY <2>3, <3>1 DEF CallInv, Counted
      <4>2. underruns' = underruns + 1 BY <2>3 DEF Lost
      <4>3. underruns \in Nat /\ xruns \in 0..MaxXrun /\ MaxXrun \in Nat BY <1>0, PcmAssumption DEF TypeOK
      <4> QED BY <4>1, <4>2, <4>3
    <3>3. pc' \in {pc, "idle"} /\ ret' \in {ret, "EPIPE"} BY <2>3 DEF Lost, Return
    <3>4. running' \in BOOLEAN /\ prepared' \in BOOLEAN /\ UNCHANGED <<state, faults, moved, cut, refused, upset>>
      BY <2>3 DEF Stopped
    <3>5. pc' = "idle" \/ pc' = pc BY <3>3
    <3>6. pc' \in {"idle", "write", "initial", "read", "start", "transfer", "wait", "begin", "commit"}
      BY <1>0, <3>5 DEF TypeOK
    <3>7. ret' \in {"none", "ok", "rejected", "EPIPE", "ESTRPIPE", "EINTR", "error"}
      BY <1>0, <3>3 DEF TypeOK
    <3> QED BY <1>0, <2>1, <3>2, <3>4, <3>6, <3>7 DEF TypeOK, Cell, opened, pointers, stream, faults
  <2>4. CASE state \in {"prepared", "running"} /\ Moves /\ Return("ok") /\ UNCHANGED <<flags, underruns, refused, upset>>
    <3>1. /\ moved' \in Nat /\ state' \in {"prepared", "running", "xrun", "suspended"}
          /\ xruns' \in 0..MaxXrun /\ disturbed' \in 0..MaxDisturbed
          /\ dead' \in BOOLEAN /\ cut' \in BOOLEAN
      BY <1>3, <2>4
    <3>2. pc' = "idle" /\ ret' = "ok" /\ UNCHANGED <<flags, underruns, refused, upset>> BY <2>4 DEF Return
    <3> QED BY <1>0, <2>1, <3>1, <3>2 DEF TypeOK, Cell, opened, pointers, stream, flags
  <2>5. CASE Stopped /\ Signal /\ upset' = upset \union {"interrupted"} /\ UNCHANGED <<underruns, refused>>
    <3>1. upset' \subseteq Upset BY <1>0, <2>5 DEF TypeOK, Upset
    <3>2. running' \in BOOLEAN /\ prepared' \in BOOLEAN BY <2>5 DEF Stopped
    <3> QED BY <1>0, <1>4, <2>1, <2>5, <3>1, <3>2 DEF TypeOK, Cell, opened, pointers, stream
  <2> QED BY <1>6, <2>2, <2>3, <2>4, <2>5 DEF Transfer
<1>a. CASE TransferLoop
  <2>1. UNCHANGED <<opened, avail_min, underruns, faults, count, frames, moved, cut, ring, total, garbled>>
    BY <1>0, <1>a, LoopKinds
  <2>2. /\ appl_ptr' \in {appl_ptr, 0} /\ hw_ptr' \in {hw_ptr, 0} /\ done' \in {done, total}
        /\ k_appl_ptr' \in {k_appl_ptr, appl_ptr, 0}
        /\ prepared' = prepared \/ prepared' = TRUE
        /\ running' = running \/ running' = TRUE
        /\ state' \in {state, "prepared", "running"}
        /\ size' = size \/ size' = Smaller(count, pcm_mmap_avail)
        /\ refused' \in {refused, refused \/ ~dead, TRUE}
        /\ wait_for_avail_min' \in BOOLEAN
        /\ ret' \in {ret, "ok", "error"} /\ pc' \in {"idle", "wait", "begin"}
    BY <1>0, <1>a, LoopPointers
  <2>3. Smaller(count, pcm_mmap_avail) \in Nat BY <1>0, AvailNatural DEF Smaller, TypeOK
  <2>4. appl_ptr' \in 0..boundary /\ hw_ptr' \in 0..boundary /\ k_appl_ptr' \in 0..boundary
    <3>1. boundary \in Nat /\ appl_ptr \in 0..boundary /\ hw_ptr \in 0..boundary /\ k_appl_ptr \in 0..boundary
      BY <1>0 DEF TypeOK
    <3> QED BY <2>2, <3>1
  <2>5. done' \in Nat /\ size' \in Nat BY <1>0, <2>2, <2>3 DEF TypeOK
  <2>6. prepared' \in BOOLEAN /\ running' \in BOOLEAN /\ refused' \in BOOLEAN BY <1>0, <2>2 DEF TypeOK
  <2>7. upset' \subseteq Upset
    <3>1. upset' \subseteq upset \union {"unprepared"} BY <1>0, <1>a, LoopKinds
    <3> QED BY <1>0, <3>1 DEF TypeOK, Upset
  <2>8. /\ state' \in {"setup", "prepared", "running", "xrun", "suspended"}
        /\ ret' \in {"none", "ok", "rejected", "EPIPE", "ESTRPIPE", "EINTR", "error"}
    BY <1>0, <2>2 DEF TypeOK
  <2>9. pc' \in {"idle", "wait", "begin"} /\ wait_for_avail_min' \in BOOLEAN BY <2>2
  <2> QED BY <1>0, <2>1, <2>4, <2>5, <2>6, <2>7, <2>8, <2>9 DEF TypeOK, Cell, opened, faults
<1>7. CASE pcm_wait
  <2>1. UNCHANGED <<opened, avail_min, underruns, wait_for_avail_min, hw_ptr, state, dead, xruns,
                    count, size, frames, moved, cut, stream, refused>>
    BY <1>7 DEF pcm_wait
  <2>2. disturbed' \in 0..MaxDisturbed BY <1>0, <1>7, PcmAssumption DEF pcm_wait, Disturb, TypeOK
  <2>3. upset' \subseteq Upset BY <1>0, <1>7 DEF pcm_wait, TypeOK, Upset
  <2>4. /\ running' \in {running, FALSE} /\ prepared' \in {prepared, FALSE}
        /\ appl_ptr' \in {appl_ptr, 0} /\ k_appl_ptr' \in {k_appl_ptr, 0}
        /\ pc' \in {"idle", "transfer"} /\ ret' \in {ret, "error", "EPIPE", "ESTRPIPE", "EINTR"}
    BY <1>7 DEF pcm_wait, GiveUp, Stopped, Return, flags
  <2>5. /\ running' \in BOOLEAN /\ prepared' \in BOOLEAN
        /\ appl_ptr' \in 0..boundary /\ k_appl_ptr' \in 0..boundary
        /\ ret' \in {"none", "ok", "rejected", "EPIPE", "ESTRPIPE", "EINTR", "error"}
    <3>1. running' \in BOOLEAN /\ prepared' \in BOOLEAN BY <1>0, <2>4 DEF TypeOK
    <3>2. appl_ptr' \in 0..boundary /\ k_appl_ptr' \in 0..boundary
      <4>1. boundary \in Nat /\ appl_ptr \in 0..boundary /\ k_appl_ptr \in 0..boundary BY <1>0 DEF TypeOK
      <4> QED BY <2>4, <4>1
    <3>3. ret' \in {"none", "ok", "rejected", "EPIPE", "ESTRPIPE", "EINTR", "error"}
      BY <1>0, <2>4 DEF TypeOK
    <3> QED BY <3>1, <3>2, <3>3
  <2>6. pc' \in {"idle", "transfer"} BY <2>4
  <2> QED BY <1>0, <2>1, <2>2, <2>3, <2>5, <2>6 DEF TypeOK, Cell, opened, stream
<1>8. CASE pcm_mmap_begin
  <2>1. frames' \in 0..buffer_size BY <1>8, BeginBounds
  <2>2. k_appl_ptr' \in {k_appl_ptr, appl_ptr} BY <1>8 DEF pcm_mmap_begin, PushApplPtr
  <2>3. /\ pc' = "commit"
        /\ UNCHANGED <<opened, avail_min, flags, underruns, wait_for_avail_min, appl_ptr, hw_ptr, state,
                       faults, count, size, ret, moved, cut, stream, refused, upset>>
    BY <1>8 DEF pcm_mmap_begin
  <2> QED BY <1>0, <2>1, <2>2, <2>3 DEF TypeOK, Cell, opened, flags, faults, stream
<1>9. CASE pcm_mmap_commit
  <2>1. /\ UNCHANGED <<opened, avail_min, flags, underruns, wait_for_avail_min, hw_ptr, state, faults,
                       moved, cut, refused, upset>>
        /\ size' = size - frames /\ count' = count - frames /\ frames' = 0
        /\ appl_ptr' = pcm_mmap_appl_forward(frames) /\ k_appl_ptr' \in {k_appl_ptr, appl_ptr'}
        /\ pc' \in {"begin", "transfer", "idle"} /\ ret' \in {ret, "ok"}
    BY <1>9 DEF pcm_mmap_commit, PushApplPtr, Return
  <2>2. pc = "commit" /\ handle = "ready" /\ frames \in 0..buffer_size /\ frames <= size /\ size \in 1..count
    BY <1>0, <1>9 DEF pcm_mmap_commit, Calls, TypeOK
  <2>3. appl_ptr' \in 0..boundary BY <2>1, <2>2, ForwardBounds
  <2>4. size' \in Nat /\ count' \in Nat BY <1>0, <2>1, <2>2 DEF TypeOK
  <2>5. done' \in Nat /\ total' \in Nat /\ garbled' \in BOOLEAN /\ ring' \in [Cell -> Int]
    <3>1. total \in Nat /\ done \in Nat /\ garbled \in BOOLEAN /\ ring \in [Cell -> Int]
          /\ buffer_size \in Nat /\ appl_ptr \in Nat /\ frames \in Nat
      BY <1>0 DEF TypeOK
    <3>2. CASE PCM_IN
      <4>1. /\ done' = done + frames /\ UNCHANGED <<ring, total>>
            /\ \E e \in BOOLEAN : garbled' = (garbled \/ e)
        BY <1>9, <3>2 DEF pcm_mmap_commit
      <4> QED BY <3>1, <4>1
    <3>3. CASE ~PCM_IN
      <4> DEFINE at(c) == c - (appl_ptr % buffer_size)
      <4>1. /\ total' = total + frames /\ UNCHANGED <<done, garbled>>
            /\ ring' = [c \in Cell |-> IF at(c) \in 0..(frames - 1) THEN total + at(c) ELSE ring[c]]
        BY <1>9, <3>3 DEF pcm_mmap_commit
      <4>2. appl_ptr % buffer_size \in Int BY <2>2, <3>1 DEF CallInv, Sizes
      <4>3. \A c \in Cell : at(c) \in Int BY <3>1, <4>2 DEF Cell
      <4> HIDE DEF at
      <4> QED BY <3>1, <4>1, <4>3
    <3> QED BY <3>2, <3>3
  <2> QED BY <1>0, <2>1, <2>3, <2>4, <2>5 DEF TypeOK, Cell, opened, flags, faults
<1> QED BY <1>1, <1>2, <1>5, <1>6, <1>a, <1>7, <1>8, <1>9 DEF Library

LEMMA KernelTypes ==
    ASSUME CallInv, Play \/ Capture \/ Xrun \/ Suspend \/ Die
    PROVE  TypeOK'
<1>0. TypeOK BY DEF CallInv
<1>a. state = "running" => handle = "ready" BY DEF CallInv, Calls
<1>1. CASE Play
  <2>1. /\ state = "running" /\ PCM_MMAP
        /\ UNCHANGED <<opened, avail_min, flags, underruns, wait_for_avail_min, appl_ptr, k_appl_ptr,
                       faults, call, ring, total, refused, upset>>
    BY <1>1 DEF Play
  <2>2. hw_ptr' \in 0..boundary /\ done' \in Nat /\ garbled' \in BOOLEAN /\ state' \in {state, "xrun"}
    <3>1. CASE Forward /\ done' = done + 1 /\ UNCHANGED state
               /\ garbled' = (garbled \/ ring[hw_ptr % buffer_size] # done)
      <4>1. hw_ptr' \in 0..boundary BY <1>a, <2>1, <3>1, HwBounds
      <4>2. done' \in Nat /\ garbled' \in BOOLEAN BY <1>0, <3>1 DEF TypeOK
      <4> QED BY <3>1, <4>1, <4>2
    <3>2. CASE state' = "xrun" /\ UNCHANGED <<hw_ptr, done, garbled>> BY <1>0, <3>2 DEF TypeOK
    <3> QED BY <1>1, <3>1, <3>2 DEF Play
  <2> QED BY <1>0, <2>1, <2>2 DEF TypeOK, Cell, opened, flags, faults, call
<1>2. CASE Capture
  <2>1. /\ state = "running" /\ Forward /\ total' = total + 1
        /\ ring' = [ring EXCEPT ![hw_ptr % buffer_size] = total]
        /\ UNCHANGED <<opened, avail_min, flags, underruns, wait_for_avail_min, appl_ptr, k_appl_ptr,
                       faults, call, done, garbled, refused>>
    BY <1>2 DEF Capture
  <2>4. state' \in {state, "xrun"} /\ upset' \subseteq Upset BY <1>0, <1>2 DEF Capture, TypeOK, Upset
  <2>2. hw_ptr' \in 0..boundary BY <1>a, <2>1, HwBounds
  <2>3. ring' \in [Cell -> Int] /\ total' \in Nat
    <3>1. ring \in [Cell -> Int] /\ total \in Nat BY <1>0 DEF TypeOK
    <3>2. ring' \in [Cell -> Int]
      <4> DEFINE k == hw_ptr % buffer_size
      <4>1. ring' = [ring EXCEPT ![k] = total] BY <2>1
      <4> HIDE DEF k
      <4>2. DOMAIN ring = Cell /\ total \in Int /\ \A c \in Cell : ring[c] \in Int BY <3>1
      <4>3. ring' = [c \in Cell |-> IF c = k THEN total ELSE ring[c]] BY <4>1, <4>2
      <4> QED BY <4>2, <4>3
    <3>3. total' \in Nat BY <2>1, <3>1
    <3> QED BY <3>2, <3>3
  <2> QED BY <1>0, <2>1, <2>2, <2>3, <2>4 DEF TypeOK, Cell, opened, flags, faults, call
<1>3. CASE Xrun
  BY <1>0, <1>3, PcmAssumption DEF Xrun, TypeOK, Cell, opened, flags, pointers, call, stream
<1>4. CASE Suspend
  <2>1. disturbed' \in 0..MaxDisturbed BY <1>0, <1>4, PcmAssumption DEF Suspend, Disturb, TypeOK
  <2>2. upset' \subseteq Upset BY <1>0, <1>4 DEF Suspend, TypeOK, Upset
  <2>3. /\ state' = "suspended"
        /\ UNCHANGED <<opened, avail_min, flags, underruns, wait_for_avail_min, pointers, dead, xruns,
                       call, stream, refused>>
    BY <1>4 DEF Suspend
  <2> QED BY <1>0, <2>1, <2>2, <2>3 DEF TypeOK, Cell, opened, flags, pointers, call, stream
<1>5. CASE Die
  BY <1>0, <1>5 DEF Die, TypeOK, Cell, opened, flags, pointers, call, stream
<1> QED BY <1>1, <1>2, <1>3, <1>4, <1>5

\* Whatever a handle holds, it has released at the end.
LEMMA HandleStep ==
    ASSUME HandleInv, Next
    PROVE  HandleInv'
<1>0. HandleInv OBVIOUS
<1>1. CASE pcm_open
  BY <1>0, <1>1 DEF pcm_open, HandleInv, NoLeak, PCM_MMAP
<1>2. ASSUME NEW step \in Step, pcm_open_fails(step) PROVE HandleInv'
  <2>1. PICK sync \in BOOLEAN : held' = Taken(step, sync) \ Released(step)
    BY <1>2 DEF pcm_open_fails
  <2>2. handle = "none" /\ handle' = "failed" /\ failure' = step /\ UNCHANGED unmapped
    BY <1>2 DEF pcm_open_fails
  <2>3. held' \ (IF step = "ttstamp" THEN {"pages", "sync_ptr"} ELSE {}) \subseteq {"struct"}
    <3>1. ASSUME NEW part \in held', part # "struct" PROVE step = "ttstamp" /\ part = StatusPart(sync)
      <4>1. part \in Taken(step, sync) /\ part \notin Released(step) BY <2>1, <3>1
      <4>2. CASE part = "fd" BY <4>1, <4>2 DEF Taken, Released
      <4>3. CASE part = "ring" BY <4>1, <4>3 DEF Taken, Released, AfterMmap
      <4>4. CASE part \notin {"fd", "ring"} BY <4>1, <4>4, <3>1 DEF Taken
      <4> QED BY <4>2, <4>3, <4>4
    <3> QED BY <3>1 DEF StatusPart
  <2> QED BY <1>0, <2>2, <2>3 DEF HandleInv, NoLeak
<1>3. CASE pcm_close
  BY <1>0, <1>3 DEF pcm_close, HandleInv, NoLeak, PCM_MMAP
<1>4. CASE UNCHANGED opened
  BY <1>0, <1>4 DEF opened, HandleInv, NoLeak, PCM_MMAP
<1> QED BY <1>1, <1>2, <1>3, <1>4 DEF Next, Client, Library, pcm_prepare, pcm_stop, Rejected,
           pcm_get_htimestamp, pcm_state, pcm_write, pcm_read, pcm_mmap_call, Call, pcm_set_avail_min,
           Restart, pcm_start, Initial, Transfer, TransferLoop, pcm_wait, pcm_mmap_begin, pcm_mmap_commit,
           Play, Capture, Xrun, Suspend, Die

\* Only pcm_set_avail_min changes what pcm_open has set.
LEMMA SizesStep ==
    ASSUME CallInv, Next
    PROVE  Sizes'
<1>0. Sizes BY DEF CallInv
<1>1. CASE pcm_open BY <1>1, Opened
<1>2. ASSUME NEW step \in Step, pcm_open_fails(step) PROVE Sizes'
  BY <1>0, <1>2 DEF pcm_open_fails, Sizes
<1>3. CASE pcm_close
  BY <1>0, <1>3 DEF pcm_close, Sizes
<1>4. ASSUME NEW n \in Counts, pcm_set_avail_min(Smaller(n, buffer_size)) PROVE Sizes'
  <2>1. handle = "ready" /\ UNCHANGED opened /\ avail_min' = Smaller(n, buffer_size)
    BY <1>4 DEF pcm_set_avail_min, Ready
  <2>2. avail_min' > 0 BY <1>0, <2>1, PcmAssumption DEF Sizes, Smaller
  <2> QED BY <1>0, <2>1, <2>2 DEF opened, Sizes, PCM_IN
<1>5. CASE UNCHANGED <<opened, avail_min>>
  BY <1>0, <1>5 DEF opened, Sizes, PCM_IN
<1> QED BY <1>1, <1>2, <1>3, <1>4, <1>5 DEF Next, Client, Library, pcm_prepare, pcm_stop, Rejected,
           pcm_get_htimestamp, pcm_state, pcm_write, pcm_read, pcm_mmap_call, Call,
           Restart, pcm_start, Initial, Transfer, TransferLoop, pcm_wait, pcm_mmap_begin, pcm_mmap_commit,
           Play, Capture, Xrun, Suspend, Die

\* Nothing is forgotten.
LEMMA UpsetGrows ==
    ASSUME Next
    PROVE  upset \subseteq upset' /\ (dead => dead')
BY DEF Next, Client, Library, pcm_open, pcm_open_fails, pcm_close, pcm_prepare, pcm_stop, Rejected,
       pcm_get_htimestamp, pcm_state, pcm_write, pcm_read, pcm_mmap_call, Call, pcm_set_avail_min,
       Restart, pcm_start, Initial, Transfer, TransferLoop, pcm_wait, pcm_mmap_begin, pcm_mmap_commit,
       Play, Capture, Xrun, Suspend, Die, faults

\* Calls that the client makes, and what a step of the library does to them.
LEMMA CallsStep ==
    ASSUME CallInv, Next
    PROVE  Calls'
<1>0. TypeOK /\ Calls BY DEF CallInv
<1>a. "unprepared" \in upset => "unprepared" \in upset' BY UpsetGrows
<1>1. CASE pcm_open
  BY <1>0, <1>1 DEF pcm_open, Calls, WithRing, Plain, PCM_MMAP, flags, call
<1>2. ASSUME NEW step \in Step, pcm_open_fails(step) PROVE Calls'
  BY <1>0, <1>2 DEF pcm_open_fails, Calls, WithRing, Plain, PCM_MMAP, flags, call
<1>3. CASE pcm_close
  BY <1>0, <1>3 DEF pcm_close, Calls, WithRing, Plain, PCM_MMAP
<1>4. CASE pcm_prepare
  BY <1>0, <1>4 DEF pcm_prepare, Prepare, Ready, Calls, WithRing, Plain, PCM_MMAP, opened, call
<1>5. CASE pcm_stop
  BY <1>0, <1>5 DEF pcm_stop, Stopped, Ready, Calls, WithRing, Plain, PCM_MMAP, opened
<1>6. CASE Rejected \/ pcm_get_htimestamp \/ pcm_state
  BY <1>0, <1>6 DEF Rejected, pcm_get_htimestamp, pcm_state, Ready, Calls, WithRing, Plain, PCM_MMAP, opened, flags, call
<1>7. ASSUME NEW n \in Counts, pcm_write(n) \/ pcm_read(n) \/ pcm_mmap_call(n) PROVE Calls'
  <2>1. n > 0 BY PcmAssumption
  <2> QED BY <1>0, <1>7, <2>1 DEF pcm_write, pcm_read, pcm_mmap_call, Call, Ready, Calls, WithRing, Plain, PCM_MMAP, opened, flags
<1>8. ASSUME NEW n \in Counts, pcm_set_avail_min(Smaller(n, buffer_size)) PROVE Calls'
  BY <1>0, <1>8 DEF pcm_set_avail_min, Ready, Calls, WithRing, Plain, PCM_MMAP, opened, flags, call
<1>9. CASE Restart
  BY <1>0, <1>9 DEF Restart, PrepareThen, Prepare, Return, Calls, WithRing, Plain, PCM_MMAP, opened
<1>10. CASE pcm_start
  BY <1>0, <1>10 DEF pcm_start, Return, Calls, WithRing, Plain, PCM_MMAP, opened
<1>11. CASE Initial
  BY <1>0, <1>11 DEF Initial, Signal, Return, Calls, WithRing, Plain, PCM_MMAP, opened
<1>12. CASE Transfer
  <2>1. pc \in {"write", "read"} /\ UNCHANGED <<opened, count, size, frames>> BY <1>12 DEF Transfer
  <2>2. handle = "ready" /\ ~PCM_MMAP /\ moved = 0 /\ (running => prepared)
    BY <1>0, <2>1 DEF Calls, Plain
  <2>3. \/ pc' = "idle" /\ ret' # "none"
        \/ pc' = pc /\ moved' = moved
    BY <1>12 DEF Transfer, Signal, Lost, Return
  <2>4. running' => prepared'
    BY <1>12, <2>2 DEF Transfer, Stopped, flags
  <2> QED BY <2>1, <2>2, <2>3, <2>4 DEF Calls, WithRing, Plain, PCM_MMAP, opened
<1>13. CASE TransferLoop
  <2>1. pcm_mmap_avail \in Nat /\ count \in Nat BY <1>0, AvailNatural DEF TypeOK
  <2>2. /\ pc = "transfer" /\ UNCHANGED <<opened, count, moved>>
        /\ upset' = upset \union (IF prepared \/ (PCM_IN /\ Starts /\ pcm_mmap_avail = 0) THEN {}
                                  ELSE {"unprepared"})
        /\ StartFails \/ StartRefused \/ GoesOn
    BY <1>0, <1>13, LoopKinds
  <2>3. handle = "ready" /\ PCM_MMAP /\ count > 0 /\ moved = 0 /\ (running => prepared)
    BY <1>0, <2>2 DEF Calls, WithRing
  <2>4. CASE StartFails
    BY <2>2, <2>3, <2>4 DEF StartFails, Calls, WithRing, Plain, PCM_MMAP, opened
  <2>5. CASE StartRefused
    <3>1. pc' = "idle" /\ ~running' BY <2>5 DEF StartRefused, Starts
    <3> QED BY <2>2, <2>3, <3>1 DEF Calls, WithRing, Plain, PCM_MMAP, opened
  <2>6. CASE GoesOn
    <3>1. /\ pc' \in {"wait", "idle", "begin"} /\ (pc' = "wait" => running')
          /\ pc' = "begin" => size' # 0 /\ size' = Smaller(count, pcm_mmap_avail)
      BY <2>6 DEF GoesOn
    <3>2. pc' = "begin" => size' \in 1..count BY <2>1, <3>1 DEF Smaller
    <3>3. PrepareRing => prepared'
      <4>1. CASE prepared BY <4>1 DEF PrepareRing
      <4>2. CASE ~prepared BY <4>2 DEF PrepareRing
      <4> QED BY <4>1, <4>2
    <3>6. prepared' \/ (~Starts /\ UNCHANGED <<running, prepared>>) BY <2>6, <3>3 DEF GoesOn
    <3>4. running' => prepared' BY <2>3, <3>6
    <3>5. prepared' \/ "unprepared" \in upset'
      <4>1. CASE prepared' BY <4>1
      <4>2. CASE ~prepared'
        <5>1. ~prepared /\ ~Starts BY <3>6, <4>2
        <5> QED BY <2>2, <5>1
      <4> QED BY <4>1, <4>2
    <3> QED BY <2>2, <2>3, <3>1, <3>2, <3>4, <3>5 DEF Calls, WithRing, Plain, PCM_MMAP, opened
  <2> QED BY <2>2, <2>4, <2>5, <2>6
<1>14. CASE pcm_wait
  <2>1. /\ pc = "wait" /\ UNCHANGED <<opened, count, moved>>
        /\ \/ pc' = "idle" /\ ~running'
           \/ pc' = "transfer" /\ UNCHANGED flags
    BY <1>14 DEF pcm_wait, GiveUp, Stopped, Return
  <2>2. handle = "ready" /\ PCM_MMAP /\ count > 0 /\ moved = 0 /\ (running => prepared)
    BY <1>0, <2>1 DEF Calls, WithRing
  <2> QED BY <2>1, <2>2 DEF Calls, WithRing, Plain, PCM_MMAP, opened, flags
<1>15. CASE pcm_mmap_begin
  <2>1. frames' <= size BY <1>15, BeginBounds
  <2>2. /\ pc = "begin" /\ pc' = "commit"
        /\ UNCHANGED <<opened, flags, state, count, size, ret, moved, upset>>
    BY <1>15 DEF pcm_mmap_begin
  <2> QED BY <1>0, <2>1, <2>2 DEF Calls, WithRing, Plain, PCM_MMAP, opened, flags
<1>16. CASE pcm_mmap_commit
  <2>1. /\ pc = "commit" /\ size' = size - frames /\ count' = count - frames
        /\ \/ size' > 0 /\ pc' = "begin" /\ UNCHANGED ret
           \/ ~(size' > 0) /\ count' > 0 /\ pc' = "transfer" /\ UNCHANGED ret
           \/ ~(size' > 0) /\ ~(count' > 0) /\ pc' = "idle" /\ ret' = "ok"
        /\ UNCHANGED <<opened, flags, state, moved, upset>>
    BY <1>16 DEF pcm_mmap_commit, Return
  <2>2. size \in 1..count /\ frames <= size /\ frames \in Nat /\ count \in Nat
    BY <1>0, <2>1 DEF Calls, TypeOK
  <2>3. size' > 0 => size' \in 1..count' BY <2>1, <2>2
  <2>4. size' > 0 => count' > 0 BY <2>1, <2>2
  <2> QED BY <1>0, <2>1, <2>3, <2>4 DEF Calls, WithRing, Plain, PCM_MMAP, opened, flags
<1>17. CASE Play \/ Capture \/ Xrun \/ Suspend \/ Die
  <2>1. UNCHANGED <<opened, flags, call>> BY <1>17 DEF Play, Capture, Xrun, Suspend, Die
  <2>2. handle # "ready" => UNCHANGED state
    BY <1>0, <1>17 DEF Play, Capture, Xrun, Suspend, Die, Calls
  <2> QED BY <1>0, <1>a, <2>1, <2>2 DEF Calls, WithRing, Plain, PCM_MMAP, opened, flags, call
<1> QED BY <1>1, <1>2, <1>3, <1>4, <1>5, <1>6, <1>7, <1>8, <1>9, <1>10, <1>11, <1>12, <1>13, <1>14,
           <1>15, <1>16, <1>17 DEF Next, Client, Library

\* A threshold is never beyond the ring, nor 0 for a ring of two frames.
LEMMA Threshold ==
    ASSUME CallInv, handle = "ready"
    PROVE  /\ ThresholdInRing => start_threshold <= buffer_size
           /\ RingOfTwo => start_threshold > 0
<1>1. PICK p \in Period :
        /\ buffer_size = setting.period_count * p
        /\ start_threshold = IF setting.start_threshold # 0 THEN setting.start_threshold
                             ELSE IF PCM_IN THEN 1 ELSE buffer_size \div 2
  BY DEF CallInv, Sizes
<1>2. setting \in Setting BY DEF CallInv, TypeOK
<1>3. setting.start_threshold \in Nat BY <1>2, PcmAssumption
<1>4. buffer_size \in Nat \ {0} BY DEF CallInv, TypeOK, Sizes
<1>5. ThresholdInRing => setting.start_threshold <= buffer_size BY <1>1, <1>2 DEF ThresholdInRing
<1>6. RingOfTwo => setting.start_threshold # 0 \/ buffer_size >= 2 BY <1>1, <1>2 DEF RingOfTwo
<1>7. \A b \in Nat \ {0} : b \div 2 <= b /\ (b >= 2 => b \div 2 > 0) OBVIOUS
<1> QED BY <1>1, <1>3, <1>4, <1>5, <1>6, <1>7

LEMMA CountedStep ==
    ASSUME CallInv, Next
    PROVE  Counted'
<1>0. TypeOK /\ Calls /\ Counted BY DEF CallInv
<1>1. underruns \in Nat /\ xruns \in Nat BY <1>0 DEF TypeOK
<1> USE DEF Counted
<1>2. CASE UNCHANGED <<setting, underruns, xruns>> /\ (~running' \/ UNCHANGED <<running, state>> \/ state' # "xrun" \/ PCM_MMAP)
  BY <1>0, <1>1, <1>2 DEF PCM_MMAP
<1>3. CASE Initial
  <2>1. pc = "initial" /\ UNCHANGED <<setting, underruns>> BY <1>3 DEF Initial, opened
  <2>2. ~running BY <1>0, <2>1 DEF Calls
  <2>3. CASE UNCHANGED <<running, state, xruns>> BY <1>2, <2>1, <2>3
  <2>4. CASE state \in {"prepared", "running"} /\ Moves
    <3>1. (xruns' = xruns /\ state' # "xrun") \/ xruns' = xruns + 1 BY <2>4 DEF Moves, faults
    <3> QED BY <1>0, <1>1, <2>1, <2>2, <3>1
  <2> QED BY <1>3, <2>3, <2>4 DEF Initial, Signal, faults
<1>4. CASE Transfer
  <2>1. running /\ pc \in Plain /\ UNCHANGED setting BY <1>4 DEF Transfer, opened, Plain
  <2>2. ~PCM_MMAP BY <1>0, <2>1 DEF Calls
  <2>3. CASE Stopped /\ UNCHANGED <<underruns, xruns>> BY <1>2, <2>1, <2>3 DEF Stopped
  <2>4. CASE state = "xrun" /\ Stopped /\ Lost /\ UNCHANGED xruns
    <3>1. underruns' = underruns + 1 /\ ~running' BY <2>4 DEF Lost, Stopped
    <3> QED BY <1>0, <1>1, <2>1, <2>2, <2>4, <3>1
  <2>5. CASE state \in {"prepared", "running"} /\ Moves /\ UNCHANGED <<flags, underruns>>
    <3>1. (xruns' = xruns /\ state' # "xrun") \/ xruns' = xruns + 1 BY <2>5 DEF Moves, faults
    <3> QED BY <1>0, <1>1, <2>1, <2>2, <2>5, <3>1
  <2> QED BY <1>4, <2>3, <2>4, <2>5 DEF Transfer, Signal, faults
<1>5. CASE Xrun
  <2>1. state = "running" /\ xruns' = xruns + 1 /\ UNCHANGED underruns BY <1>5 DEF Xrun
  <2> QED BY <1>0, <1>1, <2>1
<1>6. CASE Client
  <2>1. UNCHANGED <<setting, underruns, xruns>>
    BY <1>6 DEF Client, pcm_open, pcm_open_fails, pcm_close, pcm_prepare, pcm_stop, Rejected, pcm_get_htimestamp,
                pcm_state, pcm_write, pcm_read, pcm_mmap_call, Call, pcm_set_avail_min, opened, faults
  <2>2. ~running' \/ UNCHANGED <<running, state>> \/ state' # "xrun"
    BY <1>6 DEF Client, pcm_open, pcm_open_fails, pcm_close, pcm_prepare, Prepare, pcm_stop, Stopped, Rejected,
                pcm_get_htimestamp, pcm_state, pcm_write, pcm_read, pcm_mmap_call, Call, pcm_set_avail_min, flags
  <2> QED BY <1>2, <2>1, <2>2
<1>7. CASE Restart \/ pcm_start \/ pcm_wait \/ pcm_mmap_begin \/ pcm_mmap_commit \/ Suspend \/ Die
  <2>1. UNCHANGED <<setting, underruns, xruns>>
    BY <1>7 DEF Restart, pcm_start, pcm_wait, pcm_mmap_begin, pcm_mmap_commit, Suspend, Die, opened, faults
  <2>2. ~running' \/ UNCHANGED <<running, state>> \/ state' # "xrun"
    BY <1>7 DEF Restart, PrepareThen, Prepare, pcm_start, pcm_wait, GiveUp, Stopped, pcm_mmap_begin,
                pcm_mmap_commit, Suspend, Die, flags
  <2> QED BY <1>2, <2>1, <2>2
<1>8. CASE TransferLoop
  <2>1. pc = "transfer" /\ UNCHANGED <<setting, underruns, xruns>> BY <1>0, <1>8, LoopKinds DEF opened, faults
  <2> QED BY <1>0, <1>2, <2>1 DEF Calls, WithRing
<1>9. CASE Play \/ Capture
  <2>1. PCM_MMAP /\ UNCHANGED <<setting, underruns, xruns>> BY <1>9 DEF Play, Capture, opened, faults
  <2> QED BY <1>2, <2>1
<1> QED BY <1>3, <1>4, <1>5, <1>6, <1>7, <1>8, <1>9 DEF Next, Library

LEMMA CallInit == Init => CallInv /\ HandleInv /\ Returned
<1> SUFFICES ASSUME Init PROVE CallInv /\ HandleInv /\ Returned
  OBVIOUS
<1>1. MaxXrun \in Nat /\ MaxDisturbed \in Nat BY PcmAssumption
<1>2. Cell = {} BY DEF Init, Cell
<1>3. ring \in [Cell -> Int] BY <1>2 DEF Init
<1>4. /\ setting \in Setting /\ handle = "none" /\ failure = "none" /\ buffer_size = 0 /\ boundary = 0
      /\ start_threshold = 0 /\ stop_threshold = 0 /\ avail_min = 0 /\ underruns = 0 /\ xruns = 0 /\ disturbed = 0
      /\ appl_ptr = 0 /\ k_appl_ptr = 0 /\ hw_ptr = 0 /\ held = {} /\ state = "setup" /\ pc = "idle"
      /\ count = 0 /\ size = 0 /\ frames = 0 /\ ret = "none" /\ moved = 0 /\ total = 0 /\ done = 0
      /\ upset = {}
  BY DEF Init
<1>5. /\ sync_ptr \in BOOLEAN /\ running \in BOOLEAN /\ prepared \in BOOLEAN
      /\ wait_for_avail_min \in BOOLEAN /\ unmapped \in BOOLEAN /\ dead \in BOOLEAN
      /\ cut \in BOOLEAN /\ garbled \in BOOLEAN /\ refused \in BOOLEAN
  BY DEF Init
<1>6. TypeOK BY <1>1, <1>3, <1>4, <1>5 DEF TypeOK
<1> QED BY <1>1, <1>6 DEF Init, CallInv, HandleInv, NoLeak, Sizes, Calls, WithRing, Plain, Counted, Returned

LEMMA CallStep == CallInv /\ [Next]_vars => CallInv'
<1> SUFFICES ASSUME CallInv, [Next]_vars PROVE CallInv'
  OBVIOUS
<1>1. CASE Next
  <2>1. TypeOK' BY <1>1, ClientTypes, LibraryTypes, KernelTypes DEF Next
  <2> QED BY <1>1, <2>1, SizesStep, CallsStep, CountedStep DEF CallInv
<1>2. CASE UNCHANGED vars
  BY <1>2 DEF vars, opened, flags, pointers, faults, call, stream, CallInv, TypeOK, Cell, Sizes, Calls, Counted, PCM_MMAP, PCM_IN
<1> QED BY <1>1, <1>2

\* What a call has transferred when it returns.
LEMMA ReturnedStep ==
    ASSUME CallInv, Returned, ThresholdInRing, Next
    PROVE  Returned'
<1>0. TypeOK /\ Calls BY DEF CallInv
<1>a. Returned OBVIOUS
<1>1. CASE pcm_open
  BY <1>0, <1>1, <1>a DEF pcm_open, Calls, PCM_MMAP, flags, faults, call, Returned
<1>2. ASSUME NEW step \in Step, pcm_open_fails(step) PROVE Returned'
  BY <1>0, <1>2, <1>a DEF pcm_open_fails, Calls, PCM_MMAP, flags, faults, call, Returned
<1>3. CASE pcm_close
  BY <1>0, <1>3, <1>a DEF pcm_close, Calls, PCM_MMAP, faults, Returned
<1>4. CASE pcm_prepare
  <2>1. ~prepared /\ UNCHANGED <<running, setting, pc, ret, moved, count, dead>>
    BY <1>4 DEF pcm_prepare, opened, faults, call
  <2>2. ~running BY <1>0, <2>1 DEF Calls
  <2> QED BY <1>a, <2>1, <2>2 DEF PCM_MMAP, Returned
<1>5. CASE pcm_stop
  BY <1>0, <1>5, <1>a DEF pcm_stop, Stopped, PCM_MMAP, opened, Returned
<1>6. CASE Rejected \/ pcm_get_htimestamp \/ pcm_state
  BY <1>0, <1>6, <1>a DEF Rejected, pcm_get_htimestamp, pcm_state, Calls, PCM_MMAP, opened, flags, faults, call, Returned
<1>7. ASSUME NEW n \in Counts, pcm_write(n) \/ pcm_read(n) \/ pcm_mmap_call(n) PROVE Returned'
  BY <1>0, <1>7, <1>a DEF pcm_write, pcm_read, pcm_mmap_call, Call, PCM_MMAP, opened, flags, faults, Returned
<1>8. ASSUME NEW n \in Counts, pcm_set_avail_min(Smaller(n, buffer_size)) PROVE Returned'
  BY <1>0, <1>8, <1>a DEF pcm_set_avail_min, PCM_MMAP, opened, flags, faults, call, Returned
<1>9. CASE Restart
  <2>1. pc \in {"write", "read"} /\ ~running
        /\ UNCHANGED <<setting, running, moved, count>>
    BY <1>9 DEF Restart, opened, faults
  <2>2. moved = 0 BY <1>0, <2>1 DEF Calls, Plain
  <2>3. pc' = "idle" => ret' = "error" BY <1>9 DEF Restart, PrepareThen, Return
  <2> QED BY <1>a, <2>1, <2>2, <2>3 DEF PCM_MMAP, Returned
<1>10. CASE pcm_start
  <2>1. pc = "start" /\ UNCHANGED <<setting, moved, count>> BY <1>10 DEF pcm_start, opened, faults
  <2>2. moved = 0 /\ ~running BY <1>0, <2>1 DEF Calls, Plain
  <2>3. pc' = "idle" => ret' = "error" BY <1>10 DEF pcm_start, Return
  <2>4. running' = running \/ state' = "running" BY <1>10 DEF pcm_start
  <2> QED BY <1>a, <2>1, <2>2, <2>3, <2>4 DEF PCM_MMAP, Returned
<1>11. ASSUME Moves, count \in Nat, moved = 0
       PROVE  \/ moved' = count
              \/ /\ moved' \in 1..(count - 1)
                 /\ cut' \/ dead' \/ state' \in {"xrun", "suspended"}
  BY <1>11 DEF Moves, faults
<1>12. CASE Initial
  <2>1. pc = "initial" /\ UNCHANGED <<setting, count>> BY <1>12 DEF Initial, opened
  <2>2. moved = 0 /\ ~running /\ ~PCM_MMAP /\ count \in Nat BY <1>0, <2>1 DEF Calls, Plain, TypeOK
  <2>3. CASE pc' = "idle" /\ ret' \in {"error", "EINTR"} /\ UNCHANGED moved
    BY <2>2, <2>3 DEF Returned
  <2>4. CASE running' = TRUE /\ Moves /\ Return("ok")
    <3>1. \/ moved' = count
          \/ /\ moved' \in 1..(count - 1)
             /\ cut' \/ dead' \/ state' \in {"xrun", "suspended"}
      BY <1>11, <2>2, <2>4
    <3>2. ret' = "ok" /\ running' BY <2>4 DEF Return
    <3> QED BY <2>1, <2>2, <3>1, <3>2 DEF PCM_MMAP, Returned
  <2> QED BY <1>12, <2>3, <2>4 DEF Initial, Signal, Return
<1>13. CASE Transfer
  <2>1. pc \in {"write", "read"} /\ running /\ UNCHANGED <<setting, count>> BY <1>13 DEF Transfer, opened
  <2>2. moved = 0 /\ ~PCM_MMAP /\ count \in Nat BY <1>0, <2>1 DEF Calls, Plain, TypeOK
  <2>3. CASE pc' = "idle" /\ ret' \in {"error", "EINTR"} /\ UNCHANGED moved
    BY <2>2, <2>3 DEF Returned
  <2>4. CASE Lost /\ UNCHANGED moved
    <3>1. pc' = "idle" => ret' = "EPIPE" BY <2>1, <2>4 DEF Lost, Return
    <3> QED BY <2>2, <2>4, <3>1 DEF Returned
  <2>5. CASE Moves /\ Return("ok") /\ UNCHANGED flags
    <3>1. \/ moved' = count
          \/ /\ moved' \in 1..(count - 1)
             /\ cut' \/ dead' \/ state' \in {"xrun", "suspended"}
      BY <1>11, <2>2, <2>5
    <3>2. ret' = "ok" /\ running' BY <2>1, <2>5 DEF Return, flags
    <3> QED BY <2>1, <2>2, <3>1, <3>2 DEF PCM_MMAP, Returned
  <2> QED BY <1>13, <2>3, <2>4, <2>5 DEF Transfer, Signal, Return
<1>14. CASE TransferLoop
  <2>1. /\ pc = "transfer" /\ UNCHANGED <<setting, count, moved>>
        /\ StartFails \/ StartRefused \/ GoesOn
    BY <1>0, <1>14, LoopKinds DEF opened, faults
  <2>2. PCM_MMAP /\ count > 0 /\ moved = 0 /\ handle = "ready" BY <1>0, <2>1 DEF Calls, WithRing
  <2>3. PCM_MMAP' BY <2>1, <2>2 DEF PCM_MMAP
  <2>4. ~(pc' = "idle" /\ ret' = "ok")
    <3> SUFFICES ASSUME pc' = "idle", ret' = "ok" PROVE FALSE
      OBVIOUS
    <3>0. GoesOn BY <2>1 DEF StartFails, StartRefused
    <3>1. /\ size' = 0 /\ size' = Smaller(count, pcm_mmap_avail)
          /\ running' /\ count > pcm_mmap_avail => pcm_mmap_avail >= avail_min
      BY <3>0 DEF GoesOn
    <3>7. (Starts /\ running') \/ (~Starts /\ running' = running) BY <3>0 DEF GoesOn
    <3>2. pcm_mmap_avail \in Nat /\ count \in Nat /\ avail_min \in Nat /\ avail_min > 0 /\ buffer_size \in Nat
      BY <1>0, <2>2, AvailNatural DEF TypeOK, CallInv, Sizes
    <3>3. pcm_mmap_avail = 0 BY <2>2, <3>1, <3>2 DEF Smaller
    <3>4. ~running' BY <2>2, <3>1, <3>2, <3>3
    <3>5. start_threshold <= buffer_size BY <2>2, Threshold
    <3>6. Starts \/ running BY <3>2, <3>3, <3>5 DEF Starts
    <3> QED BY <3>4, <3>6, <3>7
  <2> QED BY <1>a, <2>1, <2>2, <2>3, <2>4 DEF Returned
<1>15. CASE pcm_wait
  <2>1. pc = "wait" /\ UNCHANGED <<setting, moved>> BY <1>15 DEF pcm_wait, opened
  <2>2. PCM_MMAP /\ moved = 0 BY <1>0, <2>1 DEF Calls, WithRing
  <2>3. pc' = "idle" => ret' \notin {"ok", "none"} BY <1>15 DEF pcm_wait, GiveUp, Return
  <2> QED BY <1>a, <2>1, <2>2, <2>3 DEF PCM_MMAP, Returned
<1>16. CASE pcm_mmap_begin
  <2>1. pc = "begin" /\ pc' = "commit" /\ UNCHANGED setting BY <1>16 DEF pcm_mmap_begin, opened, faults
  <2>2. PCM_MMAP BY <1>0, <2>1 DEF Calls, WithRing
  <2> QED BY <1>a, <2>1, <2>2 DEF PCM_MMAP, Returned
<1>17. CASE pcm_mmap_commit
  <2>1. /\ pc = "commit" /\ size' = size - frames /\ count' = count - frames
        /\ pc' = "idle" => ~(size' > 0) /\ ~(count' > 0) /\ ret' = "ok"
        /\ UNCHANGED setting
    BY <1>17 DEF pcm_mmap_commit, Return, opened, faults
  <2>2. size \in 1..count /\ frames <= size /\ frames \in Nat /\ count \in Nat /\ PCM_MMAP
    BY <1>0, <2>1 DEF Calls, TypeOK, WithRing
  <2>3. pc' = "idle" => count' = 0 BY <2>1, <2>2
  <2>4. PCM_MMAP' BY <2>1, <2>2 DEF PCM_MMAP
  <2> QED BY <1>a, <2>1, <2>2, <2>3, <2>4 DEF Returned
<1>18. CASE Play \/ Capture
  BY <1>18, <1>a DEF Play, Capture, opened, flags, faults, call, PCM_MMAP, Returned
<1>19. CASE Xrun
  <2>1. state = "running" /\ state' = "xrun"
        /\ UNCHANGED <<setting, running, call, dead>>
    BY <1>19 DEF Xrun, opened, flags
  <2> QED BY <1>a, <2>1 DEF PCM_MMAP, call, Returned
<1>20. CASE Suspend \/ Die
  BY <1>20, <1>a DEF Suspend, Die, opened, flags, call, PCM_MMAP, Returned
<1> QED BY <1>1, <1>2, <1>3, <1>4, <1>5, <1>6, <1>7, <1>8, <1>9, <1>10, <1>12, <1>13, <1>14,
           <1>15, <1>16, <1>17, <1>18, <1>19, <1>20 DEF Next, Client, Library

-----------------------------------------------------------------------------
(* What the library knows of the stream, step by step.                     *)

LEMMA ClientStream ==
    ASSUME CallInv, StreamInv, Client, Clean, Clean'
    PROVE  StreamInv'
<1>0. /\ TypeOK /\ Calls /\ Flags /\ Pointers /\ ~refused
      /\ handle = "none" => boundary = 0
  BY DEF CallInv, StreamInv, Sizes
<1> USE DEF StreamInv, Flags, Pointers, Handled
<1>1. CASE pcm_open
  <2>1. appl_ptr = 0 /\ state = "setup" /\ ~running /\ ~prepared
    BY <1>0, <1>1 DEF pcm_open, Calls, TypeOK
  <2>2. UNCHANGED <<setting, flags, pointers, state, faults, call, refused>> BY <1>1 DEF pcm_open
  <2> QED BY <1>0, <2>1, <2>2 DEF flags, pointers, faults, call
<1>2. ASSUME NEW step \in Step, pcm_open_fails(step) PROVE StreamInv'
  BY <1>0, <1>2 DEF pcm_open_fails, flags, pointers, faults, call, Calls
<1>3. CASE pcm_close
  BY <1>0, <1>3 DEF pcm_close, faults
<1>4. CASE pcm_prepare
  <2>1. /\ handle = "ready" /\ pc = "idle" /\ ~prepared /\ ~dead
        /\ UNCHANGED <<opened, running, faults, call>>
    BY <1>4 DEF pcm_prepare, Ready
  <2>2. ~running /\ ~Busy BY <1>0, <2>1 DEF Calls, Busy
  <2>3. Prepare /\ UNCHANGED refused BY <1>4, <2>2 DEF pcm_prepare
  <2>4. buffer_size > 0 /\ buffer_size \in Nat BY <1>0, <2>1 DEF CallInv, Sizes, TypeOK
  <2>5. /\ prepared' /\ state' = "prepared" /\ hw_ptr' = 0 /\ k_appl_ptr' = 0
        /\ appl_ptr' = IF sync_ptr THEN appl_ptr ELSE 0
        /\ UNCHANGED <<setting, handle, buffer_size, running, dead, pc, refused>>
    BY <2>1, <2>3 DEF Prepare, opened, faults, call
  <2>6. PCM_MMAP => appl_ptr' = 0 BY <1>0, <2>1, <2>5
  <2>7. PCM_MMAP' => PCM_MMAP BY <2>5 DEF PCM_MMAP
  <2>8. Flags' BY <2>2, <2>5
  <2>9. Pointers' BY <2>1, <2>4, <2>5, <2>6, <2>7
  <2>10. ~refused' BY <1>0, <2>5
  <2> QED BY <2>8, <2>9, <2>10
<1>5. CASE pcm_stop
  <2>1. /\ state' = "setup" /\ ~running' /\ ~prepared' /\ ~dead /\ ~dead' /\ UNCHANGED <<opened, pointers, refused>>
        /\ ~(sync_ptr /\ PCM_MMAP)
    BY <1>5 DEF pcm_stop, Stopped, Clean
  <2> QED BY <1>0, <2>1 DEF opened, pointers, PCM_MMAP
<1>6. CASE Rejected
  BY <1>0, <1>6 DEF Rejected, opened, flags, pointers, faults, PCM_MMAP, PCM_IN
<1>7. CASE pcm_get_htimestamp
  <2>1. /\ appl_ptr' = k_appl_ptr /\ handle = "ready" /\ pc = "idle" /\ PCM_MMAP
        /\ running \/ k_appl_ptr = appl_ptr
        /\ UNCHANGED <<opened, flags, k_appl_ptr, hw_ptr, state, faults, call, refused>>
    BY <1>7 DEF pcm_get_htimestamp, PullApplPtr, Ready, Clean
  <2> QED BY <1>0, <2>1 DEF opened, flags, faults, call, PCM_MMAP, PCM_IN, Calls
<1>8. CASE pcm_state
  <2>1. /\ ~dead => k_appl_ptr' = appl_ptr
        /\ UNCHANGED <<opened, flags, appl_ptr, hw_ptr, state, faults, call, refused>>
    BY <1>8 DEF pcm_state, PushApplPtr
  <2> QED BY <1>0, <2>1 DEF opened, flags, faults, call, PCM_MMAP, PCM_IN
<1>9. ASSUME NEW n \in Counts, pcm_write(n) \/ pcm_read(n) \/ pcm_mmap_call(n) PROVE StreamInv'
  <2>1. /\ pc' \in {"write", "read", "transfer"}
        /\ UNCHANGED <<opened, flags, pointers, state, faults, refused>>
    BY <1>9 DEF pcm_write, pcm_read, pcm_mmap_call, Call
  <2> QED BY <1>0, <2>1 DEF opened, flags, pointers, faults, PCM_MMAP, PCM_IN
<1>10. ASSUME NEW n \in Counts, pcm_set_avail_min(Smaller(n, buffer_size)) PROVE StreamInv'
  BY <1>0, <1>10 DEF pcm_set_avail_min, opened, flags, pointers, faults, call, PCM_MMAP, PCM_IN
<1> QED BY <1>1, <1>2, <1>3, <1>4, <1>5, <1>6, <1>7, <1>8, <1>9, <1>10 DEF Client

LEMMA LibraryStream ==
    ASSUME CallInv, StreamInv, RingOfTwo, Library, Clean, Clean'
    PROVE  StreamInv'
<1>0. TypeOK /\ Calls /\ Flags /\ Pointers /\ ~refused
  BY DEF CallInv, StreamInv
<1> USE DEF StreamInv, Flags, Pointers, Handled
<1>1. CASE Restart
  <2>1. /\ pc \in Plain /\ ~running /\ UNCHANGED <<opened, running, faults>>
        /\ \E next : PrepareThen(next)
    BY <1>1 DEF Restart, Plain
  <2>2. ~PCM_MMAP /\ ~PCM_MMAP' BY <1>0, <2>1 DEF Calls, PCM_MMAP, opened
  <2>3. ~dead => ~Busy BY <1>0 DEF Busy
  <2>4. CASE Prepare /\ UNCHANGED refused
    BY <1>0, <2>1, <2>2, <2>4 DEF Prepare, faults
  <2>5. CASE dead /\ UNCHANGED <<prepared, state, pointers>> /\ refused' = (refused \/ ~dead)
    BY <1>0, <2>1, <2>2, <2>5 DEF pointers, faults
  <2>6. CASE UNCHANGED <<prepared, state, pointers, refused>>
    BY <1>0, <2>1, <2>2, <2>6 DEF pointers, faults
  <2> QED BY <2>1, <2>3, <2>4, <2>5, <2>6 DEF PrepareThen
<1>2. CASE pcm_start
  <2>1. pc = "start" /\ UNCHANGED <<opened, prepared, pointers, dead>> BY <1>2 DEF pcm_start, faults
  <2>2. ~PCM_MMAP /\ prepared /\ ~running BY <1>0, <2>1 DEF Calls, Plain
  <2>3. ~dead => state = "prepared" BY <1>0, <2>2
  <2>4. ~PCM_MMAP' BY <2>1, <2>2 DEF opened, PCM_MMAP
  <2>5. CASE dead /\ refused' = (refused \/ ~dead) /\ UNCHANGED <<running, state>>
    BY <1>0, <2>1, <2>2, <2>4, <2>5
  <2>6. CASE state' = "running" /\ running' = TRUE /\ UNCHANGED refused
    BY <1>0, <2>4, <2>6
  <2> QED BY <1>2, <2>3, <2>5, <2>6 DEF pcm_start
<1>3. CASE Initial
  <2>1. pc = "initial" /\ UNCHANGED <<opened, prepared, pointers>> BY <1>3 DEF Initial
  <2>2. ~PCM_MMAP /\ prepared /\ ~running BY <1>0, <2>1 DEF Calls, Plain
  <2>3. ~dead => state = "prepared" BY <1>0, <2>2
  <2>4. CASE dead /\ refused' = (refused \/ ~dead) /\ UNCHANGED <<running, state, dead>>
    BY <1>0, <2>1, <2>2, <2>4 DEF opened, pointers, PCM_MMAP
  <2>5. CASE ~dead /\ running' = TRUE /\ Moves /\ UNCHANGED refused
    <3>1. state' \in {"prepared", "running", "xrun", "suspended"} BY <2>2, <2>3, <2>5 DEF Moves
    <3> QED BY <1>0, <2>1, <2>2, <2>5, <3>1 DEF opened, PCM_MMAP
  <2>6. CASE UNCHANGED <<running, state, dead, refused>>
    BY <1>0, <2>1, <2>2, <2>6 DEF opened, pointers, PCM_MMAP
  <2> QED BY <1>3, <2>3, <2>4, <2>5, <2>6 DEF Initial, Signal, faults
<1>4. CASE Transfer
  <2>1. pc \in Plain /\ running /\ UNCHANGED <<opened, pointers>> BY <1>4 DEF Transfer, Plain
  <2>2. ~PCM_MMAP BY <1>0, <2>1 DEF Calls
  <2>3. CASE /\ dead \/ state \in {"setup", "suspended"}
             /\ Stopped /\ refused' = (refused \/ (~dead /\ state = "setup"))
             /\ UNCHANGED <<state, dead>>
    BY <1>0, <2>1, <2>2, <2>3 DEF Stopped, opened, pointers, PCM_MMAP
  <2>4. CASE state = "xrun" /\ Stopped /\ UNCHANGED <<state, dead, refused>>
    BY <1>0, <2>1, <2>2, <2>4 DEF Stopped, opened, pointers, PCM_MMAP
  <2>5. CASE state \in {"prepared", "running"} /\ Moves /\ UNCHANGED <<flags, refused>>
    <3>1. state' \in {"prepared", "running", "xrun", "suspended"} BY <2>5 DEF Moves
    <3> QED BY <1>0, <2>1, <2>2, <2>5, <3>1 DEF flags, opened, PCM_MMAP
  <2>6. ~("interrupted" \in upset') BY DEF Clean
  <2> QED BY <1>4, <2>3, <2>4, <2>5, <2>6 DEF Transfer, faults
<1>5. CASE TransferLoop
  <2>1. /\ pc = "transfer" /\ UNCHANGED <<opened, dead>>
        /\ prepared \/ (PCM_IN /\ Starts /\ pcm_mmap_avail = 0)
        /\ StartFails \/ StartRefused \/ GoesOn
    BY <1>0, <1>5, LoopKinds DEF faults, Clean
  <2>2. PCM_MMAP /\ handle = "ready" BY <1>0, <2>1 DEF Calls, WithRing
  <2>3. ~dead => ~Busy BY <1>0 DEF Busy
  <2>4. Starts /\ ~dead /\ PrepareRing =>
            CanStart /\ ~running /\ prepared' /\ k_appl_ptr' = appl_ptr'
    <3> SUFFICES ASSUME Starts, ~dead, PrepareRing
                 PROVE  CanStart /\ ~running /\ prepared' /\ k_appl_ptr' = appl_ptr'
      OBVIOUS
    <3>1. CASE ~prepared
      <4>1. prepared' /\ k_appl_ptr' = appl_ptr' /\ PCM_IN BY <2>1, <3>1 DEF PrepareRing
      <4> QED BY <3>1, <4>1 DEF CanStart, Starts
    <3>2. CASE prepared
      <4>1. /\ UNCHANGED <<prepared, appl_ptr, hw_ptr>> /\ k_appl_ptr' = appl_ptr
        BY <3>2 DEF PrepareRing, PushApplPtr
      <4>2. ~running /\ state = "prepared" /\ hw_ptr = 0 BY <1>0, <3>2 DEF Starts
      <4>3. PCM_IN => CanStart BY <4>2 DEF CanStart
      <4>4. ASSUME ~PCM_IN PROVE CanStart
        <5>1. appl_ptr <= buffer_size BY <1>0, <2>2, <3>2, <4>2, <4>4
        <5>2. buffer_size \in Nat /\ boundary \in Nat /\ appl_ptr \in Nat /\ start_threshold \in Nat
              /\ buffer_size > 0 /\ 2 * buffer_size <= boundary
          BY <1>0, <2>2 DEF TypeOK, CallInv, Sizes
        <5>3. pcm_mmap_avail = buffer_size - appl_ptr
          BY <4>2, <4>4, <5>1, <5>2 DEF pcm_mmap_avail, pcm_mmap_playback_avail
        <5>4. start_threshold > 0 BY <2>2, Threshold
        <5>5. appl_ptr > 0 BY <5>1, <5>2, <5>3, <5>4 DEF Starts
        <5>6. appl_ptr % boundary = appl_ptr BY <5>1, <5>2
        <5>7. appl_ptr' % boundary # hw_ptr' BY <4>1, <4>2, <5>2, <5>5, <5>6
        <5> QED BY <4>2, <5>7 DEF CanStart
      <4> QED BY <3>2, <4>1, <4>2, <4>3, <4>4
    <3> QED BY <3>1, <3>2
  <2>5. CASE StartFails
    BY <1>0, <2>1, <2>2, <2>3, <2>5 DEF StartFails, PushApplPtr, opened, PCM_MMAP, PCM_IN
  <2>6. CASE StartRefused BY <2>4, <2>6 DEF StartRefused
  <2>7. CASE GoesOn
    <3>1. CASE Starts
      BY <1>0, <2>1, <2>2, <2>4, <2>7, <3>1 DEF GoesOn, opened, PCM_MMAP, PCM_IN
    <3>2. CASE ~Starts
      BY <1>0, <2>1, <2>2, <2>7, <3>2 DEF GoesOn, PushApplPtr, opened, PCM_MMAP, PCM_IN
    <3> QED BY <3>1, <3>2
  <2> QED BY <2>1, <2>5, <2>6, <2>7
<1>6. CASE pcm_wait
  <2>1. pc = "wait" /\ UNCHANGED <<opened, hw_ptr, state, dead, refused>> BY <1>6 DEF pcm_wait
  <2>2. \/ pc' = "transfer" /\ UNCHANGED <<flags, appl_ptr, k_appl_ptr>>
        \/ /\ dead \/ state \in {"xrun", "suspended"}
           /\ ~running' /\ ~prepared' /\ appl_ptr' = 0
    BY <1>6 DEF pcm_wait, GiveUp, Stopped, Return, Clean
  <2> QED BY <1>0, <2>1, <2>2 DEF opened, flags, PCM_MMAP, PCM_IN
<1>7. CASE pcm_mmap_begin
  <2>1. /\ pc = "begin" /\ (~dead => k_appl_ptr' = appl_ptr)
        /\ UNCHANGED <<opened, flags, appl_ptr, hw_ptr, state, faults, refused>>
    BY <1>7 DEF pcm_mmap_begin, PushApplPtr
  <2>2. frames' <= pcm_mmap_avail BY <1>7, BeginBounds
  <2>3. ~dead /\ prepared /\ ~running /\ ~PCM_IN /\ PCM_MMAP /\ handle = "ready" => frames' <= buffer_size - appl_ptr
    <3> SUFFICES ASSUME ~dead, prepared, ~running, ~PCM_IN, PCM_MMAP, handle = "ready"
                 PROVE  frames' <= buffer_size - appl_ptr
      OBVIOUS
    <3>1. hw_ptr = 0 /\ appl_ptr <= buffer_size BY <1>0
    <3>2. buffer_size \in Nat /\ boundary \in Nat /\ appl_ptr \in Nat
          /\ buffer_size > 0 /\ 2 * buffer_size <= boundary
      BY <1>0 DEF TypeOK, CallInv, Sizes
    <3>3. pcm_mmap_avail = buffer_size - appl_ptr
      BY <3>1, <3>2 DEF pcm_mmap_avail, pcm_mmap_playback_avail
    <3> QED BY <2>2, <3>3
  <2> QED BY <1>0, <2>1, <2>3 DEF opened, flags, faults, PCM_MMAP, PCM_IN
<1>8. CASE pcm_mmap_commit
  <2>1. /\ pc = "commit" /\ pc' # "commit" /\ appl_ptr' = pcm_mmap_appl_forward(frames)
        /\ ~dead => k_appl_ptr' = appl_ptr'
        /\ UNCHANGED <<opened, flags, hw_ptr, state, faults, refused>>
    BY <1>8 DEF pcm_mmap_commit, PushApplPtr, Return
  <2>2. prepared BY <1>0, <2>1 DEF Calls, Clean
  <2>3. ~dead /\ ~running /\ ~PCM_IN /\ PCM_MMAP /\ handle = "ready" => appl_ptr' <= buffer_size
    <3> SUFFICES ASSUME ~dead, ~running, ~PCM_IN, PCM_MMAP, handle = "ready" PROVE appl_ptr' <= buffer_size
      OBVIOUS
    <3>1. frames <= buffer_size - appl_ptr BY <1>0, <2>1, <2>2
    <3>2. buffer_size \in Nat /\ boundary \in Nat /\ appl_ptr \in Nat /\ frames \in Nat
          /\ 2 * buffer_size <= boundary
      BY <1>0 DEF TypeOK, CallInv, Sizes
    <3> QED BY <2>1, <3>1, <3>2 DEF pcm_mmap_appl_forward
  <2> QED BY <1>0, <2>1, <2>2, <2>3 DEF opened, flags, faults, PCM_MMAP, PCM_IN
<1> QED BY <1>1, <1>2, <1>3, <1>4, <1>5, <1>6, <1>7, <1>8 DEF Library

LEMMA KernelStream ==
    ASSUME CallInv, StreamInv, Play \/ Capture \/ Xrun \/ Suspend \/ Die, Clean, Clean'
    PROVE  StreamInv'
<1>0. TypeOK /\ Calls /\ Flags /\ Pointers /\ ~refused
  BY DEF CallInv, StreamInv
<1> USE DEF StreamInv, Flags, Pointers, Handled
<1>1. CASE Play \/ Capture \/ Xrun
  <2>1. /\ state = "running" /\ state' \in {"running", "xrun"}
        /\ UNCHANGED <<opened, flags, appl_ptr, k_appl_ptr, dead, call, refused>>
    BY <1>1 DEF Play, Capture, Xrun, faults, pointers
  <2> QED BY <1>0, <2>1 DEF opened, flags, call, PCM_MMAP, PCM_IN
<1>2. CASE Suspend
  <2>1. /\ state' = "suspended" /\ ~(prepared /\ ~running) /\ ~dead
        /\ UNCHANGED <<opened, flags, pointers, dead, call, refused>>
    BY <1>2 DEF Suspend, Clean
  <2> QED BY <1>0, <2>1 DEF opened, flags, pointers, call, PCM_MMAP, PCM_IN
<1>3. CASE Die
  BY <1>0, <1>3 DEF Die
<1> QED BY <1>1, <1>2, <1>3

-----------------------------------------------------------------------------
(* The theorems about a handle, its calls and its flags.                   *)

LEMMA HandleKept == HandleInv /\ [Next]_vars => HandleInv'
<1>1. ASSUME HandleInv, UNCHANGED vars PROVE HandleInv'
  BY <1>1 DEF vars, opened, HandleInv, NoLeak, PCM_MMAP
<1> QED BY <1>1, HandleStep

\* A handle that could not be opened, or is closed, holds nothing but what NoLeak
\* says, for all flags and at every step that may fail.
THEOREM NothingLeaks == Spec => []NoLeak
<1>1. HandleInv => NoLeak BY DEF HandleInv
<1> QED BY <1>1, CallInit, HandleKept, PTL DEF Spec

\* The types, the sizes pcm_open sets, where calls are, and the xruns counted, for
\* all handles and devices.
THEOREM PcmCalls == Spec => []CallInv
BY CallInit, CallStep, PTL DEF Spec

\* A pcm_read or pcm_write that returns 0 has transferred all its frames once; or only
\* a part of them, when an xrun, a suspend, the device's failure or a signal cut the
\* ioctl short, of which the library does not look at the result.  One that returns
\* an error has transferred none; a transfer through a ring that returns 0 is
\* complete.  That holds for all numbers of frames and of restarts, as long as the
\* threshold at which a ring is started can be reached.
THEOREM Transferred ==
    ASSUME ThresholdInRing
    PROVE  Spec => []TransferredOnce
<1>1. CallInv /\ Returned /\ [Next]_vars => Returned'
  <2>1. ASSUME Returned, UNCHANGED vars PROVE Returned'
    BY <2>1 DEF vars, opened, flags, faults, call, Returned, PCM_MMAP
  <2> QED BY <2>1, ReturnedStep
<1>2. CallInv /\ Returned => TransferredOnce
  BY DEF CallInv, Counted, Returned, TransferredOnce
<1> QED BY <1>1, <1>2, CallInit, PcmCalls, PTL DEF Spec

LEMMA StreamInit == Init => StreamInv
BY DEF Init, StreamInv, Flags, Pointers, Handled, Clean

LEMMA StreamStep ==
    ASSUME RingOfTwo
    PROVE  CallInv /\ StreamInv /\ [Next]_vars => StreamInv'
<1>1. ASSUME CallInv, StreamInv, Next PROVE StreamInv'
  <2>1. upset \subseteq upset' BY <1>1, UpsetGrows
  <2>2. CASE Clean'
    <3>1. Clean BY <2>1, <2>2 DEF Clean
    <3> QED BY <1>1, <2>2, <3>1, ClientStream, LibraryStream, KernelStream DEF Next
  <2>3. CASE ~Clean' BY <2>3 DEF StreamInv, Flags, Pointers, Handled
  <2> QED BY <2>2, <2>3
<1>2. ASSUME StreamInv, UNCHANGED vars PROVE StreamInv'
  BY <1>2 DEF vars, opened, flags, pointers, faults, call, StreamInv, Flags, Pointers, Handled, Clean,
              PCM_MMAP, PCM_IN
<1> QED BY <1>1, <1>2

\* The library asks for nothing that the state of the stream forbids, for all sizes of
\* rings, of two frames at least, and all clients, until one of the four things happens
\* that NeverRefused names: a stop of a ring with a copy of appl_ptr, a suspend
\* between PREPARE and the start, a signal that ends an ioctl or a poll with an error,
\* the use of a ring that was not prepared.  The library handles none of the four.
THEOREM Unrefused ==
    ASSUME RingOfTwo
    PROVE  Spec => []NeverRefused
<1>1. StreamInv => NeverRefused BY DEF StreamInv, Clean, NeverRefused
<1> QED BY <1>1, StreamInit, StreamStep, PcmCalls, PTL DEF Spec
-----------------------------------------------------------------------------
(* The frames of a ring.                                                   *)

\* Quotient and remainder.
LEMMA ModIs ==
    ASSUME NEW b \in Nat \ {0}, NEW a \in Nat
    PROVE  \E k \in Nat, r \in 0..(b - 1) : a = b * k + r /\ r = a % b
<1>1. a \div b \in Nat /\ a = b * (a \div b) + (a % b) OBVIOUS
<1>2. a % b \in 0..(b - 1) OBVIOUS
<1> QED BY <1>1, <1>2

\* The remainder is the only one.
LEMMA ModUnique ==
    ASSUME NEW b \in Nat \ {0}, NEW k \in Nat, NEW r \in 0..(b - 1)
    PROVE  (b * k + r) % b = r
OBVIOUS

\* Whole rings do not count.
LEMMA ModMultiple ==
    ASSUME NEW b \in Nat \ {0}, NEW a \in Nat, NEW m \in Nat
    PROVE  (a + m * b) % b = a % b
<1>1. PICK k \in Nat, r \in 0..(b - 1) : a = b * k + r /\ r = a % b BY ModIs
<1>2. a + m * b = b * (k + m) + r BY <1>1
<1>3. (b * (k + m) + r) % b = r BY ModUnique
<1> QED BY <1>1, <1>2, <1>3

\* Cells that follow one another up to the end of the ring.
LEMMA ModSum ==
    ASSUME NEW b \in Nat \ {0}, NEW a \in Nat, NEW j \in 0..(b - 1 - (a % b))
    PROVE  (a + j) % b = (a % b) + j
<1>1. PICK k \in Nat, r \in 0..(b - 1) : a = b * k + r /\ r = a % b BY ModIs
<1>2. r + j \in 0..(b - 1)
  <2>1. j \in 0..(b - 1 - r) BY <1>1
  <2> QED BY <2>1
<1>3. a + j = b * k + (r + j) /\ a + j \in Nat BY <1>1
<1>4. (b * k + (r + j)) % b = r + j BY <1>2, ModUnique
<1> QED BY <1>1, <1>3, <1>4

\* Positions less than a ring apart have different cells.
LEMMA ModApart ==
    ASSUME NEW b \in Nat \ {0}, NEW a \in Nat, NEW k \in 1..(b - 1)
    PROVE  (a + k) % b # a % b
<1>1. PICK q \in Nat, r \in 0..(b - 1) : a = b * q + r /\ r = a % b BY ModIs
<1>2. a + k \in Nat OBVIOUS
<1>3. CASE r + k < b
  <2>1. r + k \in 0..(b - 1) BY <1>3
  <2>2. a + k = b * q + (r + k) BY <1>1
  <2>3. (b * q + (r + k)) % b = r + k BY <2>1, ModUnique
  <2> QED BY <1>1, <2>2, <2>3
<1>4. CASE r + k >= b
  <2>1. r + k - b \in 0..(b - 1) BY <1>4
  <2>2. b * (q + 1) = b * q + b BY <1>1
  <2>3. a + k = b * (q + 1) + (r + k - b) /\ q + 1 \in Nat BY <1>1, <2>2
  <2>4. (b * (q + 1) + (r + k - b)) % b = r + k - b BY <2>1, <2>3, ModUnique
  <2> QED BY <1>1, <2>3, <2>4
<1> QED BY <1>1, <1>3, <1>4

\* From the cell of position p on, r holds the frames from number first to number
\* end - 1.
Holds(b, r, p, first, end) ==
    \A j \in 0..(end - first - 1) : r[(p + j) % b] = first + j

\* Frames are taken out.
LEMMA TakeFrames ==
    ASSUME NEW b \in Nat \ {0}, NEW r, NEW p \in Nat, NEW first \in Nat, NEW end \in Nat,
           NEW n \in Nat, Holds(b, r, p, first, end)
    PROVE  Holds(b, r, p + n, first + n, end)
<1> SUFFICES ASSUME NEW j \in 0..(end - (first + n) - 1)
             PROVE  r[(p + n + j) % b] = first + n + j
  BY DEF Holds
<1>1. n + j \in 0..(end - first - 1) /\ p + n + j = p + (n + j) /\ first + n + j = first + (n + j)
  OBVIOUS
<1> QED BY <1>1 DEF Holds

\* A pointer that is ahead by whole rings points to the same cell.
LEMMA SameCells ==
    ASSUME NEW b \in Nat \ {0}, NEW r, NEW p \in Nat, NEW first \in Nat, NEW end \in Nat,
           NEW m \in Nat
    PROVE  Holds(b, r, p + m * b, first, end) <=> Holds(b, r, p, first, end)
<1>1. ASSUME NEW j \in 0..(end - first - 1)
      PROVE  (p + m * b + j) % b = (p + j) % b
  <2>1. p + j \in Nat /\ p + m * b + j = (p + j) + m * b OBVIOUS
  <2>2. ((p + j) + m * b) % b = (p + j) % b BY <2>1, ModMultiple
  <2> QED BY <2>1, <2>2
<1> QED BY <1>1 DEF Holds

\* n frames are put behind those of the ring, which has room for them, in the cells
\* from the one of position q on.
LEMMA PutFrames ==
    ASSUME NEW b \in Nat \ {0}, NEW r, NEW s, NEW p \in Nat, NEW first \in Nat, NEW end \in Nat,
           NEW n \in Nat, NEW q \in Nat,
           first <= end, end - first + n <= b, n <= b - (q % b),
           q % b = (p + (end - first)) % b,
           Holds(b, r, p, first, end),
           \A c \in 0..(b - 1) :
               s[c] = IF c - (q % b) \in 0..(n - 1) THEN end + (c - (q % b)) ELSE r[c]
    PROVE  Holds(b, s, p, first, end + n)
<1> DEFINE e == p + (end - first)
           z == q % b
<1>0. e \in Nat /\ z = e % b /\ n <= b - z /\ z \in 0..(b - 1) OBVIOUS
<1>00. first <= end /\ (end - first) + n <= b OBVIOUS
<1> SUFFICES ASSUME NEW j \in 0..((end + n) - first - 1)
             PROVE  s[(p + j) % b] = first + j
  BY DEF Holds
<1>1. \A i \in 0..(n - 1) : (e + i) % b = z + i
  <2> SUFFICES ASSUME NEW i \in 0..(n - 1) PROVE (e + i) % b = z + i
    OBVIOUS
  <2> HIDE DEF e, z
  <2>1. i \in 0..(b - 1 - (e % b)) BY <1>0
  <2>2. (e + i) % b = (e % b) + i BY <1>0, <2>1, ModSum
  <2> QED BY <1>0, <2>2
<1>2. (p + j) % b \in 0..(b - 1)
  <2>1. PICK x \in Nat : x = p + j OBVIOUS
  <2>2. x % b \in 0..(b - 1) OBVIOUS
  <2> QED BY <2>1, <2>2
<1>3. CASE j >= end - first
  <2> DEFINE i == j - (end - first)
  <2>1. i \in 0..(n - 1) /\ p + j = e + i /\ first + j = end + i BY <1>3
  <2>2. (p + j) % b = z + i BY <1>1, <2>1
  <2> HIDE DEF i, e, z
  <2>3. ((p + j) % b) - z = i BY <1>0, <2>1, <2>2
  <2> QED BY <1>2, <2>1, <2>3 DEF z
<1>4. CASE j < end - first
  <2>1. j \in 0..(end - first - 1) BY <1>4
  <2>2. ASSUME NEW i \in 0..(n - 1), (p + j) % b = z + i PROVE FALSE
    <3> DEFINE k == (end - first) - j + i
    <3>1. k \in 1..(b - 1) BY <1>00, <1>4
    <3>4. e + i = (p + j) + k OBVIOUS
    <3> HIDE DEF k
    <3>2. ((p + j) + k) % b # (p + j) % b
      <4>1. PICK x \in Nat : x = p + j OBVIOUS
      <4>2. (x + k) % b # x % b BY <3>1, ModApart
      <4> QED BY <4>1, <4>2
    <3>3. (e + i) % b = z + i BY <1>1
    <3> QED BY <2>2, <3>4, <3>2, <3>3
  <2>3. ((p + j) % b) - z \notin 0..(n - 1)
    <3> HIDE DEF z, e
    <3>1. (p + j) % b = z + (((p + j) % b) - z) BY <1>0, <1>2
    <3> QED BY <2>2, <3>1
  <2> QED BY <1>2, <2>1, <2>3 DEF Holds, z
<1> QED BY <1>3, <1>4
-----------------------------------------------------------------------------
(* The ring of a handle, while nothing has happened to it but a suspend,   *)
(* for streams that are played up to the boundary at most: past it, the    *)
(* library computes what is free of a full ring wrongly.                   *)

Disordered == upset \ {"suspended"} # {}

\* The boundary is a number of whole rings.
WholeRings == \E m \in Nat : boundary = m * buffer_size

\* What is in the ring of a stream that is played: the frames from hw_ptr to
\* appl_ptr.  There is room for those of a call, and for those being copied.
Playing ==
    /\ done <= total /\ total - done <= buffer_size
    /\ appl_ptr = hw_ptr + (total - done) /\ appl_ptr < boundary
    /\ Holds(buffer_size, ring, hw_ptr, done, total)
    /\ pc \in WithRing => appl_ptr + count < boundary
    /\ pc = "commit" => frames <= buffer_size - (total - done)

\* What is in the ring of a captured stream: the frames from appl_ptr to hw_ptr,
\* which may be past the boundary already.
Capturing ==
    /\ done <= total /\ total - done <= buffer_size
    /\ hw_ptr = appl_ptr + (total - done) \/ hw_ptr + boundary = appl_ptr + (total - done)
    /\ Holds(buffer_size, ring, appl_ptr, done, total)
    /\ pc = "commit" => frames <= total - done

RingKept ==
    /\ WholeRings /\ hw_ptr < boundary
    /\ state = "running" => running \/ dead
    /\ ~prepared /\ sync_ptr => appl_ptr = 0
    /\ prepared /\ ~dead => k_appl_ptr = appl_ptr
    /\ prepared => IF PCM_IN THEN Capturing ELSE Playing
    /\ pc = "commit" => frames <= buffer_size - (appl_ptr % buffer_size)

\* No wrong frame was taken out, and the ring of a handle is what the pointers say.
RingInv == Disordered \/ (~garbled /\ (PCM_MMAP /\ handle = "ready" => RingKept))

LEMMA RingSizes ==
    ASSUME CallInv, handle = "ready"
    PROVE  /\ buffer_size \in Nat \ {0} /\ boundary \in Nat \ {0} /\ 2 * buffer_size <= boundary
           /\ appl_ptr \in 0..boundary /\ k_appl_ptr \in 0..boundary /\ hw_ptr \in 0..boundary
           /\ total \in Nat /\ done \in Nat /\ count \in Nat /\ size \in Nat
           /\ frames \in 0..buffer_size /\ ring \in [0..(buffer_size - 1) -> Int]
BY DEF CallInv, TypeOK, Sizes, Cell

\* What the library and the kernel count as available is what is in the ring, or
\* what is free of it.
LEMMA RingCounted ==
    ASSUME CallInv, handle = "ready", prepared, RingKept
    PROVE  /\ pcm_mmap_avail = IF PCM_IN THEN total - done ELSE buffer_size - (total - done)
           /\ pcm_get_htimestamp_avail = pcm_mmap_avail
           /\ ~dead => Available = pcm_mmap_avail
<1> DEFINE n == total - done
<1>1. /\ buffer_size \in Nat \ {0} /\ boundary \in Nat \ {0} /\ 2 * buffer_size <= boundary
      /\ appl_ptr \in 0..boundary /\ hw_ptr \in 0..boundary
      /\ total \in Nat /\ done \in Nat
  BY RingSizes
<1>2. /\ hw_ptr < boundary /\ (~dead => k_appl_ptr = appl_ptr)
      /\ IF PCM_IN THEN Capturing ELSE Playing
  BY DEF RingKept
<1>3. \A b \in Nat \ {0} : \A x \in 0..(b - 1) : x % b = x /\ (x - b) % b = x OBVIOUS
<1>4. CASE PCM_IN
  <2>1. n \in 0..buffer_size /\ (hw_ptr - appl_ptr = n \/ hw_ptr - appl_ptr = n - boundary)
    BY <1>1, <1>2, <1>4 DEF Capturing
  <2> HIDE DEF n
  <2>2. pcm_mmap_avail = n /\ pcm_get_htimestamp_avail = n
    BY <1>1, <1>4, <2>1 DEF pcm_mmap_avail, pcm_mmap_capture_avail, pcm_get_htimestamp_avail
  <2>3. (hw_ptr - appl_ptr) % boundary = n
    <3>1. n \in 0..(boundary - 1) BY <1>1, <2>1
    <3>2. n % boundary = n /\ (n - boundary) % boundary = n BY <1>1, <1>3, <3>1
    <3> QED BY <2>1, <3>2
  <2>4. ~dead => Available = n BY <1>2, <1>4, <2>3 DEF Available
  <2> QED BY <1>4, <2>2, <2>4 DEF n
<1>5. CASE ~PCM_IN
  <2>1. n \in 0..buffer_size /\ appl_ptr = hw_ptr + n BY <1>1, <1>2, <1>5 DEF Playing
  <2> HIDE DEF n
  <2>2. pcm_mmap_avail = buffer_size - n /\ pcm_get_htimestamp_avail = buffer_size - n
    BY <1>1, <1>5, <2>1 DEF pcm_mmap_avail, pcm_mmap_playback_avail, pcm_get_htimestamp_avail
  <2>3. (appl_ptr - hw_ptr) % boundary = n
    <3>1. n \in 0..(boundary - 1) /\ appl_ptr - hw_ptr = n BY <1>1, <2>1
    <3> QED BY <1>1, <1>3, <3>1
  <2>4. ~dead => Available = buffer_size - n BY <1>2, <1>5, <2>3 DEF Available
  <2> QED BY <1>5, <2>2, <2>4 DEF n
<1> QED BY <1>4, <1>5

\* A step that moves no frame and no pointer, and copies no more than there is.
LEMMA RingStays ==
    ASSUME RingKept,
           UNCHANGED <<setting, buffer_size, boundary, sync_ptr, appl_ptr, hw_ptr, prepared, stream>>,
           prepared /\ ~dead' => k_appl_ptr' = appl_ptr,
           state' = "running" => running' \/ dead',
           prepared /\ ~PCM_IN /\ pc' \in WithRing => appl_ptr + count' < boundary,
           pc' = "commit" =>
               /\ frames' <= buffer_size - (appl_ptr % buffer_size)
               /\ prepared => frames' <= IF PCM_IN THEN total - done ELSE buffer_size - (total - done)
    PROVE  RingKept'
<1>1. WholeRings' BY DEF RingKept, WholeRings
<1>2. PCM_IN' <=> PCM_IN BY DEF PCM_IN
<1>3. prepared /\ PCM_IN => Capturing'
  BY DEF RingKept, Capturing, stream, Holds
<1>4. prepared /\ ~PCM_IN => Playing'
  BY DEF RingKept, Playing, stream, Holds, WithRing
<1> QED BY <1>1, <1>2, <1>3, <1>4 DEF RingKept

\* A step after which the frames in the ring do not count.
LEMMA RingDropped ==
    ASSUME RingKept, UNCHANGED <<buffer_size, boundary, sync_ptr, hw_ptr>>,
           ~prepared', sync_ptr => appl_ptr' = 0,
           state' = "running" => running' \/ dead', pc' = "idle"
    PROVE  RingKept'
BY DEF RingKept, WholeRings

LEMMA ClientRing ==
    ASSUME CallInv, RingInv, Client, ~Disordered, ~Disordered'
    PROVE  RingInv'
<1>0. ~garbled /\ (PCM_MMAP /\ handle = "ready" => RingKept) /\ TypeOK /\ Calls
  BY DEF RingInv, CallInv
<1> USE DEF RingInv
<1>1. CASE pcm_open
  <2>1. /\ handle = "none" /\ boundary' = Boundary(buffer_size')
        /\ UNCHANGED <<setting, prepared, appl_ptr, hw_ptr, state, pc, garbled>>
    BY <1>1 DEF pcm_open, flags, pointers, call
  <2>2. appl_ptr = 0 /\ hw_ptr = 0 /\ state = "setup" /\ ~prepared /\ pc = "idle"
    BY <1>0, <2>1 DEF CallInv, Calls, Sizes, TypeOK
  <2>3. buffer_size' \in Nat \ {0} /\ 3 * buffer_size' <= INT_MAX
    <3>1. PICK p \in Period : buffer_size' = setting.period_count * p BY <1>1 DEF pcm_open
    <3> QED BY <1>0, <3>1, RingFits DEF TypeOK
  <2>4. boundary' \in Nat \ {0} /\ WholeRings'
    <3>1. PICK b \in Nat \ {0} : b = buffer_size' BY <2>3
    <3>2. 3 * b <= INT_MAX BY <2>3, <3>1
    <3>3. /\ Boundary(b) \in Nat /\ 2 * b <= Boundary(b) /\ \E m \in Nat : Boundary(b) = m * b
      BY <3>2, BoundaryFits
    <3>4. Boundary(b) # 0 BY <3>3
    <3> QED BY <2>1, <3>1, <3>3, <3>4 DEF WholeRings
  <2>5. RingKept' BY <2>1, <2>2, <2>4 DEF RingKept
  <2> QED BY <1>0, <2>1, <2>5
<1>2. ASSUME NEW step \in Step, pcm_open_fails(step) PROVE RingInv'
  BY <1>0, <1>2 DEF pcm_open_fails, stream
<1>3. CASE pcm_close
  BY <1>0, <1>3 DEF pcm_close, stream
<1>4. CASE pcm_prepare
  <2>1. /\ handle = "ready" /\ pc = "idle" /\ ~prepared /\ ~dead
        /\ UNCHANGED <<setting, handle, sync_ptr, buffer_size, boundary, running, dead, pc, ring, total, garbled>>
    BY <1>4 DEF pcm_prepare, Ready, opened, faults, call
  <2>2. CASE ~PCM_MMAP BY <1>0, <2>1, <2>2 DEF PCM_MMAP
  <2>3. CASE PCM_MMAP
    <3>1. RingKept /\ ~Busy BY <1>0, <2>1, <2>3 DEF RingKept, Busy
    <3>2. Prepare BY <1>4, <3>1 DEF pcm_prepare
    <3>3. /\ prepared' /\ state' = "prepared" /\ done' = total /\ hw_ptr' = 0 /\ k_appl_ptr' = 0
          /\ appl_ptr' = 0
      BY <2>1, <3>1, <3>2 DEF Prepare, RingKept
    <3>4. /\ buffer_size \in Nat \ {0} /\ boundary \in Nat \ {0} /\ total \in Nat
      BY <2>1, RingSizes
    <3>5. Holds(buffer_size', ring', 0, done', total') BY <2>1, <3>3, <3>4 DEF Holds
    <3>6. Playing' BY <2>1, <3>3, <3>4, <3>5 DEF Playing, WithRing
    <3>7. Capturing' BY <2>1, <3>3, <3>4, <3>5 DEF Capturing
    <3>8. WholeRings' BY <2>1, <3>1 DEF RingKept, WholeRings
    <3>9. RingKept' BY <2>1, <3>3, <3>4, <3>6, <3>7, <3>8 DEF RingKept
    <3> QED BY <1>0, <2>1, <3>9
  <2> QED BY <2>2, <2>3
<1>5. CASE pcm_stop
  <2>1. /\ handle = "ready" /\ state' = "setup" /\ ~prepared' /\ pc' = "idle"
        /\ ~(sync_ptr /\ PCM_MMAP)
        /\ UNCHANGED <<setting, handle, sync_ptr, buffer_size, boundary, hw_ptr, garbled>>
    BY <1>5 DEF pcm_stop, Stopped, Ready, Disordered, opened, pointers, stream
  <2>2. PCM_MMAP => RingKept' BY <1>0, <2>1, RingDropped
  <2> QED BY <1>0, <2>1, <2>2 DEF PCM_MMAP
<1>6. CASE Rejected \/ pcm_get_htimestamp \/ pcm_state
           \/ (\E n \in Counts : pcm_set_avail_min(Smaller(n, buffer_size)))
  <2>1. /\ handle = "ready" /\ pc = "idle" /\ pc' = "idle"
        /\ UNCHANGED <<opened, flags, hw_ptr, state, faults, stream>>
        /\ \/ UNCHANGED <<appl_ptr, k_appl_ptr>>
           \/ PushApplPtr(appl_ptr) /\ UNCHANGED appl_ptr
           \/ ~dead /\ appl_ptr' = k_appl_ptr /\ UNCHANGED k_appl_ptr
              /\ (running \/ k_appl_ptr = appl_ptr)
    BY <1>6 DEF Rejected, pcm_get_htimestamp, pcm_state, pcm_set_avail_min, Ready, Disordered, PullApplPtr,
                pointers, call, faults
  <2>2. CASE PCM_MMAP
    <3>1. RingKept BY <1>0, <2>1, <2>2
    <3>2. UNCHANGED appl_ptr /\ (prepared /\ ~dead => k_appl_ptr' = appl_ptr)
      BY <1>0, <2>1, <3>1 DEF RingKept, Calls, PushApplPtr
    <3>3. state' = "running" => running' \/ dead' BY <2>1, <3>1 DEF RingKept, flags, faults
    <3>4. RingKept' BY <2>1, <3>1, <3>2, <3>3, RingStays DEF opened, flags, faults, WithRing
    <3> QED BY <1>0, <2>1, <3>4 DEF stream
  <2>3. CASE ~PCM_MMAP BY <1>0, <2>1, <2>3 DEF PCM_MMAP, opened, stream
  <2> QED BY <2>2, <2>3
<1>7. ASSUME NEW n \in Counts, pcm_write(n) \/ pcm_read(n) PROVE RingInv'
  BY <1>0, <1>7 DEF pcm_write, pcm_read, Call, opened, stream, PCM_MMAP
<1>8. ASSUME NEW n \in Counts, pcm_mmap_call(n) PROVE RingInv'
  <2>1. /\ handle = "ready" /\ PCM_MMAP /\ pc' = "transfer" /\ count' = n
        /\ UNCHANGED <<opened, flags, pointers, state, faults, stream>>
    BY <1>8 DEF pcm_mmap_call, Call, Ready
  <2>4. ~PCM_IN => appl_ptr + n < boundary
    <3>1. ~(~PCM_IN /\ appl_ptr + n >= boundary) BY <1>8 DEF pcm_mmap_call, Disordered
    <3>2. appl_ptr \in Nat /\ boundary \in Nat /\ n \in Nat BY <1>0, PcmAssumption DEF TypeOK
    <3> QED BY <3>1, <3>2
  <2>2. RingKept BY <1>0, <2>1
  <2>3. RingKept' BY <2>1, <2>2, <2>4, RingStays DEF RingKept, opened, flags, pointers, faults
  <2> QED BY <1>0, <2>1, <2>3 DEF stream
<1> QED BY <1>1, <1>2, <1>3, <1>4, <1>5, <1>6, <1>7, <1>8 DEF Client

\* The frames copied are in the ring then, or out of it, and the rest as it was.
LEMMA CommitRing ==
    ASSUME CallInv, handle = "ready", PCM_MMAP, prepared, RingKept, pcm_mmap_commit, ~garbled
    PROVE  RingKept' /\ ~garbled'
<1> DEFINE b == buffer_size
           n == total - done
           at(c) == c - (appl_ptr % b)
<1>1. /\ b \in Nat \ {0} /\ boundary \in Nat \ {0} /\ 2 * b <= boundary
      /\ appl_ptr \in 0..boundary /\ k_appl_ptr \in 0..boundary /\ hw_ptr \in 0..boundary
      /\ total \in Nat /\ done \in Nat /\ count \in Nat /\ size \in Nat
      /\ frames \in 0..b /\ ring \in [0..(b - 1) -> Int]
  BY RingSizes
<1>1a. appl_ptr \in Nat /\ hw_ptr \in Nat /\ frames \in Nat BY <1>1
<1>2. /\ pc = "commit" /\ pc' \in {"begin", "transfer", "idle"}
      /\ count' = count - frames /\ appl_ptr' = pcm_mmap_appl_forward(frames)
      /\ ~dead => k_appl_ptr' = appl_ptr'
      /\ UNCHANGED <<opened, flags, hw_ptr, state, dead>>
  BY DEF pcm_mmap_commit, PushApplPtr, Return, faults
<1>3. /\ prepared /\ frames <= count BY <1>1, <1>2 DEF CallInv, Calls, WithRing
<1>4. /\ frames <= b - (appl_ptr % b) /\ hw_ptr < boundary /\ WholeRings
      /\ state = "running" => running \/ dead
  BY <1>2 DEF RingKept
<1>5. CASE ~PCM_IN
  <2>1. Playing BY <1>3, <1>5 DEF RingKept
  <2>2. /\ done <= total /\ appl_ptr = hw_ptr + n /\ frames <= b - n
        /\ Holds(b, ring, hw_ptr, done, total) /\ appl_ptr + count < boundary
    BY <1>2, <2>1 DEF Playing, WithRing
  <2>3. appl_ptr' = appl_ptr + frames BY <1>1, <1>2, <1>3, <2>2 DEF pcm_mmap_appl_forward
  <2>4. /\ total' = total + frames
        /\ ring' = [c \in 0..(b - 1) |-> IF at(c) \in 0..(frames - 1) THEN total + at(c) ELSE ring[c]]
        /\ UNCHANGED <<done, garbled>>
    BY <1>5 DEF pcm_mmap_commit, Cell
  <2>5. Holds(b, ring', hw_ptr, done, total + frames)
    <3>1. appl_ptr % b = (hw_ptr + (total - done)) % b BY <2>2
    <3>2. total - done + frames <= b BY <1>1, <2>2
    <3>3. PICK x \in Nat \ {0}, p \in Nat, first \in Nat, end \in Nat, m \in Nat, q \in Nat :
            x = b /\ p = hw_ptr /\ first = done /\ end = total /\ m = frames /\ q = appl_ptr
      BY <1>1, <1>1a
    <3>4. /\ first <= end /\ end - first + m <= x /\ m <= x - (q % x)
          /\ q % x = (p + (end - first)) % x
      BY <1>4, <2>2, <3>1, <3>2, <3>3
    <3>5. Holds(x, ring, p, first, end) BY <2>2, <3>3
    <3>6. \A c \in 0..(x - 1) :
              ring'[c] = IF c - (q % x) \in 0..(m - 1) THEN end + (c - (q % x)) ELSE ring[c]
      BY <2>4, <3>3
    <3>7. Holds(x, ring', p, first, end + m) BY <3>4, <3>5, <3>6, PutFrames
    <3> QED BY <3>3, <3>7
  <2>6. Playing'
    <3>1. Holds(buffer_size', ring', hw_ptr', done', total') BY <1>2, <2>4, <2>5 DEF opened
    <3>2. done' <= total' /\ total' - done' <= buffer_size' BY <1>1, <1>2, <2>2, <2>4 DEF opened
    <3>3. appl_ptr' = hw_ptr' + (total' - done') BY <1>1, <1>2, <2>2, <2>3, <2>4
    <3>4. appl_ptr' < boundary' /\ appl_ptr' + count' < boundary'
      BY <1>1, <1>2, <1>3, <2>2, <2>3 DEF opened
    <3>5. pc' # "commit" BY <1>2
    <3> QED BY <3>1, <3>2, <3>3, <3>4, <3>5 DEF Playing
  <2> QED BY <1>2, <1>3, <1>4, <1>5, <2>4, <2>6 DEF RingKept, WholeRings, PCM_IN, opened, flags
<1>6. CASE PCM_IN
  <2>1. Capturing BY <1>3, <1>6 DEF RingKept
  <2>2. /\ done <= total /\ n <= b /\ frames <= n
        /\ hw_ptr = appl_ptr + n \/ hw_ptr + boundary = appl_ptr + n
        /\ Holds(b, ring, appl_ptr, done, total)
    BY <1>2, <2>1 DEF Capturing
  <2>3. /\ done' = done + frames
        /\ garbled' = (garbled \/ \E c \in 0..(b - 1) : at(c) \in 0..(frames - 1) /\ ring[c] # done + at(c))
        /\ UNCHANGED <<ring, total>>
    BY <1>6 DEF pcm_mmap_commit, Cell
  <2>4. ASSUME NEW c \in 0..(b - 1), at(c) \in 0..(frames - 1) PROVE ring[c] = done + at(c)
    <3>1. PICK i \in 0..(frames - 1) : i = at(c) BY <2>4
    <3>2. appl_ptr % b \in 0..(b - 1)
      <4>1. PICK r \in Nat, x \in Nat \ {0} : r = appl_ptr /\ x = b BY <1>1, <1>1a
      <4>2. r % x \in 0..(x - 1) OBVIOUS
      <4> QED BY <4>1, <4>2
    <3>3. c = (appl_ptr % b) + i BY <3>1, <3>2
    <3>4. i \in 0..(b - 1 - (appl_ptr % b)) BY <1>1, <1>4, <3>2
    <3>5. (appl_ptr + i) % b = c
      <4>1. PICK r \in Nat, x \in Nat \ {0} : r = appl_ptr /\ x = b BY <1>1, <1>1a
      <4>2. i \in 0..(x - 1 - (r % x)) BY <3>4, <4>1
      <4>3. (r + i) % x = (r % x) + i BY <4>2, ModSum
      <4> QED BY <3>3, <4>1, <4>3
    <3>6. i \in 0..(total - done - 1) BY <1>1, <2>2
    <3>7. ring[(appl_ptr + i) % b] = done + i BY <2>2, <3>6 DEF Holds
    <3> QED BY <3>1, <3>5, <3>7
  <2>5. ~garbled' BY <2>3, <2>4
  <2>6. Holds(b, ring, appl_ptr + frames, done + frames, total)
    BY <1>1, <1>1a, <2>2, TakeFrames
  <2>7. /\ hw_ptr = appl_ptr' + (total - done') \/ hw_ptr + boundary = appl_ptr' + (total - done')
        /\ Holds(b, ring, appl_ptr', done', total)
    <3>1. CASE appl_ptr + frames <= boundary
      <4>1. appl_ptr' = appl_ptr + frames BY <1>1, <1>2, <3>1 DEF pcm_mmap_appl_forward
      <4>2. hw_ptr = appl_ptr' + (total - done') \/ hw_ptr + boundary = appl_ptr' + (total - done')
        BY <1>1, <2>2, <2>3, <4>1
      <4> QED BY <2>3, <2>6, <4>1, <4>2
    <3>2. CASE appl_ptr + frames > boundary
      <4>1. appl_ptr' + boundary = appl_ptr + frames /\ appl_ptr' \in Nat
        BY <1>1, <1>2, <3>2 DEF pcm_mmap_appl_forward
      <4>2. hw_ptr = appl_ptr' + (total - done')
        <5>1. hw_ptr # appl_ptr + n BY <1>1, <1>4, <2>2, <3>2
        <5>2. hw_ptr + boundary = appl_ptr + (total - done) BY <2>2, <5>1
        <5>3. PICK h, p, x, f, d, t, e \in Nat :
                /\ h = hw_ptr /\ p = appl_ptr /\ x = appl_ptr' /\ f = frames /\ d = boundary
                /\ t = total /\ e = done
          BY <1>1, <1>1a, <4>1
        <5>4. h + d = p + (t - e) /\ x + d = p + f BY <4>1, <5>2, <5>3
        <5>5. h = x + (t - (e + f)) BY <5>4
        <5> QED BY <2>3, <5>3, <5>5
      <4>3. PICK m \in Nat : boundary = m * b BY <1>4 DEF WholeRings
      <4>4. Holds(b, ring, appl_ptr' + m * b, done', total) BY <2>3, <2>6, <4>1, <4>3
      <4>5. PICK p \in Nat, first \in Nat : p = appl_ptr' /\ first = done' BY <1>1, <2>3, <4>1
      <4>6. Holds(b, ring, p, first, total) BY <1>1, <4>4, <4>5, SameCells
      <4> QED BY <4>2, <4>5, <4>6
    <3> QED BY <1>1, <3>1, <3>2
  <2>9. Capturing'
    <3>1. done' <= total' /\ total' - done' <= buffer_size' BY <1>1, <1>2, <2>2, <2>3 DEF opened
    <3>2. pc' # "commit" /\ UNCHANGED <<buffer_size, boundary, hw_ptr, ring, total>>
      BY <1>2, <2>3 DEF opened
    <3> QED BY <2>7, <3>1, <3>2 DEF Capturing
  <2> QED BY <1>2, <1>3, <1>4, <1>6, <2>5, <2>9 DEF RingKept, WholeRings, PCM_IN, opened, flags
<1> QED BY <1>5, <1>6

LEMMA LibraryRing ==
    ASSUME CallInv, RingInv, Library, ~Disordered, ~Disordered'
    PROVE  RingInv'
<1>0. ~garbled /\ (PCM_MMAP /\ handle = "ready" => RingKept) /\ TypeOK /\ Calls
  BY DEF RingInv, CallInv
<1> USE DEF RingInv
<1>1. CASE Restart \/ pcm_start \/ Initial \/ Transfer
  <2>1. pc \in Plain /\ UNCHANGED <<setting, garbled>>
    BY <1>1 DEF Restart, pcm_start, Initial, Transfer, Plain, opened, stream
  <2> QED BY <1>0, <2>1 DEF Calls, PCM_MMAP
<1>2. CASE TransferLoop
  <2>1. /\ pc = "transfer"
        /\ UNCHANGED <<opened, dead, count, ring, total, garbled>>
        /\ prepared \/ (PCM_IN /\ Starts /\ pcm_mmap_avail = 0)
        /\ StartFails \/ StartRefused \/ GoesOn
    BY <1>0, <1>2, LoopKinds DEF faults, Disordered
  <2>2. PCM_MMAP /\ handle = "ready" BY <1>0, <2>1 DEF Calls, WithRing
  <2>3. RingKept BY <1>0, <2>2
  <2>4. pc' \in {"idle", "wait", "begin"} BY <1>0, <1>2, LoopPointers
  <2>5. prepared /\ ~PCM_IN => appl_ptr + count < boundary BY <2>1, <2>3 DEF RingKept, Playing, WithRing
  <2>6. CASE prepared \/ StartFails
    <3>1. /\ UNCHANGED <<prepared, appl_ptr, hw_ptr, done>> /\ PushApplPtr(appl_ptr)
          /\ running' = TRUE \/ UNCHANGED <<running, state>>
      <4>1. CASE StartFails BY <4>1 DEF StartFails
      <4>2. CASE prepared /\ StartRefused BY <4>2 DEF StartRefused, PrepareRing
      <4>3. CASE prepared /\ GoesOn BY <4>3 DEF GoesOn, PrepareRing
      <4> QED BY <2>1, <2>6, <4>1, <4>2, <4>3
    <3>2. prepared /\ ~dead' => k_appl_ptr' = appl_ptr BY <2>1, <3>1 DEF PushApplPtr
    <3>3. state' = "running" => running' \/ dead' BY <2>1, <2>3, <3>1 DEF RingKept
    <3>4. prepared /\ ~PCM_IN /\ pc' \in WithRing => appl_ptr + count' < boundary BY <2>1, <2>5
    <3>5. pc' # "commit" BY <2>4
    <3>6. UNCHANGED <<setting, buffer_size, boundary, sync_ptr, appl_ptr, hw_ptr, prepared, stream>>
      BY <2>1, <3>1 DEF opened, stream
    <3>7. RingKept' BY <2>3, <3>2, <3>3, <3>4, <3>5, <3>6, RingStays
    <3> QED BY <1>0, <2>1, <3>7
  <2>7. CASE ~prepared /\ ~StartFails
    <3>1. PCM_IN /\ Starts BY <2>1, <2>7
    <3>2. ~StartRefused BY <2>7, <3>1 DEF StartRefused, CanStart
    <3>3. PrepareRing /\ running' = TRUE BY <2>1, <2>7, <3>1, <3>2 DEF GoesOn
    <3>4. prepared' /\ hw_ptr' = 0 /\ done' = total /\ appl_ptr' = 0 /\ k_appl_ptr' = 0
      BY <2>3, <2>7, <3>3 DEF PrepareRing, RingKept
    <3>5. buffer_size \in Nat \ {0} /\ boundary \in Nat \ {0} /\ total \in Nat BY <2>2, RingSizes
    <3>6. Holds(buffer_size', ring', 0, done', total') BY <2>1, <3>4, <3>5 DEF Holds
    <3>7. pc' # "commit" BY <2>4
    <3>8. Capturing' BY <2>1, <3>4, <3>5, <3>6, <3>7 DEF Capturing, opened
    <3>9. WholeRings' /\ PCM_IN' BY <2>1, <2>3, <3>1 DEF RingKept, WholeRings, PCM_IN, opened
    <3> QED BY <1>0, <2>1, <3>3, <3>4, <3>5, <3>7, <3>8, <3>9 DEF RingKept, opened
  <2> QED BY <1>0, <2>1, <2>6, <2>7
<1>3. CASE pcm_wait
  <2>1. pc = "wait" /\ UNCHANGED <<opened, hw_ptr, state, dead, count, stream>> BY <1>3 DEF pcm_wait
  <2>2. PCM_MMAP /\ handle = "ready" /\ prepared BY <1>0, <2>1 DEF Calls, WithRing
  <2>3. RingKept BY <1>0, <2>2
  <2>4. CASE pc' = "transfer" /\ UNCHANGED <<flags, appl_ptr, k_appl_ptr>>
    <3>1. /\ prepared /\ ~dead' => k_appl_ptr' = appl_ptr
          /\ state' = "running" => running' \/ dead'
          /\ ~PCM_IN => appl_ptr + count < boundary
      BY <2>1, <2>2, <2>3, <2>4 DEF RingKept, Playing, WithRing, flags
    <3>2. RingKept' BY <2>1, <2>3, <2>4, <3>1, RingStays DEF opened, flags
    <3> QED BY <1>0, <2>1, <3>2 DEF stream
  <2>5. CASE /\ dead \/ state \in {"xrun", "suspended"}
             /\ ~prepared' /\ appl_ptr' = 0 /\ pc' = "idle"
    <3>1. RingKept' BY <2>1, <2>3, <2>5, RingDropped DEF opened
    <3> QED BY <1>0, <2>1, <3>1 DEF stream
  <2> QED BY <1>3, <2>4, <2>5 DEF pcm_wait, GiveUp, Stopped, Return, Disordered
<1>4. CASE pcm_mmap_begin
  <2>1. /\ pc = "begin" /\ PushApplPtr(appl_ptr)
        /\ UNCHANGED <<opened, flags, appl_ptr, hw_ptr, state, faults, count, stream>>
    BY <1>4 DEF pcm_mmap_begin
  <2>2. PCM_MMAP /\ handle = "ready" /\ prepared BY <1>0, <2>1 DEF Calls, WithRing, Disordered
  <2>3. RingKept BY <1>0, <2>2
  <2>4. /\ prepared /\ ~dead' => k_appl_ptr' = appl_ptr
        /\ state' = "running" => running' \/ dead'
        /\ ~PCM_IN => appl_ptr + count < boundary
    BY <2>1, <2>2, <2>3 DEF RingKept, Playing, WithRing, flags, faults, PushApplPtr
  <2>5. frames' <= pcm_mmap_avail /\ frames' <= buffer_size - (appl_ptr % buffer_size)
    BY <1>4, BeginBounds
  <2>6. frames' <= IF PCM_IN THEN total - done ELSE buffer_size - (total - done)
    BY <2>2, <2>3, <2>5, RingCounted
  <2>7. RingKept' BY <2>1, <2>3, <2>4, <2>5, <2>6, RingStays DEF opened, flags, faults
  <2> QED BY <1>0, <2>1, <2>7 DEF stream
<1>5. CASE pcm_mmap_commit
  <2>1. pc = "commit" BY <1>5 DEF pcm_mmap_commit
  <2>2. PCM_MMAP /\ handle = "ready" /\ prepared BY <1>0, <2>1 DEF Calls, WithRing, Disordered
  <2> QED BY <1>0, <1>5, <2>2, CommitRing
<1> QED BY <1>1, <1>2, <1>3, <1>4, <1>5 DEF Library

\* A frame is played.
LEMMA PlayRing ==
    ASSUME CallInv, handle = "ready", PCM_MMAP, RingKept, Play, ~garbled
    PROVE  RingKept' /\ ~garbled'
<1> DEFINE b == buffer_size
<1>1. /\ b \in Nat \ {0} /\ boundary \in Nat \ {0} /\ 2 * b <= boundary
      /\ appl_ptr \in Nat /\ hw_ptr \in Nat /\ total \in Nat /\ done \in Nat
  BY RingSizes
<1>2. /\ state = "running" /\ ~PCM_IN /\ ~dead
      /\ UNCHANGED <<opened, flags, appl_ptr, k_appl_ptr, dead, pc, count, frames, ring, total>>
  BY DEF Play, faults, call
<1>3. prepared BY <1>2 DEF RingKept, CallInv, Calls
<1>4. Playing /\ WholeRings /\ running /\ k_appl_ptr = appl_ptr /\ hw_ptr < boundary
  BY <1>2, <1>3 DEF RingKept
<1>5. CASE Available \in 0..(b - 1)
  <2>1. /\ hw_ptr' = (hw_ptr + 1) % boundary /\ done' = done + 1
        /\ garbled' = (garbled \/ ring[hw_ptr % b] # done)
        /\ UNCHANGED state
    BY <1>5 DEF Play, Forward
  <2>2. Available = b - (total - done) BY <1>2, <1>3, RingCounted
  <2>3. done < total BY <1>1, <1>5, <2>2
  <2>4. hw_ptr + 1 \in 0..(boundary - 1) BY <1>1, <1>4, <2>3 DEF Playing
  <2>5. hw_ptr' = hw_ptr + 1
    <3>1. \A d \in Nat \ {0} : \A x \in 0..(d - 1) : x % d = x OBVIOUS
    <3> QED BY <1>1, <2>1, <2>4, <3>1
  <2>6. ring[hw_ptr % b] = done
    <3>1. 0 \in 0..(total - done - 1) /\ hw_ptr + 0 = hw_ptr /\ done + 0 = done BY <1>1, <2>3
    <3> QED BY <1>4, <3>1 DEF Playing, Holds
  <2>7. Holds(b, ring, hw_ptr + 1, done + 1, total)
    <3>1. 1 \in Nat OBVIOUS
    <3> QED BY <1>1, <1>4, <3>1, TakeFrames DEF Playing
  <2>8. Playing'
    <3>1. Holds(buffer_size', ring', hw_ptr', done', total') BY <1>2, <2>1, <2>5, <2>7 DEF opened
    <3>2. UNCHANGED <<buffer_size, boundary, total, appl_ptr, pc, frames>> BY <1>2 DEF opened
    <3>3. /\ total - done <= b /\ appl_ptr = hw_ptr + (total - done) /\ appl_ptr < boundary
          /\ frames \in Nat /\ (pc = "commit" => frames <= b - (total - done))
      BY <1>4, RingSizes DEF Playing
    <3>4. done' <= total' /\ total' - done' <= buffer_size' BY <1>1, <2>1, <2>3, <3>2, <3>3
    <3>5. appl_ptr' = hw_ptr' + (total' - done') /\ appl_ptr' < boundary'
      BY <1>1, <2>1, <2>5, <3>2, <3>3
    <3>6. pc' = "commit" => frames' <= buffer_size' - (total' - done')
      BY <1>1, <2>1, <3>2, <3>3
    <3>7. pc' \in WithRing => appl_ptr' + count' < boundary'
      BY <1>2, <1>4 DEF Playing, opened, WithRing
    <3> QED BY <3>1, <3>4, <3>5, <3>6, <3>7 DEF Playing
  <2>9. hw_ptr' < boundary' BY <1>1, <1>2, <2>4, <2>5 DEF opened
  <2>10. ~garbled' BY <2>1, <2>6
  <2> QED BY <1>2, <1>3, <1>4, <2>1, <2>8, <2>9, <2>10 DEF RingKept, WholeRings, PCM_IN, opened, flags
<1>6. CASE Available \notin 0..(b - 1)
  <2>1. state' = "xrun" /\ UNCHANGED <<hw_ptr, done, garbled>> BY <1>6 DEF Play
  <2>2. /\ pc' \in WithRing => appl_ptr + count' < boundary
        /\ pc' = "commit" =>
               /\ frames' <= buffer_size - (appl_ptr % buffer_size)
               /\ frames' <= buffer_size - (total - done)
    BY <1>2, <1>4 DEF RingKept, Playing
  <2>3. RingKept' BY <1>2, <1>3, <1>4, <2>1, <2>2, RingStays DEF opened, flags, stream
  <2> QED BY <2>1, <2>3
<1> QED BY <1>5, <1>6

\* A frame is captured.
LEMMA CaptureRing ==
    ASSUME CallInv, handle = "ready", PCM_MMAP, RingKept, Capture, ~garbled, ~Disordered'
    PROVE  RingKept' /\ ~garbled'
<1> DEFINE b == buffer_size
           n == total - done
<1>1. /\ b \in Nat \ {0} /\ boundary \in Nat \ {0} /\ 2 * b <= boundary
      /\ appl_ptr \in Nat /\ hw_ptr \in Nat /\ total \in Nat /\ done \in Nat
      /\ appl_ptr <= boundary /\ ring \in [0..(b - 1) -> Int]
  BY RingSizes
<1>2. /\ state = "running" /\ PCM_IN /\ ~dead /\ ~(Available >= b)
      /\ total' = total + 1 /\ hw_ptr' = (hw_ptr + 1) % boundary
      /\ ring' = [ring EXCEPT ![hw_ptr % b] = total]
      /\ state' = "running" \/ state' = "xrun"
      /\ UNCHANGED <<opened, flags, appl_ptr, k_appl_ptr, dead, pc, count, frames, done, garbled>>
  BY DEF Capture, Forward, Disordered, faults, call
<1>3. prepared BY <1>2 DEF RingKept, CallInv, Calls
<1>4. Capturing /\ WholeRings /\ running /\ k_appl_ptr = appl_ptr /\ hw_ptr < boundary
  BY <1>2, <1>3 DEF RingKept
<1>5. n < b BY <1>1, <1>2, <1>3, RingCounted
<1>6. /\ done <= total
      /\ hw_ptr = appl_ptr + n \/ hw_ptr + boundary = appl_ptr + n
      /\ Holds(b, ring, appl_ptr, done, total)
      /\ pc = "commit" => frames <= n
  BY <1>4 DEF Capturing
<1>7. hw_ptr % b = (appl_ptr + n) % b
  <2>1. PICK m \in Nat : boundary = m * b BY <1>4 DEF WholeRings
  <2>2. PICK x \in Nat \ {0}, h \in Nat : x = b /\ h = hw_ptr BY <1>1
  <2>3. (h + m * x) % x = h % x BY ModMultiple
  <2> QED BY <1>6, <2>1, <2>2, <2>3
<1>8. Holds(b, ring', appl_ptr, done, total + 1)
  <2>1. PICK x \in Nat \ {0}, p \in Nat, first \in Nat, end \in Nat, q \in Nat :
          x = b /\ p = appl_ptr /\ first = done /\ end = total /\ q = hw_ptr
    BY <1>1
  <2>2. first <= end /\ end - first + 1 <= x BY <1>1, <1>5, <1>6, <2>1
  <2>3. q % x \in 0..(x - 1) /\ 1 \in Nat OBVIOUS
  <2>4. 1 <= x - (q % x) BY <2>3
  <2>5. q % x = (p + (end - first)) % x BY <1>7, <2>1
  <2>6. Holds(x, ring, p, first, end) BY <1>6, <2>1
  <2>7. PICK z \in 0..(x - 1) : z = q % x BY <2>3
  <2>8. \A c \in 0..(x - 1) : ring'[c] = IF c = z THEN end ELSE ring[c] BY <1>1, <1>2, <2>1, <2>7
  <2>9. \A c \in 0..(x - 1) : ring'[c] = IF c - z \in 0..(1 - 1) THEN end + (c - z) ELSE ring[c]
    BY <2>8
  <2>10. \A c \in 0..(x - 1) :
             ring'[c] = IF c - (q % x) \in 0..(1 - 1) THEN end + (c - (q % x)) ELSE ring[c]
    BY <2>7, <2>9
  <2>11. Holds(x, ring', p, first, end + 1) BY <2>2, <2>3, <2>4, <2>5, <2>6, <2>10, PutFrames
  <2> QED BY <2>1, <2>11
<1>9. /\ hw_ptr' \in Nat /\ hw_ptr' < boundary
      /\ hw_ptr' = appl_ptr + (n + 1) \/ hw_ptr' + boundary = appl_ptr + (n + 1)
  <2>0. \A d \in Nat \ {0} : \A x \in 0..(d - 1) : x % d = x OBVIOUS
  <2>1. CASE hw_ptr + 1 < boundary
    <3>1. hw_ptr + 1 \in 0..(boundary - 1) BY <1>1, <2>1
    <3>2. hw_ptr' = hw_ptr + 1 BY <1>1, <1>2, <2>0, <3>1
    <3> QED BY <1>1, <1>6, <2>1, <3>2
  <2>2. CASE hw_ptr + 1 = boundary
    <3>1. \A d \in Nat \ {0} : d % d = 0 OBVIOUS
    <3>2. hw_ptr' = 0 BY <1>1, <1>2, <2>2, <3>1
    <3>3. hw_ptr + boundary # appl_ptr + n BY <1>1, <1>5, <2>2
    <3>4. hw_ptr = appl_ptr + n BY <1>6, <3>3
    <3>5. boundary = appl_ptr + (n + 1) BY <1>1, <2>2, <3>4
    <3> QED BY <1>1, <3>2, <3>5
  <2> QED BY <1>1, <1>4, <2>1, <2>2
<1>10. Capturing'
  <2>1. UNCHANGED <<buffer_size, boundary, done, appl_ptr, pc, frames>> BY <1>2 DEF opened
  <2>2. Holds(buffer_size', ring', appl_ptr', done', total') BY <1>2, <1>8, <2>1
  <2>3. total' - done' = n + 1 /\ done' <= total' BY <1>1, <1>2, <1>6, <2>1
  <2>4. total' - done' <= buffer_size' BY <1>1, <1>5, <2>1, <2>3
  <2>5. \/ hw_ptr' = appl_ptr' + (total' - done')
        \/ hw_ptr' + boundary' = appl_ptr' + (total' - done')
    BY <1>9, <2>1, <2>3
  <2>6. frames \in Nat BY RingSizes
  <2>7. pc' = "commit" => frames' <= total' - done' BY <1>1, <1>6, <2>1, <2>3, <2>6
  <2> QED BY <2>2, <2>3, <2>4, <2>5, <2>7 DEF Capturing
<1> QED BY <1>2, <1>3, <1>4, <1>9, <1>10 DEF RingKept, WholeRings, PCM_IN, opened, flags

LEMMA KernelRing ==
    ASSUME CallInv, RingInv, Play \/ Capture \/ Xrun \/ Suspend \/ Die, ~Disordered, ~Disordered'
    PROVE  RingInv'
<1>0. ~garbled /\ (PCM_MMAP /\ handle = "ready" => RingKept) /\ TypeOK /\ Calls
  BY DEF RingInv, CallInv
<1> USE DEF RingInv
<1>1. CASE Play \/ Capture
  <2>1. PCM_MMAP /\ state = "running" BY <1>1 DEF Play, Capture
  <2>2. handle = "ready" BY <1>0, <2>1 DEF Calls
  <2> QED BY <1>0, <1>1, <2>1, <2>2, PlayRing, CaptureRing
<1>2. CASE Xrun
  <2>1. ~PCM_MMAP /\ UNCHANGED <<setting, garbled>> BY <1>2 DEF Xrun, opened, stream
  <2> QED BY <1>0, <2>1 DEF PCM_MMAP
<1>3. CASE Suspend \/ Die
  <2>1. /\ UNCHANGED <<opened, flags, pointers, call, stream>>
        /\ state' = "running" => dead'
        /\ dead => dead'
    BY <1>3 DEF Suspend, Die
  <2>2. CASE PCM_MMAP /\ handle = "ready"
    <3>1. RingKept BY <1>0, <2>2
    <3>2. prepared /\ ~dead' => k_appl_ptr' = appl_ptr BY <2>1, <3>1 DEF RingKept, pointers
    <3>3. prepared /\ ~PCM_IN /\ pc' \in WithRing => appl_ptr + count' < boundary
      BY <2>1, <3>1 DEF RingKept, Playing, call
    <3>4. pc' = "commit" =>
              /\ frames' <= buffer_size - (appl_ptr % buffer_size)
              /\ prepared => frames' <= IF PCM_IN THEN total - done ELSE buffer_size - (total - done)
      BY <2>1, <3>1 DEF RingKept, Playing, Capturing, call
    <3>5. state' = "running" => running' \/ dead' BY <2>1
    <3>6. RingKept' BY <2>1, <3>1, <3>2, <3>3, <3>4, <3>5, RingStays DEF opened, flags, pointers
    <3> QED BY <1>0, <2>1, <3>6 DEF stream
  <2>3. CASE ~(PCM_MMAP /\ handle = "ready") BY <1>0, <2>1, <2>3 DEF PCM_MMAP, opened, stream
  <2> QED BY <2>2, <2>3
<1> QED BY <1>1, <1>2, <1>3

LEMMA RingInit == Init => RingInv
BY DEF Init, RingInv

LEMMA RingStep == CallInv /\ RingInv /\ [Next]_vars => RingInv'
<1>1. ASSUME CallInv, RingInv, Next PROVE RingInv'
  <2>1. CASE Disordered' BY <2>1 DEF RingInv
  <2>2. CASE ~Disordered'
    <3>1. ~Disordered BY <1>1, <2>2, UpsetGrows DEF Disordered
    <3> QED BY <1>1, <2>2, <3>1, ClientRing, LibraryRing, KernelRing DEF Next
  <2> QED BY <2>1, <2>2
<1>2. ASSUME RingInv, UNCHANGED vars PROVE RingInv'
  <2>1. /\ UNCHANGED <<setting, handle, sync_ptr, buffer_size, boundary, prepared, running, upset,
                       appl_ptr, k_appl_ptr, hw_ptr, state, dead, pc, count, frames, ring, total, done,
                       garbled>>
    BY <1>2 DEF vars, opened, flags, pointers, faults, call, stream
  <2>2. Disordered' <=> Disordered BY <2>1 DEF Disordered
  <2>3. RingKept => RingKept'
    <3>1. Playing => Playing' BY <2>1 DEF Playing, Holds
    <3>2. Capturing => Capturing' BY <2>1 DEF Capturing, Holds
    <3> QED BY <2>1, <3>1, <3>2 DEF RingKept, WholeRings, PCM_IN
  <2> QED BY <1>2, <2>1, <2>2, <2>3 DEF RingInv, PCM_MMAP
<1> QED BY <1>1, <1>2

-----------------------------------------------------------------------------
(* The theorems about the ring.                                            *)

\* Frames leave a ring as they entered it: none overwritten before it is played or
\* read, none taken out twice, across xruns, suspends and restarts, for all sizes, with
\* a mapped appl_ptr and with a copy of it, and for captured streams past the boundary.
\* That is what the theorem says of a ring until one of these happens: a stop that
\* leaves a copy of appl_ptr behind, a signal that makes the library give up, the use
\* of a ring that was not prepared, a captured frame that comes when the ring is full,
\* and a call that takes a played stream to the boundary.
THEOREM FramesInOrder == Spec => []InOrder
<1>1. RingInv => InOrder BY DEF RingInv, InOrder, Disordered
<1>2. CallInv /\ RingInv /\ [Next]_vars => RingInv' BY RingStep
<1> QED BY <1>1, <1>2, RingInit, PcmCalls, PTL DEF Spec

\* What pcm_get_htimestamp reports of a running stream is what the kernel counts,
\* also when the pointers of a captured stream have wrapped, as long as none of the
\* things has happened that Upset lists.
THEOREM Reported == Spec => []ReportsAvailable
<1>1. CallInv /\ RingInv => ReportsAvailable
  <2> SUFFICES ASSUME CallInv, RingInv, upset = {}, Ready, PCM_MMAP, ~dead, state = "running"
               PROVE  pcm_get_htimestamp_avail = Available
    BY DEF ReportsAvailable
  <2>1. handle = "ready" /\ RingKept BY DEF Ready, RingInv, Disordered
  <2>2. running BY <2>1 DEF RingKept
  <2>3. prepared BY <2>1, <2>2 DEF CallInv, Calls
  <2> QED BY <2>1, <2>3, RingCounted
<1>2. CallInv /\ RingInv /\ [Next]_vars => RingInv' BY RingStep
<1> QED BY <1>1, <1>2, RingInit, PcmCalls, PTL DEF Spec
=============================================================================
