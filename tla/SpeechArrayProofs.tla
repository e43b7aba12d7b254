--------------------------- MODULE SpeechArrayProofs ---------------------------
(***************************************************************************)
(* What a handle of the microphone array holds, for all clients, devices   *)
(* and sizes.                                                              *)
(***************************************************************************)
EXTENDS SpeechArray, WellFoundedInduction, TLAPS

\* What the process holds before speechArrayOpen, after it failed at a step, and
\* after speechArrayClose.
Holding ==
    /\ pc = "none" => held = {} /\ at = "none"
    /\ pc = "failed" => at \in Part /\ \E taken \in Taken(at) : held = taken \ Released(at)
    /\ pc = "closed" => held = {}

\* A way out of speechArrayOpen leaves nothing but the device, and that after
\* pcm_open only.
LEMMA WaysOut ==
    ASSUME NEW step \in Part, NEW taken \in Taken(step)
    PROVE  taken \ Released(step) \subseteq (IF step \in {"pcm", "buffer"} THEN {"pcm"} ELSE {})
<1>1. CASE step \in {"handle", "mutex", "cond"} BY <1>1 DEF Part, Taken, Released
<1>2. CASE step = "pcm" BY <1>2 DEF Part, Taken, Released
<1>3. CASE step = "buffer" BY <1>3 DEF Part, Taken, Released
<1> QED BY <1>1, <1>2, <1>3 DEF Part

\* Only speechArrayOpen and speechArrayClose take and release; the calls in between
\* leave alone what is held.
LEMMA HoldingStep == Holding /\ [Next]_vars => Holding'
<1> SUFFICES ASSUME Holding, [Next]_vars PROVE Holding'
  OBVIOUS
<1>1. CASE speechArrayOpen
  BY <1>1 DEF speechArrayOpen, Holding
<1>2. ASSUME NEW step \in Part, speechArrayOpen_fails(step) PROVE Holding'
  BY <1>2 DEF speechArrayOpen_fails, Holding
<1>3. CASE speechArrayClose
  BY <1>3 DEF speechArrayClose, Holding
<1>4. ASSUME NEW n \in setting.asks, Read(n) PROVE Holding'
  <2>1. pc' \in {"digest", "read"} BY <1>4 DEF Read
  <2> QED BY <2>1 DEF Holding
<1>5. CASE PcmRead
  <2>1. pc' \in {"crashed", "digest"} BY <1>5 DEF PcmRead
  <2> QED BY <2>1 DEF Holding
<1>6. CASE Digest
  <2>1. pc' \in {"crashed", "idle", "read"} BY <1>6 DEF Digest, Deliver
  <2> QED BY <2>1 DEF Holding
<1>7. CASE Fail
  BY <1>7 DEF Fail, resources, call, Holding
<1>8. CASE UNCHANGED vars
  BY <1>8 DEF vars, resources, call, Holding
<1> QED BY <1>1, <1>2, <1>3, <1>4, <1>5, <1>6, <1>7, <1>8 DEF Next

\* A speechArrayOpen that fails holds at most the device, which the label Error
\* never closes, and a closed handle leaves nothing behind, whatever the client
\* asked for in between.
THEOREM HandleReleased == Spec => []NothingHeld
<1>1. Init => Holding BY DEF Init, Holding
<1>2. Holding => NothingHeld
  <2> SUFFICES ASSUME Holding, pc = "failed"
               PROVE  held \ (IF at \in {"pcm", "buffer"} THEN {"pcm"} ELSE {}) = {}
    BY DEF Holding, NothingHeld
  <2>1. PICK taken \in Taken(at) : held = taken \ Released(at) BY DEF Holding
  <2>2. at \in Part BY DEF Holding
  <2> QED BY <2>1, <2>2, WaysOut
<1> QED BY <1>1, <1>2, HoldingStep, PTL DEF Spec
-----------------------------------------------------------------------------
(* Multiples.                                                              *)

\* Quotient and remainder.
LEMMA ModIs ==
    ASSUME NEW b \in Nat \ {0}, NEW a \in Nat
    PROVE  \E k \in Nat, r \in 0..(b - 1) : a = b * k + r /\ r = a % b
<1>1. a \div b \in Nat /\ a = b * (a \div b) + (a % b) OBVIOUS
<1>2. a % b \in 0..(b - 1) OBVIOUS
<1> QED BY <1>1, <1>2

\* They are the only ones.
LEMMA ModUnique ==
    ASSUME NEW b \in Nat \ {0}, NEW k \in Nat, NEW r \in 0..(b - 1)
    PROVE  (b * k + r) % b = r /\ (b * k + r) \div b = k
OBVIOUS

\* A multiple is a product.
LEMMA Multiple ==
    ASSUME NEW b \in Nat \ {0}, NEW a \in Nat
    PROVE  a % b = 0 <=> \E k \in Nat : a = b * k
<1>1. ASSUME a % b = 0 PROVE \E k \in Nat : a = b * k
  <2>1. PICK k \in Nat, r \in 0..(b - 1) : a = b * k + r /\ r = a % b BY ModIs
  <2>2. a = b * k BY <1>1, <2>1
  <2> QED BY <2>2
<1>2. ASSUME NEW k \in Nat, a = b * k PROVE a % b = 0
  <2>1. 0 \in 0..(b - 1) OBVIOUS
  <2>2. (b * k + 0) % b = 0 BY <2>1, ModUnique
  <2>3. b * k + 0 = a BY <1>2
  <2> QED BY <2>2, <2>3
<1> QED BY <1>1, <1>2

\* Sums of multiples.
LEMMA MultipleSum ==
    ASSUME NEW b \in Nat \ {0}, NEW a \in Nat, NEW c \in Nat, a % b = 0, c % b = 0
    PROVE  (a + c) % b = 0
<1>1. PICK k \in Nat : a = b * k BY Multiple
<1>2. PICK m \in Nat : c = b * m BY Multiple
<1>3. a + c = b * (k + m) /\ k + m \in Nat /\ a + c \in Nat BY <1>1, <1>2
<1>4. (a + c) % b = 0
  <2>1. \E q \in Nat : a + c = b * q BY <1>3
  <2> QED BY <2>1, <1>3, Multiple
<1> QED BY <1>4

\* Differences of multiples.
LEMMA MultipleDifference ==
    ASSUME NEW b \in Nat \ {0}, NEW a \in Nat, NEW c \in Nat, a % b = 0, c % b = 0, c <= a
    PROVE  (a - c) % b = 0
<1>1. PICK k \in Nat : a = b * k BY Multiple
<1>2. PICK m \in Nat : c = b * m BY Multiple
<1>3. a - c = b * (k - m) /\ a - c \in Nat BY <1>1, <1>2
<1>4. m <= k
  <2>1. CASE m > k
    <3>1. m - k \in Nat \ {0} /\ b * (m - k) >= b BY <2>1
    <3>2. b * (m - k) = c - a BY <1>1, <1>2
    <3> QED BY <3>1, <3>2
  <2> QED BY <2>1
<1>5. \E q \in Nat : a - c = b * q BY <1>3, <1>4
<1> QED BY <1>3, <1>5, Multiple

\* A multiple of a multiple.
LEMMA MultipleOf ==
    ASSUME NEW b \in Nat \ {0}, NEW c \in Nat \ {0}, NEW a \in Nat, a % b = 0, b % c = 0
    PROVE  a % c = 0
<1>1. PICK k \in Nat : a = b * k BY Multiple
<1>2. PICK m \in Nat : b = c * m BY Multiple
<1>3. a = c * (m * k) /\ m * k \in Nat BY <1>1, <1>2
<1>4. \E q \in Nat : a = c * q BY <1>3
<1> QED BY <1>4, Multiple

\* The next multiple is less than b away.
LEMMA NextMultiple ==
    ASSUME NEW b \in Nat \ {0}, NEW a \in Nat
    PROVE  \E r \in 0..(b - 1) : (a + r) % b = 0
<1>1. PICK k \in Nat, r \in 0..(b - 1) : a = b * k + r /\ r = a % b BY ModIs
<1>2. CASE r = 0 BY <1>1, <1>2
<1>3. CASE r # 0
  <2>1. b - r \in 0..(b - 1) BY <1>3
  <2>2. a + (b - r) = b * (k + 1) /\ a + (b - r) \in Nat /\ k + 1 \in Nat BY <1>1
  <2>3. \E q \in Nat : a + (b - r) = b * q BY <2>2
  <2>4. (a + (b - r)) % b = 0 BY <2>2, <2>3, Multiple
  <2> QED BY <2>1, <2>4
<1> QED BY <1>2, <1>3

\* What follows a multiple has its distance as remainder.
LEMMA After ==
    ASSUME NEW b \in Nat \ {0}, NEW a \in Nat, a % b = 0, NEW r \in 0..(b - 1)
    PROVE  (a + r) % b = r /\ (a + r) \div b = a \div b /\ (a \div b) * b = a /\ a \div b \in Nat
<1>1. PICK k \in Nat : a = b * k BY Multiple
<1>2. (b * k + r) % b = r /\ (b * k + r) \div b = k BY ModUnique
<1>3. a \div b = k
  <2>1. 0 \in 0..(b - 1) OBVIOUS
  <2>2. (b * k + 0) \div b = k BY <2>1, ModUnique
  <2>3. b * k + 0 = a BY <1>1
  <2> QED BY <2>2, <2>3
<1> QED BY <1>1, <1>2, <1>3

\* Multiples that differ are b apart.
LEMMA MultiplesApart ==
    ASSUME NEW b \in Nat \ {0}, NEW a \in Nat, NEW c \in Nat, a % b = 0, c % b = 0, a < c
    PROVE  a + b <= c
<1>0. a <= c OBVIOUS
<1>3. (c - a) % b = 0 BY <1>0, MultipleDifference, Zenon
<1>1. c - a \in Nat \ {0} /\ (c - a) % b = 0 BY <1>3
<1>2. PICK k \in Nat : c - a = b * k BY <1>1, Multiple
<1>5. k # 0
  <2>1. CASE k = 0 BY <1>1, <1>2, <2>1
  <2> QED BY <2>1
<1>4. b <= b * k BY <1>5
<1> QED BY <1>2, <1>4
-----------------------------------------------------------------------------
(* The loops of skipData and parseData_INT32.  Both go upwards, so they    *)
(* are defined from the end of the words down; that a set of natural       *)
(* numbers has a least element stands for the induction.                   *)

LEMMA LeastNumber ==
    ASSUME NEW T, T \subseteq Nat, T # {}
    PROVE  \E x \in T : \A y \in T : x <= y
<1> DEFINE R == {ss \in Nat \X Nat : ss[1] < ss[2]}
<1>1. IsWellFoundedOn(R, Nat) BY NatLessThanWellFounded DEF OpToRel
<1> HIDE DEF R
<1>2. PICK x \in T : \A y \in T : ~(<<y, x>> \in R) BY <1>1, WFMin
<1>3. \A y \in T : ~(y < x)
  <2> SUFFICES ASSUME NEW y \in T, y < x PROVE FALSE
    OBVIOUS
  <2>1. <<y, x>> \in R BY DEF R
  <2> QED BY <2>1, <1>2
<1> QED BY <1>3

\* What the loop of skipData over w words makes of word i, g being what it makes of
\* the later ones.
SkipFrom(b, w, g, i) ==
    IF i >= w THEN i
    ELSE IF BadTags(b, i) THEN g[i + 1]
    ELSE IF NoSound(b, i) THEN g[i + Chan]
    ELSE i

SkipLoop(b, w, a, g) == g = [i \in a..(w + Chan) |-> SkipFrom(b, w, g, i)]

\* The loop ends.
LEMMA SkipDefined ==
    ASSUME NEW b, NEW w \in Nat
    PROVE  \E g : SkipLoop(b, w, 0, g)
<1> DEFINE N == w + Chan
           T == {a \in Nat : \E g : SkipLoop(b, w, a, g)}
<1>0. Chan \in Nat \ {0} /\ N \in Nat BY SpeechArrayAssumption
<1>1. SkipLoop(b, w, N + 1, [i \in (N + 1)..N |-> i])
  <2> DEFINE none == [i \in (N + 1)..N |-> i]
  <2>1. \A i \in (N + 1)..N : none[i] = SkipFrom(b, w, none, i) BY <1>0
  <2>2. none = [i \in (N + 1)..N |-> none[i]] OBVIOUS
  <2>3. SkipLoop(b, w, N + 1, none)
    <3> HIDE DEF none
    <3> QED BY <2>1, <2>2, Zenon DEF SkipLoop
  <2> QED BY <2>3
<1>2. T \subseteq Nat /\ T # {}
  <2>1. N + 1 \in Nat BY <1>0
  <2>2. N + 1 \in T BY <1>1, <2>1
  <2> QED BY <2>2
<1>3. PICK a \in T : \A y \in T : a <= y
  <2> HIDE DEF T
  <2> QED BY <1>2, LeastNumber
<1>4. PICK g : SkipLoop(b, w, a, g) BY <1>3
<1>5. ASSUME a # 0 PROVE FALSE
  <2> DEFINE c == a - 1
             h == [i \in c..N |-> IF i # c THEN g[i] ELSE SkipFrom(b, w, g, i)]
  <2>1. a \in Nat /\ c \in Nat /\ c < a /\ a = c + 1 BY <1>3, <1>5
  <2> HIDE DEF c
  <2>2. \A i \in c..N : h[i] = SkipFrom(b, w, g, i)
    <3> SUFFICES ASSUME NEW i \in c..N PROVE h[i] = SkipFrom(b, w, g, i)
      OBVIOUS
    <3>1. CASE i = c BY <3>1
    <3>2. CASE i # c
      <4>1. i \in a..N BY <3>2, <2>1, <1>0
      <4>2. g[i] = SkipFrom(b, w, g, i) BY <4>1, <1>4 DEF SkipLoop
      <4> QED BY <4>2, <3>2
    <3> QED BY <3>1, <3>2
  <2>3. \A i \in c..N : SkipFrom(b, w, h, i) = SkipFrom(b, w, g, i)
    <3> SUFFICES ASSUME NEW i \in c..N PROVE SkipFrom(b, w, h, i) = SkipFrom(b, w, g, i)
      BY Zenon
    <3>1. CASE i >= w BY <3>1 DEF SkipFrom
    <3>2. CASE i < w
      <4>1. i + 1 \in c..N /\ i + 1 # c /\ i + Chan \in c..N /\ i + Chan # c BY <3>2, <1>0, <2>1
      <4>2. h[i + 1] = g[i + 1] /\ h[i + Chan] = g[i + Chan] BY <4>1
      <4> HIDE DEF h
      <4> QED BY <4>2 DEF SkipFrom
    <3>3. i \in Int BY <2>1, <1>0
    <3> QED BY <3>1, <3>2, <3>3
  <2>4. SkipLoop(b, w, c, h)
    <3>1. h = [i \in c..N |-> h[i]] OBVIOUS
    <3>2. \A i \in c..N : h[i] = SkipFrom(b, w, h, i) BY <2>2, <2>3, Zenon
    <3> HIDE DEF h
    <3> QED BY <3>1, <3>2, Zenon DEF SkipLoop
  <2>5. c \in T BY <2>1, <2>4
  <2> QED BY <2>5, <2>1, <1>3
<1> QED BY <1>4, <1>5

\* The words looked at are a number of samples, at least one.
LEMMA WholeIs ==
    ASSUME NEW n \in Nat, Chan <= n
    PROVE  Whole(n) \in Nat /\ Whole(n) % Chan = 0 /\ n - Chan < Whole(n) /\ Whole(n) <= n
<1>0. Chan \in Nat \ {0} BY SpeechArrayAssumption
<1>1. PICK k \in Nat, r \in 0..(Chan - 1) : n = Chan * k + r /\ r = n % Chan BY <1>0, ModIs
<1>2. Whole(n) = Chan * k BY <1>0, <1>1 DEF Whole
<1>3. Whole(n) = n - r /\ r < Chan /\ r \in Nat BY <1>0, <1>1, <1>2
<1>4. Whole(n) \in Nat /\ n - Chan < Whole(n) /\ Whole(n) <= n
  <2> HIDE DEF Whole
  <2> QED BY <1>3, <1>0
<1>5. \E q \in Nat : Whole(n) = Chan * q BY <1>2
<1>6. Whole(n) % Chan = 0 BY <1>0, <1>4, <1>5, Multiple
<1> QED BY <1>4, <1>6

\* skipData is where the loop leads.
LEMMA SkipIs ==
    ASSUME NEW b, NEW n \in Nat, Chan <= n
    PROVE  \E g : SkipLoop(b, Whole(n), 0, g) /\ skipData(b, n) = g[0]
<1> DEFINE F(g) == [i \in 0..(Whole(n) + Chan) |-> SkipFrom(b, Whole(n), g, i)]
           skip == CHOOSE g : g = F(g)
<1>0. Chan \in Nat \ {0} BY SpeechArrayAssumption
<1>2. skipData(b, n) = skip[0] BY <1>0 DEF skipData, SkipFrom
<1>3. PICK g : SkipLoop(b, Whole(n), 0, g) BY WholeIs, SkipDefined
<1>4. g = F(g) BY <1>3, Zenon DEF SkipLoop
<1>5. skip = F(skip)
  <2> HIDE DEF F
  <2> QED BY <1>4
<1>6. SkipLoop(b, Whole(n), 0, skip)
  <2> HIDE DEF skip
  <2> QED BY <1>5, Zenon DEF SkipLoop
<1> HIDE DEF skip
<1> QED BY <1>2, <1>6
Sample(b, i) == [k \in 0..(Chan - 1) |-> At(b, i + k)]

\* What the loop of parseData_INT32 over w words makes of word i, g being what it makes of
\* the later ones.
ParseFrom(b, w, g, i) ==
    IF i >= w THEN <<>>
    ELSE IF BadTags(b, i) THEN g[i + 1]
    ELSE <<Sample(b, i)>> \o g[i + Chan]

ParseLoop(b, w, a, g) == g = [i \in a..(w + Chan) |-> ParseFrom(b, w, g, i)]

\* The loop ends.
LEMMA ParseDefined ==
    ASSUME NEW b, NEW w \in Nat
    PROVE  \E g : ParseLoop(b, w, 0, g)
<1> DEFINE N == w + Chan
           T == {a \in Nat : \E g : ParseLoop(b, w, a, g)}
<1>0. Chan \in Nat \ {0} /\ N \in Nat BY SpeechArrayAssumption
<1>1. ParseLoop(b, w, N + 1, [i \in (N + 1)..N |-> <<>>])
  <2> DEFINE none == [i \in (N + 1)..N |-> <<>>]
  <2>1. \A i \in (N + 1)..N : none[i] = ParseFrom(b, w, none, i) BY <1>0
  <2>2. none = [i \in (N + 1)..N |-> none[i]] OBVIOUS
  <2>3. ParseLoop(b, w, N + 1, none)
    <3> HIDE DEF none
    <3> QED BY <2>1, <2>2, Zenon DEF ParseLoop
  <2> QED BY <2>3
<1>2. T \subseteq Nat /\ T # {}
  <2>1. N + 1 \in Nat BY <1>0
  <2>2. N + 1 \in T BY <1>1, <2>1
  <2> QED BY <2>2
<1>3. PICK a \in T : \A y \in T : a <= y
  <2> HIDE DEF T
  <2> QED BY <1>2, LeastNumber
<1>4. PICK g : ParseLoop(b, w, a, g) BY <1>3
<1>5. ASSUME a # 0 PROVE FALSE
  <2> DEFINE c == a - 1
             h == [i \in c..N |-> IF i # c THEN g[i] ELSE ParseFrom(b, w, g, i)]
  <2>1. a \in Nat /\ c \in Nat /\ c < a /\ a = c + 1 BY <1>3, <1>5
  <2> HIDE DEF c
  <2>2. \A i \in c..N : h[i] = ParseFrom(b, w, g, i)
    <3> SUFFICES ASSUME NEW i \in c..N PROVE h[i] = ParseFrom(b, w, g, i)
      OBVIOUS
    <3>1. CASE i = c BY <3>1
    <3>2. CASE i # c
      <4>1. i \in a..N BY <3>2, <2>1, <1>0
      <4>2. g[i] = ParseFrom(b, w, g, i) BY <4>1, <1>4 DEF ParseLoop
      <4> QED BY <4>2, <3>2
    <3> QED BY <3>1, <3>2
  <2>3. \A i \in c..N : ParseFrom(b, w, h, i) = ParseFrom(b, w, g, i)
    <3> SUFFICES ASSUME NEW i \in c..N PROVE ParseFrom(b, w, h, i) = ParseFrom(b, w, g, i)
      BY Zenon
    <3>1. CASE i >= w BY <3>1 DEF ParseFrom
    <3>2. CASE i < w
      <4>1. i + 1 \in c..N /\ i + 1 # c /\ i + Chan \in c..N /\ i + Chan # c BY <3>2, <1>0, <2>1
      <4>2. h[i + 1] = g[i + 1] /\ h[i + Chan] = g[i + Chan] BY <4>1
      <4> HIDE DEF h
      <4> QED BY <4>2 DEF ParseFrom
    <3>3. i \in Int BY <2>1, <1>0
    <3> QED BY <3>1, <3>2, <3>3
  <2>4. ParseLoop(b, w, c, h)
    <3>1. h = [i \in c..N |-> h[i]] OBVIOUS
    <3>2. \A i \in c..N : h[i] = ParseFrom(b, w, h, i) BY <2>2, <2>3, Zenon
    <3> HIDE DEF h
    <3> QED BY <3>1, <3>2, Zenon DEF ParseLoop
  <2>5. c \in T BY <2>1, <2>4
  <2> QED BY <2>5, <2>1, <1>3
<1> QED BY <1>4, <1>5

\* parseData is where the loop leads.
LEMMA ParseIs ==
    ASSUME NEW b, NEW n \in Nat, Chan <= n
    PROVE  \E g : ParseLoop(b, Whole(n), 0, g) /\ parseData(b, n) = g[0]
<1> DEFINE F(g) == [i \in 0..(Whole(n) + Chan) |-> ParseFrom(b, Whole(n), g, i)]
           samples == CHOOSE g : g = F(g)
<1>0. Chan \in Nat \ {0} BY SpeechArrayAssumption
<1>2. parseData(b, n) = samples[0] BY <1>0 DEF parseData, ParseFrom, Sample
<1>3. PICK g : ParseLoop(b, Whole(n), 0, g) BY WholeIs, ParseDefined
<1>4. g = F(g) BY <1>3, Zenon DEF ParseLoop
<1>5. samples = F(samples)
  <2> HIDE DEF F
  <2> QED BY <1>4
<1>6. ParseLoop(b, Whole(n), 0, samples)
  <2> HIDE DEF samples
  <2> QED BY <1>5, Zenon DEF ParseLoop
<1> HIDE DEF samples
<1> QED BY <1>2, <1>6
-----------------------------------------------------------------------------
\* Two samples fit in a block, and a sample is a number of frames: in the code 12
\* words, frames of 2 and blocks of 12288.
Sizes ==
    /\ Chan % HwAlign = 0 /\ Buff % Chan = 0 /\ 4 * Chan <= Buff
    /\ \A p \in Start : p % HwAlign = 0

\* The most a call leaves for the next one.
Rest == Buff - Block

ArrayTypes ==
    /\ setting \in Setting
    /\ buffer \in [Cell -> Int]
    /\ out \in Seq([0..(Chan - 1) -> Int])
    /\ last \in Int /\ check_skip \in BOOLEAN
    /\ data_size \in 0..Buff /\ len \in 0..Buff /\ avail_size \in 0..Buff
    /\ data \in 0..Buff /\ read_size \in 0..Buff /\ read_bytes \in 0..Buff

\* The words of the device and the samples it delivered whole.
Device ==
    /\ pos \in Nat /\ pos % HwAlign = 0
    /\ since \in Nat /\ since <= pos
    /\ \A f \in complete : f \in Nat /\ (f + 1) * Chan <= pos
                           /\ (setting.lost = 0 => since <= f * Chan)
    /\ \A f \in Nat : since <= f * Chan /\ (f + 1) * Chan <= pos => f \in complete

\* The first n words of b are words of the device, from first on.
Words(b, n, first) == \A i \in 0..(n - 1) : b[i] = first + i

\* What came before word first is dealt with: the calls before this one returned
\* nothing else, and if nothing is lost they returned all that counts.
Before(first) ==
    /\ (last + 1) * Chan <= first
    /\ setting.lost = 0 =>
         /\ first = since \/ first % Chan = 0
         /\ \A f \in complete : f * Chan < first => f \in delivered \union setting.silent

\* What a call of a client of Served returns.
Ordered ==
    /\ \A i \in 1..Len(out) : \A k \in 0..(Chan - 1) :
          out[i][k] = Number(out[i]) * Chan + k
    /\ \A i \in 1..Len(out) : Number(out[i]) > last /\ Number(out[i]) \in complete
    /\ \A i, j \in 1..Len(out) : i < j => Number(out[i]) < Number(out[j])

\* Between calls.
Between ==
    LET first == pos - data_size
    IN  /\ data_size <= Rest /\ data_size % HwAlign = 0
        /\ data_size > 0 => WholeSamples(setting) /\ first % Chan = 0
        /\ since <= first /\ Words(buffer, data_size, first)
        /\ Before(first)
        /\ Ordered
        /\ \A i \in 1..Len(out) : (Number(out[i]) + 1) * Chan <= first
        /\ Len(out) * Chan <= len
        /\ setting.lost = 0 /\ setting.silent = {} => Len(out) * Chan = len

\* What a call asks for.
Asked ==
    /\ Chan <= len /\ len % Chan = 0
    /\ WholeSamples(setting) \/ (BufferFull(setting) /\ len = Buff /\ data_size = 0)
    /\ out = <<>>
    /\ \/ read_size = Block /\ data_size <= len
       \/ read_size >= Block /\ data_size + read_size = len
       \/ read_size = 0 /\ data_size > len
    /\ data_size <= Rest /\ len <= data_size + read_size
    /\ data_size % HwAlign = 0 /\ read_size % HwAlign = 0

\* Before the first read and after it.
First(first, n) ==
    /\ since <= first /\ Words(buffer, n, first)
    /\ data_size > 0 => first % Chan = 0
    /\ Before(first)

Reading ==
    /\ Asked /\ ~check_skip /\ read_size > 0
    /\ data = data_size /\ avail_size = data_size /\ read_bytes = read_size
    /\ First(pos - avail_size, avail_size)

Digesting ==
    /\ Asked /\ ~check_skip
    /\ data = data_size /\ avail_size = data_size + read_size
    /\ First(pos - avail_size, avail_size)

\* Before the second read.
ReadingAgain ==
    LET first == pos - avail_size
    IN  /\ Asked /\ check_skip
        /\ data = avail_size /\ 0 < avail_size /\ avail_size < len
        /\ read_bytes > 0 /\ read_bytes % HwAlign = 0
        /\ len <= avail_size + read_bytes /\ avail_size + read_bytes <= Buff
        /\ avail_size + read_bytes - len <= Rest
        /\ since <= first /\ first % Chan = 0 /\ Words(buffer, avail_size, first)
        /\ Before(first)

\* The word of the device at cell i, when gap words are lost after cut of them.
Place(first, cut, gap, i) == IF i < cut THEN first + i ELSE first + i + gap

Laid(b, n, first, cut, gap) ==
    /\ cut <= n
    /\ \A i \in 0..(n - 1) : b[i] = Place(first, cut, gap, i)

\* The first n words of b are all from word first on, but for a loss.
Pieces(b, n, first, cut, gap) ==
    /\ Laid(b, n, first, cut, gap) /\ first + n + gap = pos
    /\ gap > 0 => /\ setting.lost > 0 /\ n = Buff
                  /\ since = first + cut + gap
                  /\ \A f \in Nat : first <= f * Chan /\ (f + 1) * Chan <= first + cut
                                    => f \in complete
    /\ gap = 0 => since <= first

\* After the second read.
DigestingAgain ==
    /\ Asked /\ check_skip
    /\ len <= avail_size /\ avail_size - len <= Rest /\ avail_size % HwAlign = 0
    /\ \E first \in Nat, cut \in 0..Buff, gap \in 0..(Chan - 1) :
          /\ Pieces(buffer, avail_size, first, cut, gap)
          /\ first % Chan = 0 /\ Before(first)

ArrayInv ==
    /\ ArrayTypes /\ Device
    /\ pc \in {"none", "failed", "closed", "idle", "read", "digest"}
    /\ pc \notin {"read", "digest"} => Between
    /\ pc = "read" => Reading \/ ReadingAgain
    /\ pc = "digest" => Digesting \/ DigestingAgain
-----------------------------------------------------------------------------
(* What the loops find.                                                    *)

\* A sample that skipData stops at.
Counts(b, i) == ~BadTags(b, i) /\ ~NoSound(b, i)

\* The words of a sample look like no sample themselves.
LEMMA InsideSample ==
    ASSUME NEW b, NEW i \in Nat, ~BadTags(b, i), NEW k \in 1..(Chan - 1)
    PROVE  BadTags(b, i + k)
<1>0. Chan \in Nat \ {0} BY SpeechArrayAssumption
<1>1. k \in 0..(Chan - 1) /\ 0 \in 0..(Chan - 1) /\ i + k + 0 = i + k BY <1>0
<1>2. At(b, i + k) % Chan = k
  <2> HIDE DEF At
  <2> QED BY <1>1 DEF BadTags
<1>3. At(b, i + k + 0) % Chan # 0
  <2> HIDE DEF At
  <2> QED BY <1>1, <1>2
<1> HIDE DEF At
<1> QED BY <1>1, <1>3 DEF BadTags

\* skipData drops the words before the first sample that counts, and no others.
LEMMA FirstThatCounts ==
    ASSUME NEW b, NEW n \in Nat, Chan <= n,
           NEW j \in 0..(Whole(n) - 1), Counts(b, j)
    PROVE  /\ skipData(b, n) \in 0..j /\ Counts(b, skipData(b, n))
           /\ \A i \in 0..(skipData(b, n) - 1) : ~Counts(b, i)
<1>0. Chan \in Nat \ {0} /\ Whole(n) \in Nat BY WholeIs, SpeechArrayAssumption
<1>1. PICK g : SkipLoop(b, Whole(n), 0, g) /\ skipData(b, n) = g[0] BY SkipIs
<1> DEFINE w == Whole(n)
           Finds(i) == /\ g[i] \in i..j /\ Counts(b, g[i])
                       /\ \A m \in i..(g[i] - 1) : ~Counts(b, m)
           T == {d \in 0..j : ~Finds(j - d)}
<1>2. \A i \in 0..j : g[i] = SkipFrom(b, w, g, i)
  <2>1. \A i \in 0..j : i \in 0..(Whole(n) + Chan) BY <1>0
  <2>2. \A i \in 0..(Whole(n) + Chan) : g[i] = SkipFrom(b, Whole(n), g, i)
    BY <1>1, Zenon DEF SkipLoop
  <2> QED BY <2>1, <2>2
<1> HIDE DEF w
<1>3. T = {}
  <2> SUFFICES ASSUME T # {} PROVE FALSE
    OBVIOUS
  <2>0. T \subseteq Nat OBVIOUS
  <2>1. PICK d \in T : \A y \in T : d <= y
    <3> HIDE DEF T
    <3> QED BY <2>0, LeastNumber
  <2> DEFINE i == j - d
  <2>2. d \in 0..j /\ ~Finds(i) BY <2>1
  <2>3. i \in 0..j /\ i \in Nat /\ j \in Nat /\ d = j - i BY <2>2
  <2> HIDE DEF i
  <2>4. \A m \in (i + 1)..j : Finds(m)
    <3> SUFFICES ASSUME NEW m \in (i + 1)..j PROVE Finds(m)
      OBVIOUS
    <3>1. j - m \in 0..j /\ j - m < d /\ j - (j - m) = m BY <2>3
    <3>2. j - m \notin T
      <4> HIDE DEF T
      <4> QED BY <3>1, <2>1, <2>2
    <3> HIDE DEF Finds
    <3> QED BY <3>1, <3>2
  <2>5. g[i] = SkipFrom(b, w, g, i) BY <1>2, <2>3
  <2>6. ~(i >= w) BY <2>3, <1>0 DEF w
  <2>7. CASE Counts(b, i)
    <3>1. g[i] = i BY <2>5, <2>6, <2>7 DEF SkipFrom, Counts
    <3> QED BY <3>1, <2>2, <2>3, <2>7
  <2>8. CASE ~Counts(b, i)
    <3>1. i # j BY <2>8
    <3>2. CASE BadTags(b, i)
      <4>1. g[i] = g[i + 1] BY <2>5, <2>6, <3>2 DEF SkipFrom
      <4>2. i + 1 \in (i + 1)..j BY <2>3, <3>1
      <4>3. Finds(i + 1) BY <4>2, <2>4
      <4>4. \A m \in i..(g[i] - 1) : m = i \/ m \in (i + 1)..(g[i + 1] - 1) BY <4>1, <4>3, <2>3
      <4>5. \A m \in i..(g[i] - 1) : ~Counts(b, m) BY <4>3, <4>4, <2>8
      <4>6. g[i] \in i..j /\ Counts(b, g[i])
        <5>1. g[i + 1] \in (i + 1)..j /\ Counts(b, g[i + 1]) BY <4>3
        <5> QED BY <5>1, <4>1, <2>3
      <4> QED BY <4>5, <4>6, <2>2
    <3>3. CASE ~BadTags(b, i)
      <4>1. NoSound(b, i) BY <3>3, <2>8 DEF Counts
      <4>2. g[i] = g[i + Chan] BY <2>5, <2>6, <3>3, <4>1 DEF SkipFrom
      <4>3. \A k \in 1..(Chan - 1) : ~Counts(b, i + k)
        BY <2>3, <3>3, InsideSample DEF Counts
      <4>4. \A m \in i..(i + Chan - 1) : ~Counts(b, m)
        <5> SUFFICES ASSUME NEW m \in i..(i + Chan - 1) PROVE ~Counts(b, m)
          OBVIOUS
        <5>1. CASE m = i BY <5>1, <2>8
        <5>2. CASE m # i
          <6>1. m - i \in 1..(Chan - 1) /\ i + (m - i) = m BY <5>2, <2>3, <1>0
          <6> QED BY <6>1, <4>3
        <5> QED BY <5>1, <5>2
      <4>5. i + Chan \in (i + 1)..j
        <5>1. ~(j \in i..(i + Chan - 1)) BY <4>4
        <5> QED BY <5>1, <2>3, <1>0
      <4>6. Finds(i + Chan) BY <4>5, <2>4
      <4>7. g[i + Chan] \in (i + Chan)..j /\ Counts(b, g[i + Chan]) BY <4>6
      <4>8. g[i] \in i..j /\ Counts(b, g[i]) BY <4>7, <4>2, <2>3, <1>0
      <4>9. \A m \in i..(g[i] - 1) : m \in i..(i + Chan - 1) \/ m \in (i + Chan)..(g[i + Chan] - 1)
        BY <4>2, <4>7, <2>3, <1>0
      <4>10. \A m \in i..(g[i] - 1) : ~Counts(b, m) BY <4>4, <4>6, <4>9
      <4> QED BY <4>8, <4>10, <2>2
    <3> QED BY <3>2, <3>3
  <2> QED BY <2>7, <2>8
<1>4. Finds(0)
  <2>1. j \in 0..j /\ j - j = 0 BY <1>0
  <2>2. j \notin T BY <1>3
  <2> HIDE DEF Finds
  <2> QED BY <2>1, <2>2
<1> QED BY <1>4, <1>1

\* q are samples found in the first w words of b from word i on, at words J.
Found(b, w, i, q) ==
    /\ q \in Seq([0..(Chan - 1) -> Int])
    /\ Len(q) = 0 \/ i + Len(q) * Chan < w + Chan
    /\ \E J \in [1..Len(q) -> i..(w - 1)] :
          /\ \A m \in 1..Len(q) : ~BadTags(b, J[m]) /\ q[m] = Sample(b, J[m])
          /\ \A l, m \in 1..Len(q) : l < m => J[l] + Chan <= J[m]

\* A sample in front.
LEMMA FoundBefore ==
    ASSUME NEW b \in [Cell -> Int], NEW w \in Nat, NEW i \in Nat, i < w, ~BadTags(b, i),
           NEW q, Found(b, w, i + Chan, q)
    PROVE  Found(b, w, i, <<Sample(b, i)>> \o q)
<1> DEFINE s == Sample(b, i)
           r == <<s>> \o q
           S == [0..(Chan - 1) -> Int]
           L == Len(q)
<1>0. Chan \in Nat \ {0} BY SpeechArrayAssumption
<1>1. s \in S
  <2>1. \A x : At(b, x) \in Int
    <3> SUFFICES ASSUME NEW x PROVE At(b, x) \in Int
      OBVIOUS
    <3>1. CASE x \in Cell BY <3>1 DEF At
    <3>2. CASE x \notin Cell BY <3>2 DEF At, Junk
    <3> QED BY <3>1, <3>2
  <2> QED BY <2>1 DEF Sample
<1>2. q \in Seq(S) /\ L \in Nat /\ (L = 0 \/ i + Chan + L * Chan < w + Chan) BY DEF Found
<1>3. PICK J \in [1..L -> (i + Chan)..(w - 1)] :
          /\ \A m \in 1..L : ~BadTags(b, J[m]) /\ q[m] = Sample(b, J[m])
          /\ \A l, m \in 1..L : l < m => J[l] + Chan <= J[m]
  BY DEF Found
<1> HIDE DEF s
<1>4. r \in Seq(S) /\ Len(r) = L + 1 /\ r[1] = s /\ \A m \in 2..(L + 1) : r[m] = q[m - 1]
  BY <1>1, <1>2
<1> HIDE DEF r, L, S
<1>5. i + (L + 1) * Chan < w + Chan
  <2>1. (L + 1) * Chan = L * Chan + Chan BY <1>0, <1>2
  <2>2. L * Chan \in Nat BY <1>0, <1>2
  <2>3. L = 0 => L * Chan = 0 BY <1>0
  <2> QED BY <1>0, <1>2, <2>1, <2>2, <2>3
<1> DEFINE K == [m \in 1..(L + 1) |-> IF m = 1 THEN i ELSE J[m - 1]]
<1>6. \A m \in 2..(L + 1) : m - 1 \in 1..L BY <1>2
<1>7. \A m \in 1..L : J[m] \in (i + Chan)..(w - 1) BY <1>3
<1>8. K[1] = i /\ \A m \in 2..(L + 1) : K[m] = J[m - 1] BY <1>2
<1>9. K \in [1..(L + 1) -> i..(w - 1)]
  <2> SUFFICES ASSUME NEW m \in 1..(L + 1) PROVE (IF m = 1 THEN i ELSE J[m - 1]) \in i..(w - 1)
    OBVIOUS
  <2>1. CASE m = 1 BY <2>1
  <2>2. CASE m # 1
    <3>1. J[m - 1] \in (i + Chan)..(w - 1) BY <2>2, <1>2, <1>6, <1>7
    <3> QED BY <3>1, <2>2, <1>0
  <2> QED BY <2>1, <2>2
<1> HIDE DEF K
<1>10. \A m \in 1..(L + 1) : ~BadTags(b, K[m]) /\ r[m] = Sample(b, K[m])
  <2> SUFFICES ASSUME NEW m \in 1..(L + 1) PROVE ~BadTags(b, K[m]) /\ r[m] = Sample(b, K[m])
    OBVIOUS
  <2>1. CASE m = 1 BY <2>1, <1>4, <1>8 DEF s
  <2>2. CASE m # 1
    <3>1. m \in 2..(L + 1) /\ m - 1 \in 1..L BY <2>2, <1>2
    <3> QED BY <3>1, <1>3, <1>4, <1>8
  <2> QED BY <2>1, <2>2
<1>11. \A l, m \in 1..(L + 1) : l < m => K[l] + Chan <= K[m]
  <2> SUFFICES ASSUME NEW l \in 1..(L + 1), NEW m \in 1..(L + 1), l < m
               PROVE  K[l] + Chan <= K[m]
    OBVIOUS
  <2>1. m \in 2..(L + 1) /\ m - 1 \in 1..L BY <1>2
  <2>2. K[m] = J[m - 1] /\ J[m - 1] \in (i + Chan)..(w - 1) BY <2>1, <1>7, <1>8
  <2>3. CASE l = 1 BY <2>3, <2>2, <1>8, <1>0
  <2>4. CASE l # 1
    <3>1. l \in 2..(L + 1) /\ l - 1 \in 1..L /\ l - 1 < m - 1 BY <2>4, <1>2
    <3>2. K[l] = J[l - 1] BY <3>1, <1>8
    <3>3. J[l - 1] + Chan <= J[m - 1] BY <3>1, <2>1, <1>3
    <3> QED BY <3>2, <3>3, <2>2
  <2> QED BY <2>3, <2>4
<1>12. Found(b, w, i, r) BY <1>4, <1>5, <1>9, <1>10, <1>11 DEF Found, S
<1> QED BY <1>12 DEF r, s

\* A word in front.
LEMMA FoundLater ==
    ASSUME NEW b, NEW w \in Nat, NEW i \in Nat, NEW q, Found(b, w, i + 1, q)
    PROVE  Found(b, w, i, q)
<1>0. Chan \in Nat \ {0} /\ Len(q) \in Nat BY SpeechArrayAssumption DEF Found
<1>1. PICK J \in [1..Len(q) -> (i + 1)..(w - 1)] :
          /\ \A m \in 1..Len(q) : ~BadTags(b, J[m]) /\ q[m] = Sample(b, J[m])
          /\ \A l, m \in 1..Len(q) : l < m => J[l] + Chan <= J[m]
  BY DEF Found
<1>2. J \in [1..Len(q) -> i..(w - 1)]
  <2>1. \A m \in 1..Len(q) : J[m] \in (i + 1)..(w - 1) BY <1>1
  <2>2. \A m \in 1..Len(q) : J[m] \in i..(w - 1) BY <2>1
  <2> QED BY <2>2, <1>1
<1>3. Len(q) = 0 \/ i + Len(q) * Chan < w + Chan
  <2>1. Len(q) * Chan \in Nat BY <1>0
  <2>2. Len(q) = 0 \/ i + 1 + Len(q) * Chan < w + Chan BY DEF Found
  <2> QED BY <2>1, <2>2, <1>0
<1>4. q \in Seq([0..(Chan - 1) -> Int]) BY DEF Found
<1> QED BY <1>1, <1>2, <1>3, <1>4 DEF Found

\* The samples of parseData_INT32 are groups of words with the right tags, one after
\* the other, and fit in the words they come from.
LEMMA ParseFits ==
    ASSUME NEW b \in [Cell -> Int], NEW n \in Nat, Chan <= n
    PROVE  Found(b, Whole(n), 0, parseData(b, n)) /\ Len(parseData(b, n)) * Chan <= n
<1>0. Chan \in Nat \ {0} /\ Whole(n) \in Nat /\ Whole(n) <= n BY WholeIs, SpeechArrayAssumption
<1>1. PICK g : ParseLoop(b, Whole(n), 0, g) /\ parseData(b, n) = g[0] BY ParseIs
<1> DEFINE w == Whole(n)
           N == w + Chan
           T == {d \in 0..N : ~Found(b, w, N - d, g[N - d])}
<1>2. \A i \in 0..N : g[i] = ParseFrom(b, w, g, i)
  BY <1>1, Zenon DEF ParseLoop
<1>w. w \in Nat /\ N \in Nat BY <1>0
<1> HIDE DEF w
<1>3. T = {}
  <2> SUFFICES ASSUME T # {} PROVE FALSE
    OBVIOUS
  <2>0. T \subseteq Nat BY <1>w, <1>0
  <2>1. PICK d \in T : \A y \in T : d <= y
    <3> HIDE DEF T
    <3> QED BY <2>0, LeastNumber
  <2> DEFINE i == N - d
  <2>2. d \in 0..N /\ ~Found(b, w, i, g[i]) BY <2>1
  <2>3. i \in 0..N /\ i \in Nat /\ d = N - i BY <2>2, <1>w
  <2>4. \A m \in (i + 1)..N : Found(b, w, m, g[m])
    <3> SUFFICES ASSUME NEW m \in (i + 1)..N PROVE Found(b, w, m, g[m])
      OBVIOUS
    <3>1. N - m \in 0..N /\ N - m < d /\ N - (N - m) = m BY <2>3, <1>w
    <3>2. N - m \notin T
      <4> HIDE DEF T, i
      <4> QED BY <3>1, <2>1, <2>2
    <3> HIDE DEF i
    <3> QED BY <3>1, <3>2
  <2> HIDE DEF i
  <2>5. g[i] = ParseFrom(b, w, g, i) BY <1>2, <2>3
  <2>6. CASE i >= w
    <3>1. g[i] = <<>> BY <2>5, <2>6 DEF ParseFrom
    <3>2. Found(b, w, i, <<>>)
      <4> DEFINE none == [m \in 1..0 |-> i]
      <4>1. none \in [1..0 -> i..(w - 1)] OBVIOUS
      <4>2. Len(<<>>) = 0 /\ <<>> \in Seq([0..(Chan - 1) -> Int]) OBVIOUS
      <4>3. \A m \in 1..0 : FALSE OBVIOUS
      <4> HIDE DEF none
      <4> QED BY <4>1, <4>2, <4>3 DEF Found
    <3> QED BY <3>1, <3>2, <2>2
  <2>7. CASE i < w /\ BadTags(b, i)
    <3>1. g[i] = g[i + 1] BY <2>5, <2>7, <2>3, <1>w DEF ParseFrom
    <3>2. i + 1 \in (i + 1)..N BY <2>3, <2>7, <1>w, <1>0
    <3>3. Found(b, w, i + 1, g[i]) BY <3>1, <3>2, <2>4
    <3>4. Found(b, w, i, g[i]) BY <3>3, <2>3, <1>w, FoundLater
    <3> QED BY <3>4, <2>2
  <2>8. CASE i < w /\ ~BadTags(b, i)
    <3>a. ~(i >= w) BY <2>8, <2>3, <1>w
    <3>1. g[i] = <<Sample(b, i)>> \o g[i + Chan] BY <2>5, <2>8, <3>a, Zenon DEF ParseFrom
    <3>2. i + Chan \in (i + 1)..N BY <2>3, <2>8, <1>w, <1>0
    <3>3. Found(b, w, i + Chan, g[i + Chan]) BY <3>2, <2>4
    <3>4. Found(b, w, i, <<Sample(b, i)>> \o g[i + Chan])
      BY <3>3, FoundBefore, <2>3, <2>8, <1>w
    <3> QED BY <3>1, <3>4, <2>2
  <2> QED BY <2>6, <2>7, <2>8, <2>3, <1>w
<1>4. Found(b, w, 0, parseData(b, n))
  <2>1. N \in 0..N /\ N - N = 0 BY <1>w
  <2>2. N \notin T BY <1>3
  <2>3. Found(b, w, N - N, g[N - N]) BY <2>1, <2>2
  <2> QED BY <2>1, <2>3, <1>1
<1>5. Len(parseData(b, n)) * Chan <= n
  <2> DEFINE L == Len(parseData(b, n))
  <2>1. L \in Nat /\ (L = 0 \/ 0 + L * Chan < w + Chan) BY <1>4 DEF Found
  <2> HIDE DEF L
  <2>2. CASE L = 0
    <3>1. L * Chan = 0 BY <2>2, <1>0
    <3> QED BY <3>1 DEF L
  <2>3. CASE L # 0
    <3>1. L * Chan < w + Chan /\ w % Chan = 0 BY <2>1, <2>3, WholeIs, <1>0 DEF w
    <3>2. PICK k \in Nat : w = Chan * k BY <3>1, <1>w, <1>0, Multiple
    <3>3. L <= k
      <4>1. CASE L > k
        <5>1. L - k \in Nat \ {0} /\ Chan * (L - k) >= Chan BY <4>1, <2>1, <1>0
        <5>2. Chan * (L - k) = L * Chan - Chan * k BY <2>1, <1>0
        <5>3. L * Chan \in Nat BY <2>1, <1>0
        <5> QED BY <5>1, <5>2, <5>3, <3>1, <3>2, <1>w, <1>0
      <4> QED BY <4>1, <2>1
    <3>4. L * Chan <= Chan * k
      <4>1. Chan * (k - L) \in Nat /\ Chan * (k - L) = Chan * k - L * Chan BY <3>3, <2>1, <1>0
      <4> QED BY <4>1, <2>1, <1>0
    <3>5. L * Chan <= n BY <3>4, <3>2, <1>0, <2>1 DEF w
    <3> QED BY <3>5 DEF L
  <2> QED BY <2>2, <2>3
<1> QED BY <1>4, <1>5 DEF w

\* Read from place i the words are v, v + 1, ... for a sample's length.
CountsUp(b, i, v) == \A k \in 0..(Chan - 1) : At(b, i + k) = v + k

\* So are the words of the device.
LEMMA WordsAt ==
    ASSUME NEW b, NEW n \in Nat, n <= Buff, NEW first \in Nat, Words(b, n, first),
           NEW i \in Nat, i + Chan <= n
    PROVE  CountsUp(b, i, first + i)
<1>0. Chan \in Nat \ {0} /\ Buff \in Nat BY SpeechArrayAssumption
<1> SUFFICES ASSUME NEW k \in 0..(Chan - 1) PROVE At(b, i + k) = first + i + k
  BY DEF CountsUp
<1>1. i + k \in 0..(n - 1) /\ i + k \in Cell BY <1>0 DEF Cell
<1>2. b[i + k] = first + (i + k) BY <1>1 DEF Words
<1> QED BY <1>1, <1>2 DEF At

\* They have the right tags where a sample begins and nowhere else.
LEMMA TagsOfWords ==
    ASSUME NEW b, NEW n \in Nat, n <= Buff, NEW first \in Nat, Words(b, n, first),
           NEW i \in Nat, i + Chan <= n
    PROVE  BadTags(b, i) <=> (first + i) % Chan # 0
<1>0. Chan \in Nat \ {0} /\ Buff \in Nat BY SpeechArrayAssumption
<1>a. CountsUp(b, i, first + i) BY WordsAt
<1>1. \A k \in 0..(Chan - 1) : At(b, i + k) = first + i + k
  BY <1>a DEF CountsUp
<1>2. ASSUME (first + i) % Chan = 0 PROVE ~BadTags(b, i)
  <2>1. \A k \in 0..(Chan - 1) : ((first + i) + k) % Chan = k
    <3> SUFFICES ASSUME NEW k \in 0..(Chan - 1) PROVE ((first + i) + k) % Chan = k
      OBVIOUS
    <3>1. PICK a \in Nat : a = first + i OBVIOUS
    <3>2. a % Chan = 0 BY <1>2, <3>1
    <3>3. PICK q \in Nat : a = Chan * q BY <1>0, <3>2, Multiple
    <3>4. (Chan * q + k) % Chan = k BY <1>0, ModUnique
    <3> QED BY <3>1, <3>3, <3>4
  <2>2. \A k \in 0..(Chan - 1) : At(b, i + k) >= 0 BY <1>1, <1>0
  <2>3. \A k \in 0..(Chan - 1) : At(b, i + k) % Chan = k BY <1>1, <2>1
  <2>4. \A k \in 0..(Chan - 1) : ~(At(b, i + k) < 0)
    <3> SUFFICES ASSUME NEW k \in 0..(Chan - 1) PROVE ~(At(b, i + k) < 0)
      OBVIOUS
    <3>1. At(b, i + k) = first + i + k BY <1>1
    <3> HIDE DEF At
    <3> QED BY <3>1, <1>0
  <2> HIDE DEF At
  <2> QED BY <2>3, <2>4 DEF BadTags
<1>3. ASSUME (first + i) % Chan # 0 PROVE BadTags(b, i)
  <2>1. 0 \in 0..(Chan - 1) BY <1>0
  <2>2. At(b, i + 0) = first + i + 0 BY <1>1, <2>1
  <2>3. At(b, i + 0) % Chan # 0
    <3>1. first + i + 0 = first + i OBVIOUS
    <3> HIDE DEF At
    <3> QED BY <1>3, <2>2, <3>1
  <2> HIDE DEF At
  <2> QED BY <2>1, <2>3 DEF BadTags
<1> QED BY <1>2, <1>3

\* Of whole samples in a row parseData_INT32 returns every one.
LEMMA ParseWhole ==
    ASSUME NEW b, NEW n \in Nat, Chan <= n, n <= Buff, n % Chan = 0,
           NEW first \in Nat, first % Chan = 0, Words(b, n, first)
    PROVE  /\ Len(parseData(b, n)) * Chan = n
           /\ \A m \in 1..Len(parseData(b, n)) :
                 parseData(b, n)[m] = [k \in 0..(Chan - 1) |-> first + (m - 1) * Chan + k]
<1>0. Chan \in Nat \ {0} /\ Buff \in Nat BY SpeechArrayAssumption
<1>1. PICK g : ParseLoop(b, Whole(n), 0, g) /\ parseData(b, n) = g[0] BY ParseIs
<1>2. Whole(n) = n BY <1>0 DEF Whole
<1>3. \A i \in 0..(n + Chan) : g[i] = ParseFrom(b, n, g, i)
  <2> HIDE DEF Whole
  <2> QED BY <1>1, <1>2, Zenon DEF ParseLoop
<1>4. PICK N \in Nat : n = Chan * N BY <1>0, Multiple
<1> DEFINE Smp(c) == [k \in 0..(Chan - 1) |-> first + c * Chan + k]
           All(c) == /\ g[c * Chan] \in Seq([0..(Chan - 1) -> Int])
                     /\ Len(g[c * Chan]) = N - c
                     /\ \A m \in 1..(N - c) : g[c * Chan][m] = Smp(c + (m - 1))
           T == {d \in 0..N : ~All(N - d)}
<1>5. \A c \in 0..N :
          c * Chan \in 0..n /\ (c < N => c * Chan + Chan <= n /\ (c + 1) * Chan = c * Chan + Chan)
  <2> SUFFICES ASSUME NEW c \in 0..N
               PROVE  c * Chan \in 0..n
                      /\ (c < N => c * Chan + Chan <= n /\ (c + 1) * Chan = c * Chan + Chan)
    OBVIOUS
  <2>1. Chan * (N - c) \in Nat /\ Chan * (N - c) = n - c * Chan /\ c * Chan \in Nat BY <1>0, <1>4
  <2>2. c < N => Chan * (N - c) >= Chan
    <3>1. c < N => N - c \in Nat \ {0} OBVIOUS
    <3> QED BY <3>1, <1>0
  <2>3. (c + 1) * Chan = c * Chan + Chan BY <1>0
  <2> QED BY <2>1, <2>2, <2>3, <1>0
<1>6. \A c \in 0..N : c < N => g[c * Chan] = <<Smp(c)>> \o g[(c + 1) * Chan]
  <2> SUFFICES ASSUME NEW c \in 0..N, c < N PROVE g[c * Chan] = <<Smp(c)>> \o g[(c + 1) * Chan]
    OBVIOUS
  <2>1. PICK i \in Nat : i = c * Chan BY <1>0
  <2>2. i + Chan <= n /\ (c + 1) * Chan = i + Chan /\ i < n BY <1>5, <2>1, <1>0
  <2>3. i % Chan = 0
    <3>1. \E q \in Nat : i = Chan * q
      <4>1. i = Chan * c BY <2>1, <1>0
      <4> QED BY <4>1
    <3> QED BY <3>1, <1>0, Multiple
  <2>4. (first + i) % Chan = 0 BY <2>3, <1>0, MultipleSum
  <2>5. ~BadTags(b, i) /\ \A k \in 0..(Chan - 1) : At(b, i + k) = first + i + k
    <3>1. i + Chan <= n BY <2>2
    <3>2. CountsUp(b, i, first + i) BY <3>1, WordsAt
    <3>3. BadTags(b, i) <=> (first + i) % Chan # 0 BY <3>1, TagsOfWords
    <3> QED BY <3>2, <3>3, <2>4, Zenon DEF CountsUp
  <2>6. Sample(b, i) = Smp(c) BY <2>5, <2>1 DEF Sample
  <2>7. g[i] = ParseFrom(b, n, g, i) BY <1>3, <2>2, <1>0
  <2>8. g[i] = <<Sample(b, i)>> \o g[i + Chan]
    <3> HIDE DEF Smp
    <3> QED BY <2>7, <2>5, <2>2 DEF ParseFrom
  <2> HIDE DEF Smp
  <2> QED BY <2>8, <2>6, <2>1, <2>2
<1>7. g[N * Chan] = <<>>
  <2>1. N * Chan = n /\ n \in 0..(n + Chan) BY <1>4, <1>0
  <2>2. g[n] = ParseFrom(b, n, g, n) BY <1>3, <2>1
  <2> QED BY <2>1, <2>2 DEF ParseFrom
<1>8. \A c : c \in 0..N => Smp(c) \in [0..(Chan - 1) -> Int]
  <2> SUFFICES ASSUME NEW c \in 0..N PROVE Smp(c) \in [0..(Chan - 1) -> Int]
    OBVIOUS
  <2>1. c * Chan \in Int BY <1>0
  <2> QED BY <2>1, <1>0
<1> HIDE DEF Smp
<1>9. T = {}
  <2> SUFFICES ASSUME T # {} PROVE FALSE
    OBVIOUS
  <2>0. T \subseteq Nat BY <1>4
  <2>1. PICK d \in T : \A y \in T : d <= y
    <3> HIDE DEF T
    <3> QED BY <2>0, LeastNumber
  <2> DEFINE c == N - d
  <2>2. d \in 0..N /\ ~All(c) BY <2>1
  <2>3. c \in 0..N /\ d = N - c BY <2>2, <1>4
  <2> HIDE DEF c
  <2>4. CASE c = N
    <3>1. g[c * Chan] = <<>> BY <1>7, <2>4
    <3>2. All(c) BY <3>1, <2>4
    <3> QED BY <3>2, <2>2
  <2>5. CASE c # N
    <3>1. c < N /\ N - (c + 1) \in 0..N /\ N - (c + 1) < d /\ N - (N - (c + 1)) = c + 1
      BY <2>3, <2>5, <1>4
    <3>2. N - (c + 1) \notin T
      <4> HIDE DEF T
      <4> QED BY <3>1, <2>1, <2>2
    <3>3. All(c + 1)
      <4> HIDE DEF All
      <4> QED BY <3>1, <3>2
    <3>4. g[c * Chan] = <<Smp(c)>> \o g[(c + 1) * Chan] BY <1>6, <2>3, <3>1
    <3>5. PICK q : q = g[(c + 1) * Chan] OBVIOUS
    <3>6. q \in Seq([0..(Chan - 1) -> Int]) /\ Len(q) = N - (c + 1)
          /\ \A m \in 1..(N - (c + 1)) : q[m] = Smp(c + 1 + (m - 1))
      BY <3>3, <3>5
    <3>7. PICK s : s = Smp(c) /\ s \in [0..(Chan - 1) -> Int] BY <1>8, <2>3
    <3>8. PICK r : r = <<s>> \o q OBVIOUS
    <3>9. r \in Seq([0..(Chan - 1) -> Int]) /\ Len(r) = N - c
          /\ r[1] = s /\ \A m \in 2..(N - c) : r[m] = q[m - 1]
      BY <3>6, <3>7, <3>8, <2>3
    <3>10. \A m \in 1..(N - c) : r[m] = Smp(c + (m - 1))
      <4> SUFFICES ASSUME NEW m \in 1..(N - c) PROVE r[m] = Smp(c + (m - 1))
        OBVIOUS
      <4>1. CASE m = 1
        <5>1. c + (m - 1) = c BY <4>1, <2>3
        <5> QED BY <4>1, <5>1, <3>7, <3>9
      <4>2. CASE m # 1
        <5>1. m - 1 \in 1..(N - (c + 1)) /\ m \in 2..(N - c) /\ c + 1 + (m - 1 - 1) = c + (m - 1)
          BY <4>2, <2>3, <1>4
        <5>2. r[m] = q[m - 1] BY <5>1, <3>9
        <5>3. q[m - 1] = Smp(c + 1 + (m - 1 - 1)) BY <5>1, <3>6
        <5> QED BY <5>1, <5>2, <5>3
      <4> QED BY <4>1, <4>2
    <3>11. g[c * Chan] = r BY <3>4, <3>5, <3>7, <3>8
    <3>12. All(c) BY <3>9, <3>10, <3>11
    <3> QED BY <3>12, <2>2
  <2> QED BY <2>4, <2>5
<1>10. All(0)
  <2>1. N \in 0..N /\ N - N = 0 BY <1>4
  <2>2. N \notin T BY <1>9
  <2> HIDE DEF All
  <2> QED BY <2>1, <2>2
<1>11. 0 * Chan = 0 /\ N - 0 = N BY <1>0
<1>12. Len(g[0]) = N /\ \A m \in 1..N : g[0][m] = Smp(m - 1)
  <2>1. \A m \in 1..N : 0 + (m - 1) = m - 1 OBVIOUS
  <2> QED BY <1>10, <1>11, <2>1
<1>13. Len(parseData(b, n)) = N /\ \A m \in 1..N : parseData(b, n)[m] = Smp(m - 1) BY <1>1, <1>12
<1>14. N * Chan = n BY <1>4, <1>0
<1> QED BY <1>13, <1>14 DEF Smp
-----------------------------------------------------------------------------
(* The samples of a call.                                                  *)

\* Sizes in frames, samples and blocks.
LEMMA SizesAre ==
    ASSUME Sizes
    PROVE  /\ Chan \in Nat \ {0} /\ HwAlign \in Nat \ {0} /\ Buff \in Nat \ {0}
           /\ Block \in Nat \ {0} /\ Rest \in Nat
           /\ 2 * Chan <= Block /\ Block <= Rest /\ Rest + Block = Buff
           /\ HwAlign <= Chan /\ Buff % Chan = 0 /\ Chan % HwAlign = 0
           /\ Block % HwAlign = 0 /\ Buff % HwAlign = 0 /\ Rest % HwAlign = 0
<1>1. /\ Chan \in Nat \ {0} /\ HwAlign \in Nat \ {0} /\ Buff \in Nat \ {0}
      /\ Block % HwAlign = 0 /\ Buff % Chan = 0 /\ Chan % HwAlign = 0 /\ 4 * Chan <= Buff
  BY SpeechArrayAssumption DEF Sizes
<1>2. Block \in Nat \ {0} /\ Rest \in Nat /\ 2 * Chan <= Block /\ Block <= Rest
      /\ Rest + Block = Buff
  BY <1>1 DEF Block, HW_BUFFER_COUNT, Rest
<1> HIDE DEF Block, Rest
<1>3. HwAlign <= Chan
  <2>1. 0 % HwAlign = 0 BY <1>1
  <2>2. 0 + HwAlign <= Chan BY <2>1, <1>1, MultiplesApart
  <2> QED BY <2>2, <1>1
<1>4. Buff % HwAlign = 0 BY <1>1, MultipleOf
<1>5. Rest % HwAlign = 0
  <2>1. Rest = Buff - Block /\ Block <= Buff BY <1>1, <1>2
  <2>2. (Buff - Block) % HwAlign = 0
    <3>1. Buff \in Nat /\ Block \in Nat BY <1>1, <1>2
    <3> QED BY <3>1, <2>1, <1>1, <1>4, MultipleDifference
  <2> QED BY <2>1, <2>2
<1> QED BY <1>1, <1>2, <1>3, <1>4, <1>5

\* Products keep the order.
LEMMA ProductLess ==
    ASSUME NEW b \in Nat \ {0}, NEW x \in Int, NEW y \in Int
    PROVE  (x * b < y * b <=> x < y) /\ (x * b <= y * b <=> x <= y)
           /\ (x + 1) * b = x * b + b
<1>1. ASSUME x < y PROVE x * b < y * b
  <2>1. y - x \in Nat \ {0} /\ (y - x) * b >= b BY <1>1
  <2>2. (y - x) * b = y * b - x * b OBVIOUS
  <2>3. y * b \in Int /\ x * b \in Int OBVIOUS
  <2> QED BY <2>1, <2>2, <2>3
<1>2. ASSUME y < x PROVE y * b < x * b
  <2>1. x - y \in Nat \ {0} /\ (x - y) * b >= b BY <1>2
  <2>2. (x - y) * b = x * b - y * b OBVIOUS
  <2>3. y * b \in Int /\ x * b \in Int OBVIOUS
  <2> QED BY <2>1, <2>2, <2>3
<1>3. x * b \in Int /\ y * b \in Int /\ (x + 1) * b = x * b + b OBVIOUS
<1>4. x = y => x * b = y * b OBVIOUS
<1> QED BY <1>1, <1>2, <1>3, <1>4

\* Sample v begins in cell j.
SampleAt(b, j, v) ==
    v \in Nat /\ v % Chan = 0 /\ \A k \in 0..(Chan - 1) : At(b, j + k) = v + k

\* Where the tags are right in words with a gap, there is a sample, on one side of
\* the gap: a gap is less than a sample, so the tags after it tell.
LEMMA OneSide ==
    ASSUME Sizes, NEW b, NEW n \in Nat, NEW size \in Nat, NEW first \in Nat,
           NEW cut \in Nat, NEW gap \in 0..(Chan - 1), NEW j \in Nat,
           first % Chan = 0, size % Chan = 0, size <= n, n <= Buff,
           Laid(b, n, first, cut, gap),
           gap > 0 => n = Buff /\ size = Buff,
           j < size, ~BadTags(b, j)
    PROVE  /\ j + Chan <= size
           /\ gap > 0 /\ j < cut => j + Chan <= cut
           /\ SampleAt(b, j, Place(first, cut, gap, j))
<1>0. Chan \in Nat \ {0} /\ Buff \in Nat /\ cut <= n BY SizesAre DEF Laid
<1>1. \A i \in 0..(n - 1) : At(b, i) = IF i < cut THEN first + i ELSE first + i + gap
  <2>1. \A i \in 0..(n - 1) : i \in Cell BY <1>0 DEF Cell
  <2> QED BY <2>1 DEF At, Laid, Place
<1>2. \A k \in 0..(Chan - 1) : ~(At(b, j + k) < 0) /\ At(b, j + k) % Chan = k
  <2> HIDE DEF At
  <2> QED BY DEF BadTags
<1>3. j \in 0..(n - 1) /\ 0 \in 0..(Chan - 1) /\ j + 0 = j BY <1>0
<1>4. At(b, j) % Chan = 0 BY <1>2, <1>3
<1> USE DEF SampleAt, Place
<1>5. CASE gap = 0
  <2>1. \A i \in 0..(n - 1) : At(b, i) = first + i BY <1>1, <1>5
  <2>2. (first + j) % Chan = 0 BY <2>1, <1>3, <1>4
  <2>3. j % Chan = 0
    <3>1. first + j \in Nat /\ first <= first + j /\ first + j - first = j OBVIOUS
    <3>2. PICK x \in Nat : x = first + j BY <3>1
    <3>3. x % Chan = 0 /\ first <= x BY <3>1, <3>2, <2>2
    <3>4. (x - first) % Chan = 0 BY <3>3, <1>0, MultipleDifference
    <3> QED BY <3>1, <3>2, <3>4
  <2>4. j + Chan <= size BY <2>3, <1>0, MultiplesApart
  <2>5. \A k \in 0..(Chan - 1) : At(b, j + k) = first + j + k
    <3> SUFFICES ASSUME NEW k \in 0..(Chan - 1) PROVE At(b, j + k) = first + j + k
      OBVIOUS
    <3>1. j + k \in 0..(n - 1) BY <2>4, <1>0
    <3>2. At(b, j + k) = first + (j + k) BY <3>1, <2>1
    <3> HIDE DEF At
    <3> QED BY <3>2
  <2>6. first + j \in Nat /\ first + j + gap = first + j BY <1>5
  <2> QED BY <2>2, <2>4, <2>5, <2>6, <1>5
<1>6. CASE gap > 0
  <2>1. n = Buff /\ size = Buff BY <1>6
  <2>2. Chan - 1 \in 0..(Chan - 1) /\ Chan - 1 \in Nat BY <1>0
  <2>3. j + Chan <= Buff
    <3>1. CASE j + (Chan - 1) >= Buff
      <4>1. At(b, j + (Chan - 1)) = -1 BY <3>1, <1>0 DEF At, Cell, Junk
      <4> HIDE DEF At
      <4> QED BY <4>1, <2>2, <1>2
    <3> QED BY <3>1, <1>0
  <2>4. \A k \in 0..(Chan - 1) : j + k \in 0..(n - 1) BY <2>3, <2>1, <1>0
  <2>5. CASE j >= cut
    <3>1. \A k \in 0..(Chan - 1) : At(b, j + k) = first + j + gap + k
      <4> SUFFICES ASSUME NEW k \in 0..(Chan - 1) PROVE At(b, j + k) = first + j + gap + k
        OBVIOUS
      <4>1. j + k \in 0..(n - 1) /\ ~(j + k < cut) BY <2>4, <2>5
      <4>2. At(b, j + k) = first + (j + k) + gap BY <4>1, <1>1
      <4> HIDE DEF At
      <4> QED BY <4>2
    <3>2. At(b, j) = first + j + gap BY <1>1, <1>3, <2>5
    <3>3. (first + j + gap) % Chan = 0 BY <3>2, <1>4
    <3>4. ~(j < cut) /\ first + j + gap \in Nat BY <2>5
    <3> HIDE DEF At
    <3> QED BY <3>1, <3>3, <3>4, <2>3, <2>1
  <2>6. CASE j < cut
    <3>1. At(b, j) = first + j BY <1>1, <1>3, <2>6
    <3>2. (first + j) % Chan = 0 BY <3>1, <1>4
    <3>3. j + Chan <= cut
      <4>1. CASE j + (Chan - 1) >= cut
        <5>1. At(b, j + (Chan - 1)) = first + (j + (Chan - 1)) + gap
          <6>1. j + (Chan - 1) \in 0..(n - 1) /\ ~(j + (Chan - 1) < cut) BY <2>4, <2>2, <4>1
          <6> QED BY <6>1, <1>1
        <5>2. PICK x \in Nat : x = first + j OBVIOUS
        <5>3. x % Chan = 0 /\ Chan % Chan = 0 /\ Chan \in Nat BY <5>2, <3>2, <1>0
        <5>4. (x + Chan) % Chan = 0 BY <5>3, <1>0, MultipleSum
        <5>5. gap - 1 \in 0..(Chan - 1) /\ x + Chan \in Nat BY <1>6, <1>0
        <5>6. ((x + Chan) + (gap - 1)) % Chan = gap - 1 BY <5>4, <5>5, <1>0, After
        <5>7. (x + Chan) + (gap - 1) = first + (j + (Chan - 1)) + gap BY <5>2, <1>0
        <5>8. At(b, j + (Chan - 1)) % Chan = Chan - 1 BY <1>2, <2>2
        <5>9. gap - 1 = Chan - 1
          <6> HIDE DEF At
          <6> QED BY <5>1, <5>6, <5>7, <5>8
        <5> QED BY <5>9, <1>0
      <4> QED BY <4>1, <1>0
    <3>4. \A k \in 0..(Chan - 1) : At(b, j + k) = first + j + k
      <4> SUFFICES ASSUME NEW k \in 0..(Chan - 1) PROVE At(b, j + k) = first + j + k
        OBVIOUS
      <4>1. j + k \in 0..(n - 1) /\ j + k < cut BY <2>4, <3>3, <1>0
      <4>2. At(b, j + k) = first + (j + k) BY <4>1, <1>1
      <4> HIDE DEF At
      <4> QED BY <4>2
    <3> HIDE DEF At
    <3>5. first + j \in Nat OBVIOUS
    <3> QED BY <3>2, <3>3, <3>4, <3>5, <2>3, <2>1, <2>6
  <2> QED BY <2>5, <2>6
<1> QED BY <1>5, <1>6

\* Samples q of the words before end, the ones out so far behind them.
SamplesBefore(q, end) ==
    /\ q \in Seq([0..(Chan - 1) -> Int]) /\ Len(q) * Chan <= len
    /\ \A m \in 1..Len(q) :
          /\ Number(q[m]) \in Int
          /\ \A k \in 0..(Chan - 1) : q[m][k] = Number(q[m]) * Chan + k
          /\ Number(q[m]) > last /\ Number(q[m]) \in complete
          /\ (Number(q[m]) + 1) * Chan <= end
    /\ \A l, m \in 1..Len(q) : l < m => Number(q[l]) < Number(q[m])

\* What is returned of pieces of the device's words.
LEMMA Returned ==
    ASSUME Sizes, ArrayTypes, Device, NEW b \in [Cell -> Int],
           NEW n \in Nat, NEW first \in Nat, NEW cut \in Nat, NEW gap \in 0..(Chan - 1),
           Chan <= len, len % Chan = 0, len <= n, n <= Buff, gap > 0 => len = Buff,
           first % Chan = 0, Pieces(b, n, first, cut, gap), Before(first),
           NEW q, q = parseData(b, len)
    PROVE  SamplesBefore(q, first + gap + len)
<1>0. /\ Chan \in Nat \ {0} /\ Buff \in Nat /\ len \in Nat /\ pos \in Nat /\ since \in Nat
      /\ last \in Int /\ (last + 1) * Chan <= first /\ first + n + gap = pos /\ cut <= n
  BY SizesAre DEF ArrayTypes, Device, Pieces, Laid, Before
<1>1. Whole(len) = len BY <1>0 DEF Whole
<1>2. Found(b, len, 0, q) /\ Len(q) * Chan <= len BY <1>0, <1>1, ParseFits
<1>3. q \in Seq([0..(Chan - 1) -> Int]) BY <1>2 DEF Found
<1>4. PICK J \in [1..Len(q) -> 0..(len - 1)] :
          /\ \A m \in 1..Len(q) : ~BadTags(b, J[m]) /\ q[m] = Sample(b, J[m])
          /\ \A l, m \in 1..Len(q) : l < m => J[l] + Chan <= J[m]
  BY <1>2 DEF Found
<1> DEFINE V(j) == Place(first, cut, gap, j)
<1>5. \A m \in 1..Len(q) :
          /\ J[m] + Chan <= len /\ (gap > 0 /\ J[m] < cut => J[m] + Chan <= cut)
          /\ V(J[m]) \in Nat /\ V(J[m]) % Chan = 0
          /\ \A k \in 0..(Chan - 1) : At(b, J[m] + k) = V(J[m]) + k
  <2> SUFFICES ASSUME NEW m \in 1..Len(q)
               PROVE  /\ J[m] + Chan <= len /\ (gap > 0 /\ J[m] < cut => J[m] + Chan <= cut)
                      /\ V(J[m]) \in Nat /\ V(J[m]) % Chan = 0
                      /\ \A k \in 0..(Chan - 1) : At(b, J[m] + k) = V(J[m]) + k
    OBVIOUS
  <2>1. PICK j \in Nat : j = J[m] /\ j < len /\ ~BadTags(b, j)
    <3>1. J[m] \in 0..(len - 1) /\ ~BadTags(b, J[m]) BY <1>4
    <3> QED BY <3>1, <1>0
  <2>2. Laid(b, n, first, cut, gap) BY DEF Pieces
  <2>3. PICK size \in Nat : size = len BY <1>0
  <2>4. gap > 0 => n = Buff /\ size = Buff BY <2>3 DEF Pieces
  <2>5. size % Chan = 0 /\ size <= n /\ j < size BY <2>1, <2>3, <1>0
  <2>6. ~BadTags(b, j) BY <2>1
  <2>7. /\ j + Chan <= size /\ (gap > 0 /\ j < cut => j + Chan <= cut)
        /\ SampleAt(b, j, V(j))
    <3>1. /\ j + Chan <= size /\ (gap > 0 /\ j < cut => j + Chan <= cut)
          /\ SampleAt(b, j, Place(first, cut, gap, j))
      <4> HIDE DEF V
      <4> QED BY <2>2, <2>4, <2>5, <2>6, OneSide
    <3> QED BY <3>1
  <2> HIDE DEF At, V
  <2> QED BY <2>1, <2>3, <2>7 DEF SampleAt
<1>6. \A m \in 1..Len(q) :
          /\ Number(q[m]) \in Nat /\ Number(q[m]) * Chan = V(J[m])
          /\ \A k \in 0..(Chan - 1) : q[m][k] = V(J[m]) + k
  <2> SUFFICES ASSUME NEW m \in 1..Len(q)
               PROVE  /\ Number(q[m]) \in Nat /\ Number(q[m]) * Chan = V(J[m])
                      /\ \A k \in 0..(Chan - 1) : q[m][k] = V(J[m]) + k
    OBVIOUS
  <2> HIDE DEF V
  <2>1. \A k \in 0..(Chan - 1) : q[m][k] = V(J[m]) + k
    <3> HIDE DEF At
    <3> SUFFICES ASSUME NEW k \in 0..(Chan - 1) PROVE q[m][k] = V(J[m]) + k
      OBVIOUS
    <3>1. q[m] = Sample(b, J[m]) BY <1>4
    <3>2. Sample(b, J[m])[k] = At(b, J[m] + k) BY Zenon DEF Sample
    <3>3. At(b, J[m] + k) = V(J[m]) + k BY <1>5
    <3> QED BY <3>1, <3>2, <3>3
  <2>2. PICK v \in Nat : v = V(J[m]) /\ v % Chan = 0 BY <1>5
  <2>3. 0 \in 0..(Chan - 1) BY <1>0
  <2>4. q[m][0] = v BY <2>1, <2>2, <2>3
  <2>5. (v \div Chan) * Chan = v /\ v \div Chan \in Nat
    <3>1. PICK c \in Nat : v = Chan * c BY <2>2, <1>0, Multiple
    <3>2. (Chan * c + 0) \div Chan = c BY <2>3, <1>0, ModUnique
    <3>3. v \div Chan = c /\ c * Chan = v BY <3>1, <3>2, <1>0
    <3> QED BY <3>3
  <2>6. Number(q[m]) = v \div Chan BY <2>4 DEF Number
  <2> QED BY <2>1, <2>2, <2>5, <2>6
<1>7. \A m \in 1..Len(q) : J[m] \in 0..(len - 1) BY <1>4
<1>8. \A m \in 1..Len(q) : first <= V(J[m]) /\ V(J[m]) + Chan <= first + gap + len
  <2> SUFFICES ASSUME NEW m \in 1..Len(q)
               PROVE  first <= V(J[m]) /\ V(J[m]) + Chan <= first + gap + len
    OBVIOUS
  <2>1. PICK j \in Nat : j = J[m] BY <1>7, <1>0
  <2>2. j + Chan <= len BY <2>1, <1>5
  <2>3. first <= V(j) /\ V(j) + Chan <= first + gap + len BY <2>2, <1>0 DEF Place
  <2> QED BY <2>1, <2>3
<1>9. \A l, m \in 1..Len(q) : l < m => V(J[l]) < V(J[m])
  <2> SUFFICES ASSUME NEW l \in 1..Len(q), NEW m \in 1..Len(q), l < m PROVE V(J[l]) < V(J[m])
    OBVIOUS
  <2>1. J[l] + Chan <= J[m] BY <1>4
  <2> QED BY <2>1, <1>7, <1>0 DEF Place
<1>10. \A m \in 1..Len(q) : Number(q[m]) \in complete
  <2> SUFFICES ASSUME NEW m \in 1..Len(q) PROVE Number(q[m]) \in complete
    OBVIOUS
  <2>1. PICK f \in Nat : f = Number(q[m]) /\ f * Chan = V(J[m]) BY <1>6
  <2>2. (f + 1) * Chan = V(J[m]) + Chan BY <2>1, <1>0, ProductLess
  <2>3. PICK j \in Nat : j = J[m] BY <1>7, <1>0
  <2>4. j + Chan <= len /\ (gap > 0 /\ j < cut => j + Chan <= cut) BY <2>3, <1>5
  <2>5. CASE gap = 0
    <3>1. since <= first BY <2>5 DEF Pieces
    <3>2. f * Chan = first + j /\ (f + 1) * Chan = first + j + Chan BY <2>1, <2>2, <2>3, <2>5 DEF Place
    <3>3. since <= f * Chan /\ (f + 1) * Chan <= pos BY <3>1, <3>2, <2>4, <2>5, <1>0
    <3> QED BY <3>3, <2>1 DEF Device
  <2>6. CASE gap > 0 /\ j < cut
    <3>1. f * Chan = first + j /\ (f + 1) * Chan = first + j + Chan BY <2>1, <2>2, <2>3, <2>6 DEF Place
    <3>2. first <= f * Chan /\ (f + 1) * Chan <= first + cut BY <3>1, <2>4, <2>6, <1>0
    <3> QED BY <3>2, <2>1, <2>6 DEF Pieces
  <2>7. CASE gap > 0 /\ j >= cut
    <3>1. f * Chan = first + j + gap /\ (f + 1) * Chan = first + j + gap + Chan
      BY <2>1, <2>2, <2>3, <2>7 DEF Place
    <3>2. since = first + cut + gap BY <2>7 DEF Pieces
    <3>3. since <= f * Chan /\ (f + 1) * Chan <= pos BY <3>1, <3>2, <2>4, <2>7, <1>0
    <3> QED BY <3>3, <2>1 DEF Device
  <2> QED BY <2>5, <2>6, <2>7, <1>0
<1>11. \A m \in 1..Len(q) : Number(q[m]) > last /\ (Number(q[m]) + 1) * Chan <= first + gap + len
  <2> SUFFICES ASSUME NEW m \in 1..Len(q)
               PROVE  Number(q[m]) > last /\ (Number(q[m]) + 1) * Chan <= first + gap + len
    OBVIOUS
  <2> HIDE DEF V
  <2>1. PICK f \in Nat : f = Number(q[m]) /\ f * Chan = V(J[m]) BY <1>6
  <2>2. (f + 1) * Chan = V(J[m]) + Chan BY <2>1, <1>0, ProductLess
  <2>3. (last + 1) * Chan <= f * Chan BY <2>1, <1>0, <1>5, <1>8
  <2>4. PICK x \in Int : x = last + 1 BY <1>0
  <2>5. x * Chan <= f * Chan BY <2>3, <2>4
  <2>6. x <= f BY <2>5, <1>0, ProductLess
  <2> QED BY <2>1, <2>2, <2>4, <2>6, <1>0, <1>8
<1>12. \A l, m \in 1..Len(q) : l < m => Number(q[l]) < Number(q[m])
  <2> SUFFICES ASSUME NEW l \in 1..Len(q), NEW m \in 1..Len(q), l < m
               PROVE  Number(q[l]) < Number(q[m])
    OBVIOUS
  <2> HIDE DEF V
  <2>1. PICK f \in Nat : f = Number(q[l]) /\ f * Chan = V(J[l]) BY <1>6
  <2>2. PICK g \in Nat : g = Number(q[m]) /\ g * Chan = V(J[m]) BY <1>6
  <2>3. f * Chan < g * Chan BY <2>1, <2>2, <1>9
  <2>4. f < g BY <2>3, <1>0, ProductLess
  <2> QED BY <2>1, <2>2, <2>4
<1>13. \A m \in 1..Len(q) : \A k \in 0..(Chan - 1) : q[m][k] = Number(q[m]) * Chan + k
  <2> HIDE DEF V
  <2> QED BY <1>6
<1> HIDE DEF V
<1> QED BY <1>2, <1>3, <1>6, <1>10, <1>11, <1>12, <1>13 DEF SamplesBefore

\* A device that may lose words is used with requests for a buffer full.
LEMMA SettingKnown ==
    ASSUME ArrayTypes
    PROVE  /\ setting.lost \in Nat /\ setting.silent \in SUBSET Nat /\ setting.asks \in SUBSET Nat
           /\ setting.lost > 0 => ~WholeSamples(setting)
<1>1. setting \in [asks : SUBSET Nat, silent : SUBSET Nat, lost : Nat, fails : BOOLEAN]
  BY SpeechArrayAssumption DEF ArrayTypes
<1> QED BY <1>1 DEF WholeSamples

\* Among the words of a buffer full is a sample that counts: all samples but two that
\* are cut at its ends.
LEMMA SomeSound ==
    ASSUME Sizes, NEW p \in Nat, BufferFull(setting), setting.silent \in SUBSET Nat
    PROVE  \E f \in Nat \ setting.silent : p <= f * Chan /\ (f + 1) * Chan <= p + Buff
<1>0. Chan \in Nat \ {0} /\ Buff \in Nat \ {0} /\ Buff % Chan = 0 /\ 4 * Chan <= Buff
  BY SizesAre DEF Sizes
<1>1. PICK k \in Nat : Buff = Chan * k BY <1>0, Multiple
<1>2. Buff \div Chan = k
  <2>1. 0 \in 0..(Chan - 1) /\ Chan * k + 0 = Buff BY <1>0, <1>1
  <2> QED BY <2>1, <1>0, ModUnique
<1>3. k >= 4
  <2>1. 4 * Chan <= k * Chan BY <1>0, <1>1
  <2> QED BY <2>1, <1>0, ProductLess
<1>4. PICK q \in Nat, r \in 0..(Chan - 1) : p = Chan * q + r /\ r = p % Chan BY <1>0, ModIs
\* The first sample that starts in the buffer, and one that counts from there on.
<1>5. PICK f \in Nat : f = q + 1 OBVIOUS
<1>6. PICK g \in f..(f + k - 2) : g \notin setting.silent
  <2>1. CASE f \in setting.silent BY <2>1, <1>2 DEF BufferFull
  <2>2. CASE f \notin setting.silent
    <3>1. f \in f..(f + k - 2) BY <1>3
    <3> QED BY <2>2, <3>1
  <2> QED BY <2>1, <2>2
<1>7. g \in Nat /\ f <= g /\ g + 1 <= q + k BY <1>5, <1>6, <1>3
<1>8. p <= f * Chan /\ f * Chan <= g * Chan
  <2>1. f * Chan = q * Chan + Chan BY <1>0, <1>5, ProductLess
  <2>2. q * Chan = Chan * q /\ q * Chan \in Nat /\ f * Chan \in Nat BY <1>0
  <2>3. f * Chan <= g * Chan BY <1>0, <1>7, ProductLess
  <2> QED BY <2>1, <2>2, <2>3, <1>0, <1>4
<1>9. (g + 1) * Chan <= p + Buff
  <2>1. (g + 1) * Chan <= (q + k) * Chan BY <1>0, <1>7, ProductLess
  <2>2. (q + k) * Chan = Chan * q + Chan * k BY <1>0
  <2>3. Chan * q \in Nat /\ Chan * q <= p BY <1>0, <1>4
  <2>4. (g + 1) * Chan \in Nat /\ (q + k) * Chan \in Nat BY <1>0, <1>7
  <2> QED BY <2>1, <2>2, <2>3, <2>4, <1>0, <1>1
<1>10. f * Chan \in Nat /\ g * Chan \in Nat BY <1>0, <1>7
<1> QED BY <1>6, <1>7, <1>8, <1>9, <1>10

\* Without a loss the pieces are one.
LEMMA OnePiece ==
    ASSUME NEW b, NEW n \in Nat, NEW first \in Nat, NEW cut \in Nat, Laid(b, n, first, cut, 0)
    PROVE  Words(b, n, first)
BY DEF Laid, Place, Words

\* Deliver ends the call: what it returns is in order, and without a loss complete.
LEMMA DeliverStep ==
    ASSUME Sizes, ArrayTypes, Device, NEW b \in [Cell -> Int],
           NEW n \in Nat, NEW first \in Nat, NEW cut \in Nat, NEW gap \in 0..(Chan - 1),
           WholeSamples(setting) \/ (BufferFull(setting) /\ len = Buff),
           Chan <= len, len % Chan = 0, len <= n, n <= Buff, n - len <= Rest, n % HwAlign = 0,
           first % Chan = 0, Pieces(b, n, first, cut, gap), Before(first),
           Deliver(b, n), UNCHANGED <<setting, pos, len, since, complete, last>>
    PROVE  /\ Between' /\ pc' = "idle"
           /\ buffer' \in [Cell -> Int] /\ data_size' \in 0..Buff
           /\ out' \in Seq([0..(Chan - 1) -> Int])
<1>0. /\ Chan \in Nat \ {0} /\ HwAlign \in Nat \ {0} /\ Buff \in Nat /\ Chan % HwAlign = 0
      /\ len \in Nat /\ pos \in Nat /\ since \in Nat /\ since <= pos
      /\ last \in Int /\ (last + 1) * Chan <= first /\ first + n + gap = pos /\ cut <= n
  BY SizesAre DEF ArrayTypes, Device, Pieces, Laid, Before
<1>1. gap > 0 => len = Buff /\ n = Buff /\ since = first + cut + gap
  <2>1. gap > 0 => setting.lost > 0 /\ n = Buff /\ since = first + cut + gap BY DEF Pieces
  <2>2. setting.lost > 0 => ~WholeSamples(setting) BY SettingKnown
  <2> QED BY <2>1, <2>2
<1>2. Smaller(n, len) = len BY <1>0 DEF Smaller
<1>3. PICK q : q = parseData(b, len) OBVIOUS
<1>b. PICK begin \in Nat : begin = first + gap + len BY <1>0
<1>4. /\ out' = q
      /\ delivered' = delivered \union {Number(q[i]) : i \in 1..Len(q)}
      /\ data_size' = n - len
      /\ pc' = "idle"
  BY <1>0, <1>2, <1>3 DEF Deliver
<1>5. buffer' = IF n > len
                THEN [k \in Cell |-> IF k < n - len THEN b[k + len] ELSE Junk]
                ELSE [k \in Cell |-> IF k < Len(q) * (Chan \div 4) THEN Junk ELSE b[k]]
  BY <1>0, <1>2, <1>3 DEF Deliver
<1>6. /\ q \in Seq([0..(Chan - 1) -> Int]) /\ Len(q) * Chan <= len
      /\ \A m \in 1..Len(q) :
            /\ Number(q[m]) \in Int
            /\ \A k \in 0..(Chan - 1) : q[m][k] = Number(q[m]) * Chan + k
            /\ Number(q[m]) > last /\ Number(q[m]) \in complete
            /\ (Number(q[m]) + 1) * Chan <= begin
      /\ \A l, m \in 1..Len(q) : l < m => Number(q[l]) < Number(q[m])
  <2>1. gap > 0 => len = Buff BY <1>1
  <2>2. SamplesBefore(q, first + gap + len) BY <2>1, <1>3, Returned
  <2>3. SamplesBefore(q, begin) BY <2>2, <1>b
  <2> QED BY <2>3 DEF SamplesBefore
<1>7. pos - (n - len) = begin /\ first <= begin BY <1>0, <1>b
<1>8. data_size' \in 0..Buff /\ n - len \in Nat BY <1>0, <1>4
<1>9. buffer' \in [Cell -> Int]
  <2>1. \A k \in Cell : k < n - len => k + len \in Cell BY <1>0 DEF Cell
  <2>2. Junk \in Int BY DEF Junk
  <2>3. CASE n > len
    <3>1. buffer' = [k \in Cell |-> IF k < n - len THEN b[k + len] ELSE Junk] BY <1>5, <2>3
    <3> QED BY <3>1, <2>1, <2>2
  <2>4. CASE ~(n > len)
    <3>1. buffer' = [k \in Cell |-> IF k < Len(q) * (Chan \div 4) THEN Junk ELSE b[k]]
      BY <1>5, <2>4
    <3>2. \A k \in Cell : b[k] \in Int OBVIOUS
    <3> QED BY <3>1, <3>2, <2>2
  <2> QED BY <2>3, <2>4
<1>10. n - len > 0 => gap = 0 /\ WholeSamples(setting) /\ begin % Chan = 0
  <2> SUFFICES ASSUME n - len > 0
               PROVE  gap = 0 /\ WholeSamples(setting) /\ begin % Chan = 0
    OBVIOUS
  <2>1. gap = 0 BY <1>0, <1>1
  <2>2. WholeSamples(setting) BY <1>0
  <2>3. PICK x \in Nat : x = len BY <1>0
  <2>4. (first + x) % Chan = 0
    <3>1. x % Chan = 0 BY <2>3
    <3> QED BY <3>1, <1>0, MultipleSum
  <2>5. begin = first + x BY <2>1, <2>3, <1>b
  <2> QED BY <2>1, <2>2, <2>4, <2>5
<1>11. Words(buffer', n - len, begin)
  <2> SUFFICES ASSUME NEW k \in 0..(n - len - 1) PROVE buffer'[k] = begin + k
    BY DEF Words
  <2>1. n > len /\ gap = 0 /\ k \in Cell /\ k + len \in 0..(n - 1) /\ k < n - len
    BY <1>0, <1>8, <1>10 DEF Cell
  <2>2. buffer'[k] = b[k + len] BY <1>5, <2>1
  <2>3. Words(b, n, first) BY <2>1, OnePiece DEF Pieces
  <2>4. b[k + len] = first + (k + len) BY <2>1, <2>3 DEF Words
  <2> QED BY <2>1, <2>2, <2>4, <1>0, <1>b
<1>12. since <= begin BY <1>0, <1>1, <1>b DEF Pieces
<1>13. setting.lost = 0 => gap = 0 /\ Words(b, len, first)
  <2> SUFFICES ASSUME setting.lost = 0 PROVE gap = 0 /\ Words(b, len, first)
    OBVIOUS
  <2>1. gap = 0 BY <1>0 DEF Pieces
  <2>2. Words(b, n, first) BY <2>1, OnePiece DEF Pieces
  <2>3. \A i \in 0..(len - 1) : i \in 0..(n - 1) BY <1>0
  <2> QED BY <2>1, <2>2, <2>3 DEF Words
<1>14. setting.lost = 0 =>
          /\ Len(q) * Chan = len
          /\ \A m \in 1..Len(q) : q[m][0] = first + (m - 1) * Chan
  <2> SUFFICES ASSUME setting.lost = 0
               PROVE  /\ Len(q) * Chan = len
                      /\ \A m \in 1..Len(q) : q[m][0] = first + (m - 1) * Chan
    OBVIOUS
  <2>1. PICK x \in Nat : x = len BY <1>0
  <2>2. Words(b, x, first) /\ Chan <= x /\ x <= Buff /\ x % Chan = 0 BY <2>1, <1>0, <1>13
  <2>3. /\ Len(parseData(b, x)) * Chan = x
        /\ \A m \in 1..Len(parseData(b, x)) :
              parseData(b, x)[m] = [k \in 0..(Chan - 1) |-> first + (m - 1) * Chan + k]
    BY <2>2, ParseWhole
  <2>4. /\ Len(q) * Chan = len
        /\ \A m \in 1..Len(q) : q[m] = [k \in 0..(Chan - 1) |-> first + (m - 1) * Chan + k]
    BY <2>1, <2>3, <1>3
  <2>5. 0 \in 0..(Chan - 1) BY <1>0
  <2>6. \A m \in 1..Len(q) : q[m][0] = first + (m - 1) * Chan
    <3> SUFFICES ASSUME NEW m \in 1..Len(q) PROVE q[m][0] = first + (m - 1) * Chan
      OBVIOUS
    <3>1. q[m][0] = first + (m - 1) * Chan + 0 BY <2>4, <2>5
    <3>2. (m - 1) * Chan \in Int BY <1>0
    <3> QED BY <3>1, <3>2
  <2> QED BY <2>4, <2>6
<1>15. setting.lost = 0 => \A f \in complete : f * Chan < begin => f \in delivered' \union setting.silent
  <2> SUFFICES ASSUME setting.lost = 0, NEW f \in complete, f * Chan < begin
               PROVE  f \in delivered' \union setting.silent
    OBVIOUS
  <2>0. f \in Nat BY DEF Device
  <2>1. CASE f * Chan < first BY <2>1, <1>4 DEF Before
  <2>2. CASE f * Chan >= first
    <3>1. PICK c \in Nat : first = Chan * c BY <1>0, Multiple
    <3>2. first = c * Chan BY <3>1, <1>0
    <3>3. c <= f BY <2>0, <2>2, <3>2, <1>0, ProductLess
    <3>4. PICK L \in Nat : L = Len(q) BY <1>6
    <3>5. begin = (c + L) * Chan
      <4>1. (c + L) * Chan = c * Chan + L * Chan BY <1>0
      <4> QED BY <4>1, <3>2, <3>4, <1>13, <1>14, <1>b
    <3>6. f * Chan < (c + L) * Chan BY <3>5
    <3>7. f < c + L
      <4>1. c + L \in Int BY <3>4
      <4> QED BY <4>1, <3>6, <2>0, <1>0, ProductLess
    <3>8. PICK m \in 1..L : m = f - c + 1 BY <3>3, <3>7, <2>0
    <3>9. q[m][0] = first + (m - 1) * Chan BY <3>4, <3>8, <1>14
    <3>10. (m - 1) * Chan = f * Chan - c * Chan /\ f * Chan \in Nat
      <4>1. m - 1 = f - c BY <3>8, <2>0
      <4>2. (f - c) * Chan = f * Chan - c * Chan BY <1>0, <2>0
      <4> QED BY <4>1, <4>2, <1>0, <2>0
    <3>11. q[m][0] = f * Chan
      <4>1. PICK y \in Nat : y = c * Chan BY <1>0
      <4>2. PICK z \in Nat : z = f * Chan BY <3>10
      <4>3. q[m][0] = y + (z - y) BY <3>9, <3>10, <3>2, <4>1, <4>2
      <4> QED BY <4>2, <4>3
    <3>12. Number(q[m]) = f
      <4>1. 0 \in 0..(Chan - 1) BY <1>0
      <4>2. (Chan * f + 0) \div Chan = f BY <4>1, <2>0, <1>0, ModUnique
      <4>3. Chan * f + 0 = f * Chan BY <1>0, <2>0
      <4> QED BY <3>11, <4>2, <4>3 DEF Number
    <3>13. f \in delivered' BY <3>12, <3>8, <3>4, <1>4
    <3> QED BY <3>13
  <2>3. f * Chan \in Nat BY <2>0, <1>0
  <2> QED BY <2>1, <2>2, <2>3, <1>0
<1>16. setting.lost = 0 => begin = since \/ begin % Chan = 0
  <2> SUFFICES ASSUME setting.lost = 0 PROVE begin % Chan = 0
    OBVIOUS
  <2>1. PICK x \in Nat : x = len BY <1>0
  <2>2. (first + x) % Chan = 0
    <3>1. x % Chan = 0 BY <2>1
    <3> QED BY <3>1, <1>0, MultipleSum
  <2>3. begin = first + x BY <2>1, <1>13, <1>b
  <2> QED BY <2>2, <2>3
<1>17. (n - len) % HwAlign = 0
  <2>1. PICK x \in Nat : x = len BY <1>0
  <2>2. x % Chan = 0 /\ x <= n BY <2>1
  <2>3. x % HwAlign = 0 BY <2>2, <1>0, MultipleOf
  <2>4. (n - x) % HwAlign = 0 BY <2>2, <2>3, <1>0, MultipleDifference
  <2> QED BY <2>1, <2>4
<1>18. Before(begin)'
  <2>1. (last + 1) * Chan <= begin BY <1>0, <1>7
  <2> QED BY <2>1, <1>15, <1>16 DEF Before
<1>19. Ordered' BY <1>4, <1>6 DEF Ordered
<1>20. pos' - data_size' = begin BY <1>4, <1>7
<1>21. Between'
  <2>1. data_size' <= Rest /\ data_size' % HwAlign = 0 BY <1>4, <1>17
  <2>2. data_size' > 0 => WholeSamples(setting') /\ begin % Chan = 0 BY <1>4, <1>10
  <2>3. since' <= begin /\ Words(buffer', data_size', begin) BY <1>4, <1>11, <1>12
  <2>4. \A i \in 1..Len(out') : (Number(out'[i]) + 1) * Chan <= begin BY <1>4, <1>6
  <2>5. Len(out') * Chan <= len' BY <1>4, <1>6
  <2>6. setting'.lost = 0 /\ setting'.silent = {} => Len(out') * Chan = len' BY <1>4, <1>14
  <2> QED BY <2>1, <2>2, <2>3, <2>4, <2>5, <2>6, <1>18, <1>19, <1>20 DEF Between
<1> QED BY <1>4, <1>6, <1>8, <1>9, <1>21
-----------------------------------------------------------------------------
(* Step by step.                                                           *)

\* What no call has to do with stays as it is.
LEMMA Unread ==
    ASSUME ArrayInv, UNCHANGED <<setting, pos, buffer, data_size, len, data, avail_size, read_size,
                                 read_bytes, check_skip, out, since, complete, delivered, last>>
    PROVE  ArrayTypes' /\ Device' /\ (Between => Between')
           /\ (Reading => Reading') /\ (ReadingAgain => ReadingAgain')
           /\ (Digesting => Digesting') /\ (DigestingAgain => DigestingAgain')
<1> DEFINE same == <<setting, pos, buffer, data_size, len, data, avail_size, read_size,
                     read_bytes, check_skip, out, since, complete, delivered, last>>
<1>1. ArrayTypes' BY DEF ArrayInv, ArrayTypes
<1>2. Device' BY DEF ArrayInv, Device
<1>3. Asked' <=> Asked BY DEF Asked
<1>4. \A f : Before(f)' <=> Before(f) BY DEF Before
<1>5. \A f, n : First(f, n)' <=> First(f, n) BY <1>4 DEF First
<1>6. Between => Between' BY <1>4 DEF Between, Ordered
<1>7. Reading => Reading' BY <1>3, <1>5 DEF Reading
<1>8. Digesting => Digesting' BY <1>3, <1>5 DEF Digesting
<1>9. ReadingAgain => ReadingAgain' BY <1>3, <1>4 DEF ReadingAgain
<1>10. DigestingAgain => DigestingAgain'
  <2>1. \A b, n, f, c, g : Pieces(b, n, f, c, g)' <=> Pieces(b, n, f, c, g) BY DEF Pieces
  <2> QED BY <2>1, <1>3, <1>4 DEF DigestingAgain
<1> QED BY <1>1, <1>2, <1>6, <1>7, <1>8, <1>9, <1>10

\* Read asks the device for what the client is missing, a block at least.
LEMMA ReadStep ==
    ASSUME Sizes, setting \in Served, ArrayInv, NEW n \in setting.asks, Read(n)
    PROVE  ArrayInv'
<1>0. /\ Chan \in Nat \ {0} /\ HwAlign \in Nat \ {0} /\ Buff \in Nat \ {0}
      /\ Block \in Nat \ {0} /\ Rest \in Nat
      /\ 2 * Chan <= Block /\ Block <= Rest /\ Rest + Block = Buff
      /\ HwAlign <= Chan /\ Buff % Chan = 0 /\ Chan % HwAlign = 0
      /\ Block % HwAlign = 0 /\ Buff % HwAlign = 0 /\ Rest % HwAlign = 0
  BY SizesAre
<1>1. ArrayTypes /\ Device /\ Between BY DEF ArrayInv, Read
<1>2. n \in Nat BY <1>1, SettingKnown
<1> DEFINE need == AtMost(n)
           size == IF data_size > need THEN 0 ELSE Larger(RoundUp(need - data_size), Block)
<1>3. /\ len' = need /\ read_size' = size /\ read_bytes' = size
      /\ pc' = IF size = 0 THEN "digest" ELSE "read"
      /\ data' = data_size /\ avail_size' = data_size /\ check_skip' = FALSE /\ out' = <<>>
      /\ last' = IF out = <<>> THEN last ELSE Number(out[Len(out)])
      /\ UNCHANGED <<setting, pos, buffer, data_size, since, complete, delivered>>
  BY DEF Read, device, handle
<1>4. PICK first \in Nat : first = pos - data_size
  <2>1. since <= pos - data_size /\ since \in Nat /\ pos \in Nat /\ data_size \in Nat
    BY <1>1 DEF Between, Device, ArrayTypes
  <2> QED BY <2>1
<1>5. PICK kept \in 0..Rest : kept = data_size /\ kept % HwAlign = 0
  BY <1>0, <1>1 DEF Between, ArrayTypes
<1>6. /\ kept > 0 => WholeSamples(setting) /\ first % Chan = 0
      /\ since <= first /\ Words(buffer, kept, first) /\ Before(first) /\ Ordered
      /\ \A i \in 1..Len(out) : (Number(out[i]) + 1) * Chan <= first
  BY <1>1, <1>4, <1>5 DEF Between
<1>7. WholeSamples(setting) \/ (BufferFull(setting) /\ need = Buff /\ kept = 0)
  <2>1. WholeSamples(setting) \/ BufferFull(setting) BY <1>1 DEF Served, ArrayTypes
  <2>2. BufferFull(setting) => n >= Buff BY DEF BufferFull
  <2>3. n >= Buff => need = Buff BY <1>0, <1>2 DEF AtMost, Smaller
  <2> QED BY <2>1, <2>2, <2>3, <1>5, <1>6
<1>8. need \in Chan..Buff /\ need % Chan = 0
  <2>1. CASE WholeSamples(setting)
    <3>1. n >= Chan /\ n % Chan = 0 BY <1>1, SpeechArrayAssumption DEF ArrayTypes
    <3>2. need = n \/ need = Buff BY DEF AtMost, Smaller
    <3>3. need <= Buff BY <1>0, <1>2 DEF AtMost, Smaller
    <3>4. CASE need = n BY <3>1, <3>3, <3>4, <1>0, <1>2
    <3>5. CASE need = Buff BY <3>5, <1>0
    <3> QED BY <3>2, <3>4, <3>5
  <2>2. CASE need = Buff BY <2>2, <1>0
  <2> QED BY <2>1, <2>2, <1>7
<1>9. PICK want \in Chan..Buff : want = need /\ want % Chan = 0 BY <1>8
<1> HIDE DEF need
<1>10. want \in Nat /\ want % HwAlign = 0
  <2>1. want \in Nat BY <1>0
  <2>2. want % Chan = 0 BY <1>9
  <2> QED BY <2>1, <2>2, <1>0, MultipleOf
<1>11. /\ size \in 0..Buff /\ size % HwAlign = 0
       /\ \/ size = Block /\ kept <= want
          \/ size >= Block /\ kept + size = want
          \/ size = 0 /\ kept > want
       /\ want <= kept + size /\ kept + size <= Buff
  <2>1. CASE kept > want
    <3>1. size = 0 BY <2>1, <1>5, <1>9
    <3>2. 0 % HwAlign = 0 BY <1>0
    <3> QED BY <3>1, <3>2, <2>1, <1>0, <1>10
  <2>2. CASE kept <= want
    <3>1. PICK d \in Nat : d = want - kept BY <2>2, <1>10
    <3>2. d % HwAlign = 0
      <4>1. kept \in Nat /\ kept <= want /\ want \in Nat BY <2>2, <1>10, <1>0
      <4>2. (want - kept) % HwAlign = 0 BY <4>1, <1>0, <1>5, <1>10, MultipleDifference
      <4> QED BY <4>2, <3>1
    <3>3. RoundUp(d) = d BY <3>2 DEF RoundUp
    <3>4. size = Larger(d, Block)
      <4>1. ~(data_size > need) /\ need - data_size = d BY <2>2, <3>1, <1>5, <1>9, <1>10
      <4> QED BY <4>1, <3>3
    <3>5. CASE d > Block
      <4>1. size = d BY <3>4, <3>5 DEF Larger
      <4> HIDE DEF size
      <4> QED BY <4>1, <3>1, <3>2, <3>5, <1>0, <1>10
    <3>6. CASE ~(d > Block)
      <4>1. size = Block BY <3>4, <3>6 DEF Larger
      <4> HIDE DEF size
      <4> QED BY <4>1, <3>1, <3>6, <2>2, <1>0, <1>10
    <3> QED BY <3>5, <3>6
  <2> QED BY <2>1, <2>2, <1>10, <1>0
<1>12. PICK ask \in 0..Buff : ask = size BY <1>11
<1> HIDE DEF size
<1>13. last' \in Int /\ (last' + 1) * Chan <= first
  <2>1. CASE out = <<>>
    <3>1. last' = last /\ last \in Int /\ (last + 1) * Chan <= first
      BY <2>1, <1>1, <1>3, <1>6 DEF ArrayTypes, Before
    <3> QED BY <3>1
  <2>2. CASE out # <<>>
    <3>1. last' = Number(out[Len(out)]) BY <2>2, <1>3
    <3>2. out \in Seq([0..(Chan - 1) -> Int]) BY <1>1 DEF ArrayTypes
    <3>3. Len(out) \in 1..Len(out) BY <2>2, <3>2
    <3>4. (last' + 1) * Chan <= first BY <3>1, <3>3, <1>6
    <3>5. last' \in Int
      <4>1. out[Len(out)] \in [0..(Chan - 1) -> Int] /\ 0 \in 0..(Chan - 1) BY <3>2, <3>3, <1>0
      <4>2. out[Len(out)][0] \in Int BY <4>1
      <4> QED BY <4>2, <3>1, <1>0 DEF Number
    <3> QED BY <3>4, <3>5
  <2> QED BY <2>1, <2>2
<1>14. ArrayTypes'
  <2>1. len' \in 0..Buff /\ read_size' \in 0..Buff /\ read_bytes' \in 0..Buff
    BY <1>3, <1>0, <1>9, <1>10, <1>12
  <2>2. data' \in 0..Buff /\ avail_size' \in 0..Buff BY <1>3, <1>1 DEF ArrayTypes
  <2>3. out' \in Seq([0..(Chan - 1) -> Int]) BY <1>3
  <2> QED BY <2>1, <2>2, <2>3, <1>1, <1>3, <1>13 DEF ArrayTypes
<1>15. Device' BY <1>1, <1>3 DEF Device
<1>16. Before(first)' BY <1>3, <1>6, <1>13 DEF Before
<1>17. Asked'
  <2>1. Chan <= len' /\ len' % Chan = 0 BY <1>3, <1>9
  <2>2. WholeSamples(setting') \/ (BufferFull(setting') /\ len' = Buff /\ data_size' = 0)
    BY <1>3, <1>5, <1>7
  <2>3. data_size' <= Rest /\ data_size' % HwAlign = 0 BY <1>3, <1>5, <1>0
  <2>4. read_size' % HwAlign = 0 /\ len' <= data_size' + read_size'
    BY <1>3, <1>5, <1>9, <1>11, <1>12
  <2>5. \/ read_size' = Block /\ data_size' <= len'
        \/ read_size' >= Block /\ data_size' + read_size' = len'
        \/ read_size' = 0 /\ data_size' > len'
    BY <1>3, <1>5, <1>9, <1>11
  <2> QED BY <2>1, <2>2, <2>3, <2>4, <2>5, <1>3 DEF Asked
<1>18. pos' - avail_size' = first BY <1>3, <1>4
<1>19. First(first, kept)' BY <1>3, <1>5, <1>6, <1>16 DEF First, Words
<1>20. pc' = "read" => Reading'
  <2> SUFFICES ASSUME pc' = "read" PROVE Reading'
    OBVIOUS
  <2>1. ask # 0 BY <1>3, <1>12
  <2>2. read_size' > 0 BY <2>1, <1>3, <1>12
  <2>3. First(pos - avail_size, avail_size)' BY <1>18, <1>19, <1>3, <1>5
  <2> QED BY <2>2, <2>3, <1>3, <1>17 DEF Reading
<1>21. pc' = "digest" => Digesting'
  <2> SUFFICES ASSUME pc' = "digest" PROVE Digesting'
    OBVIOUS
  <2>1. ask = 0 BY <1>3, <1>12
  <2>2. avail_size' = data_size' + read_size' BY <2>1, <1>3, <1>5, <1>12
  <2>3. First(pos - avail_size, avail_size)' BY <1>18, <1>19, <1>3, <1>5
  <2> QED BY <2>2, <2>3, <1>3, <1>17 DEF Digesting
<1>22. pc' \in {"read", "digest"} BY <1>3
<1> QED BY <1>14, <1>15, <1>20, <1>21, <1>22 DEF ArrayInv

\* What the device delivers follows what the buffer holds, but for a loss.
LEMMA PcmReadStep ==
    ASSUME Sizes, ArrayInv, PcmRead
    PROVE  ArrayInv'
<1>0. /\ Chan \in Nat \ {0} /\ HwAlign \in Nat \ {0} /\ Buff \in Nat \ {0}
      /\ Block \in Nat \ {0} /\ Rest \in Nat
      /\ 2 * Chan <= Block /\ Block <= Rest /\ Rest + Block = Buff
      /\ HwAlign <= Chan /\ Buff % Chan = 0 /\ Chan % HwAlign = 0
      /\ Block % HwAlign = 0 /\ Buff % HwAlign = 0 /\ Rest % HwAlign = 0
  BY SizesAre
<1>1. ArrayTypes /\ Device /\ (Reading \/ ReadingAgain) /\ setting.lost \in Nat
  BY SettingKnown DEF ArrayInv, PcmRead
<1>2. PICK lost \in 0..setting.lost :
        LET from == pos + lost * HwAlign
            got == read_bytes - (read_bytes % HwAlign)
        IN  /\ pos' = from + got
            /\ since' = IF lost > 0 THEN from ELSE since
            /\ complete' = complete \union
                 {f \in 0..(pos' \div Chan) : f * Chan >= since' /\ (f + 1) * Chan <= pos'}
            /\ buffer' = [k \in Cell |-> IF k >= data /\ k < data + got
                                         THEN from + k - data ELSE buffer[k]]
  BY DEF PcmRead
<1>3. /\ avail_size' = avail_size + read_bytes
      /\ pc' = IF data + read_bytes > Buff THEN "crashed" ELSE "digest"
      /\ UNCHANGED <<setting, data_size, len, data, read_size, read_bytes, check_skip, out,
                     delivered, last>>
  BY DEF PcmRead
<1>4. /\ data = avail_size /\ data \in Nat /\ read_bytes \in Nat /\ read_bytes % HwAlign = 0
      /\ data + read_bytes <= Buff /\ len <= data + read_bytes /\ len \in Nat /\ len >= Chan
      /\ since <= pos - data /\ Words(buffer, data, pos - data) /\ Before(pos - data)
      /\ pos - data \in Nat /\ Asked
  <2>0. data \in Nat /\ read_bytes \in Nat /\ len \in Nat /\ since \in Nat /\ pos \in Nat
        /\ read_size \in Nat /\ data_size \in Nat
    BY <1>1, <1>0 DEF ArrayTypes, Device
  <2>1. CASE Reading
    <3>1. /\ Asked /\ data = data_size /\ data = avail_size /\ read_bytes = read_size
          /\ read_size > 0 /\ since <= pos - data /\ Words(buffer, data, pos - data)
          /\ Before(pos - data)
      BY <2>1 DEF Reading, First
    <3>2. /\ read_size % HwAlign = 0 /\ len <= data_size + read_size /\ Chan <= len
          /\ data_size + read_size <= Buff
      <4>1. CASE read_size = Block BY <4>1, <3>1, <2>0, <1>0 DEF Asked
      <4>2. CASE data_size + read_size = len BY <4>2, <3>1, <2>0, <1>0, <1>1 DEF Asked, ArrayTypes
      <4> QED BY <4>1, <4>2, <3>1 DEF Asked
    <3> QED BY <3>1, <3>2, <2>0, <1>0
  <2>2. CASE ReadingAgain BY <2>0, <2>2, <1>0 DEF ReadingAgain, Asked
  <2> QED BY <1>1, <2>1, <2>2
<1>5. PICK first \in Nat : first = pos - data BY <1>4
<1>6. PICK gap \in Nat : gap = lost * HwAlign /\ (gap > 0 <=> lost > 0) /\ gap % HwAlign = 0
  <2>1. lost \in Nat BY <1>1
  <2>2. PICK gap \in Nat : gap = lost * HwAlign BY <2>1, <1>0
  <2>3. gap > 0 <=> lost > 0
    <3>1. lost > 0 => lost * HwAlign >= HwAlign BY <2>1, <1>0
    <3>2. lost = 0 => lost * HwAlign = 0 BY <1>0
    <3> QED BY <3>1, <3>2, <2>1, <2>2, <1>0
  <2>4. \E k \in Nat : gap = HwAlign * k
    <3>1. gap = HwAlign * lost BY <2>1, <2>2, <1>0
    <3> QED BY <3>1, <2>1
  <2>5. gap % HwAlign = 0 BY <2>4, <1>0, Multiple
  <2> QED BY <2>2, <2>3, <2>5
<1>7. PICK got \in Nat : got = read_bytes /\ got % HwAlign = 0 BY <1>4
<1>8. /\ pos' = pos + gap + got
      /\ since' = IF lost > 0 THEN pos + gap ELSE since
      /\ complete' = complete \union
           {f \in 0..(pos' \div Chan) : f * Chan >= since' /\ (f + 1) * Chan <= pos'}
      /\ buffer' = [k \in Cell |-> IF k >= data /\ k < data + got
                                   THEN pos + gap + k - data ELSE buffer[k]]
  <2>1. read_bytes - (read_bytes % HwAlign) = got BY <1>4, <1>7
  <2> QED BY <1>2, <1>6, <2>1
<1>9. pos \in Nat /\ since \in Nat /\ since <= pos /\ pos % HwAlign = 0 BY <1>1 DEF Device
<1>10. PICK end \in Nat : end = pos' /\ end = pos + gap + got BY <1>8, <1>9
<1>11. PICK new \in Nat : new = since' /\ new = IF lost > 0 THEN pos + gap ELSE since
  BY <1>8, <1>9
<1>12. \A f : f \in complete' <=> \/ f \in complete
                                  \/ f \in Nat /\ new <= f * Chan /\ (f + 1) * Chan <= end
  <2>0. complete' = complete \union
           {f \in 0..(end \div Chan) : f * Chan >= new /\ (f + 1) * Chan <= end}
    BY <1>8, <1>10, <1>11
  <2>1. ASSUME NEW f \in Nat, (f + 1) * Chan <= end PROVE f \in 0..(end \div Chan)
    <3>1. PICK k \in Nat, r \in 0..(Chan - 1) : end = Chan * k + r /\ r = end % Chan BY <1>0, ModIs
    <3>2. (Chan * k + r) \div Chan = k BY <1>0, ModUnique
    <3>3. (f + 1) * Chan = f * Chan + Chan /\ (k + 1) * Chan = k * Chan + Chan BY <1>0, ProductLess
    <3>4. k * Chan = Chan * k /\ k * Chan \in Nat /\ f * Chan \in Nat BY <1>0
    <3>5. f * Chan < (k + 1) * Chan BY <2>1, <3>1, <3>3, <3>4, <1>0
    <3>6. f < k + 1
      <4>1. k + 1 \in Int OBVIOUS
      <4> QED BY <4>1, <3>5, <1>0, ProductLess
    <3> QED BY <3>1, <3>2, <3>6
  <2>2. \A f : f \in 0..(end \div Chan) => f \in Nat BY <1>0
  <2>3. \A f \in Nat : f * Chan \in Nat BY <1>0
  <2> QED BY <2>0, <2>1, <2>2, <2>3
<1>13. Device'
  <2>1. end % HwAlign = 0
    <3>1. PICK a \in Nat : a = pos /\ a % HwAlign = 0 BY <1>9
    <3>a. /\ HwAlign \in Nat \ {0} /\ gap \in Nat /\ gap % HwAlign = 0
          /\ got \in Nat /\ got % HwAlign = 0
      BY <1>0, <1>6, <1>7
    <3>2. (a + gap) % HwAlign = 0 BY <3>1, <3>a, MultipleSum
    <3>3. PICK c \in Nat : c = a + gap /\ c % HwAlign = 0 BY <3>2, <3>a
    <3>4. (c + got) % HwAlign = 0 BY <3>3, <3>a, MultipleSum
    <3>5. c + got = end BY <3>1, <3>3, <1>10
    <3> QED BY <3>4, <3>5
  <2>2. new <= end BY <1>9, <1>10, <1>11
  <2>3. \A f \in complete' : f \in Nat /\ (f + 1) * Chan <= end /\ (setting.lost = 0 => new <= f * Chan)
    <3> SUFFICES ASSUME NEW f \in complete'
                 PROVE  f \in Nat /\ (f + 1) * Chan <= end /\ (setting.lost = 0 => new <= f * Chan)
      OBVIOUS
    <3>1. CASE f \in complete
      <4>1. f \in Nat /\ (f + 1) * Chan <= pos /\ (setting.lost = 0 => since <= f * Chan)
        BY <3>1, <1>1 DEF Device
      <4>2. (f + 1) * Chan \in Nat BY <4>1, <1>0
      <4>3. setting.lost = 0 => new = since BY <1>11
      <4>4. (f + 1) * Chan <= end BY <4>1, <4>2, <1>9, <1>10
      <4> QED BY <4>1, <4>3, <4>4
    <3>2. CASE f \notin complete BY <3>2, <1>12
    <3> QED BY <3>1, <3>2
  <2>4. \A f \in Nat : new <= f * Chan /\ (f + 1) * Chan <= end => f \in complete' BY <1>12
  <2>5. setting' = setting BY <1>3
  <2> QED BY <2>1, <2>2, <2>3, <2>4, <2>5, <1>10, <1>11 DEF Device
<1>14. pc' = "digest"
  <2>1. ~(data + read_bytes > Buff) BY <1>0, <1>4
  <2> QED BY <2>1, <1>3
<1>15. PICK n \in 0..Buff : n = data + got /\ n = avail_size' BY <1>3, <1>4, <1>7, <1>0
<1>16. buffer' \in [Cell -> Int]
  <2>1. buffer \in [Cell -> Int] BY <1>1 DEF ArrayTypes
  <2>2. \A k \in Cell : k \in Int /\ buffer[k] \in Int BY <2>1, <1>0 DEF Cell
  <2>3. \A k \in Cell : pos + gap + k - data \in Int BY <2>2, <1>4, <1>9
  <2> QED BY <2>2, <2>3, <1>8
<1>17. ArrayTypes' BY <1>1, <1>3, <1>15, <1>16 DEF ArrayTypes
<1>18. /\ \A i \in 0..(data - 1) : buffer'[i] = first + i
       /\ \A i \in data..(n - 1) : buffer'[i] = first + i + gap
  <2>1. ASSUME NEW i \in 0..(data - 1) PROVE buffer'[i] = first + i
    <3>1. i \in Cell /\ ~(i >= data) BY <1>0, <1>4 DEF Cell
    <3>2. buffer[i] = first + i BY <1>4, <1>5 DEF Words
    <3> QED BY <3>1, <3>2, <1>8
  <2>2. ASSUME NEW i \in data..(n - 1) PROVE buffer'[i] = first + i + gap
    <3>1. i \in Cell /\ i >= data /\ i < data + got BY <1>0, <1>4, <1>15 DEF Cell
    <3>2. buffer'[i] = pos + gap + i - data BY <3>1, <1>8
    <3> QED BY <3>2, <1>4, <1>5, <1>9
  <2> QED BY <2>1, <2>2
<1>19. Before(first)'
  <2>1. Before(first) BY <1>4, <1>5
  <2>2. setting.lost = 0 => \A f \in complete' : f * Chan < first => f \in delivered \union setting.silent
    <3> SUFFICES ASSUME setting.lost = 0, NEW f \in complete', f * Chan < first
                 PROVE  f \in delivered \union setting.silent
      OBVIOUS
    <3>1. CASE f \in complete BY <3>1, <2>1 DEF Before
    <3>2. CASE f \notin complete
      <4>1. f \in Nat /\ new <= f * Chan /\ (f + 1) * Chan <= end BY <3>2, <1>12
      <4>2. new = since BY <1>11
      <4>3. first = since \/ first % Chan = 0 BY <2>1 DEF Before
      <4>4. f * Chan \in Nat BY <4>1, <1>0
      <4>5. first % Chan = 0 BY <4>1, <4>2, <4>3, <4>4
      <4>6. PICK x \in Nat : x = f * Chan BY <4>4
      <4>7. x % Chan = 0
        <5>1. x = Chan * f BY <4>1, <4>6, <1>0
        <5>2. \E k \in Nat : x = Chan * k BY <5>1, <4>1
        <5> QED BY <5>2, <1>0, Multiple
      <4>8. x + Chan <= first BY <4>5, <4>6, <4>7, <1>0, MultiplesApart
      <4>9. (f + 1) * Chan = x + Chan BY <4>1, <4>6, <1>0, ProductLess
      <4>10. since <= f * Chan /\ (f + 1) * Chan <= pos
        BY <4>1, <4>2, <4>8, <4>9, <1>0, <1>4, <1>5, <1>9
      <4>11. f \in complete BY <4>1, <4>10, <1>1 DEF Device
      <4> QED BY <4>11, <3>2
    <3> QED BY <3>1, <3>2
  <2> QED BY <2>1, <2>2, <1>3, <1>11 DEF Before
<1>20. Asked' BY <1>3, <1>4 DEF Asked
<1>21. gap > 0 => data_size = 0 /\ BufferFull(setting) /\ len = Buff /\ setting.lost > 0 /\ n = Buff
  <2> SUFFICES ASSUME gap > 0
               PROVE  data_size = 0 /\ BufferFull(setting) /\ len = Buff /\ setting.lost > 0
                      /\ n = Buff
    OBVIOUS
  <2>1. setting.lost > 0 BY <1>1, <1>6
  <2>2. ~WholeSamples(setting) BY <2>1, <1>1, SettingKnown
  <2>3. BufferFull(setting) /\ len = Buff /\ data_size = 0 BY <2>2, <1>4 DEF Asked
  <2> QED BY <2>1, <2>3, <1>0, <1>4, <1>7, <1>15
<1>22. CASE Reading
  <2>1. /\ ~check_skip /\ data = data_size /\ read_bytes = read_size
        /\ data_size > 0 => first % Chan = 0
    BY <1>5, <1>22 DEF Reading, First
  <2>2. avail_size' = data_size' + read_size' /\ data' = data_size' /\ ~check_skip'
    BY <2>1, <1>3, <1>4
  <2>3. CASE gap = 0
    <3>1. pos' - avail_size' = first
      <4>1. end - n = first
        <5>1. data \in Nat BY <1>4
        <5> QED BY <5>1, <2>3, <1>5, <1>9, <1>10, <1>15
      <4> QED BY <4>1, <1>10, <1>15
    <3>2. \A i \in 0..(n - 1) : i \in 0..(data - 1) \/ i \in data..(n - 1) BY <1>4
    <3>3. Words(buffer', n, first)
      <4>1. \A i \in data..(n - 1) : buffer'[i] = first + i BY <1>18, <2>3, <1>4
      <4> QED BY <3>2, <4>1, <1>18 DEF Words
    <3>4. since' <= first BY <2>3, <1>4, <1>5, <1>6, <1>8
    <3>5. First(first, n)' BY <3>3, <3>4, <2>1, <1>3, <1>19 DEF First
    <3>6. Digesting' BY <3>1, <3>5, <2>2, <1>15, <1>20 DEF Digesting
    <3> QED BY <3>6, <1>13, <1>14, <1>17 DEF ArrayInv
  <2>4. CASE gap > 0
    <3>1. data = 0 /\ first = pos /\ setting.lost > 0 /\ n = got
      BY <2>1, <2>4, <1>5, <1>9, <1>15, <1>21
    <3>2. PICK begin \in Nat : begin = pos + gap BY <1>9
    <3>3. pos' - avail_size' = begin
      <4>1. end - n = begin BY <3>1, <3>2, <1>9, <1>10
      <4> QED BY <4>1, <1>10, <1>15
    <3>4. since' = begin BY <3>2, <2>4, <1>6, <1>8
    <3>5. Words(buffer', n, begin)
      <4>1. \A i \in 0..(n - 1) : buffer'[i] = first + i + gap BY <3>1, <1>18
      <4>2. \A i \in 0..(n - 1) : first + i + gap = begin + i BY <3>1, <3>2, <1>9
      <4> QED BY <4>1, <4>2 DEF Words
    <3>6. Before(begin)'
      <4>1. last \in Int /\ (last + 1) * Chan \in Int BY <1>0, <1>1 DEF ArrayTypes
      <4>2. (last + 1) * Chan <= first BY <1>4, <1>5 DEF Before
      <4>3. (last + 1) * Chan <= begin BY <4>1, <4>2, <3>1, <3>2, <1>9
      <4> QED BY <4>3, <3>1, <1>3 DEF Before
    <3>7. First(begin, n)'
      <4>1. data_size' = 0 BY <2>4, <1>3, <1>21
      <4>2. since' <= begin BY <3>4
      <4> QED BY <4>1, <4>2, <3>5, <3>6 DEF First
    <3>8. Digesting' BY <3>3, <3>7, <2>2, <1>15, <1>20 DEF Digesting
    <3> QED BY <3>8, <1>13, <1>14, <1>17 DEF ArrayInv
  <2> QED BY <2>3, <2>4
<1>23. CASE ReadingAgain
  <2>1. /\ check_skip /\ first % Chan = 0 /\ since <= first
        /\ data + read_bytes - len <= Rest /\ 0 < data
    BY <1>4, <1>5, <1>23 DEF ReadingAgain
  <2>2. gap \in 0..(Chan - 1)
    <3>1. CASE gap = 0 BY <3>1, <1>0
    <3>2. CASE gap > 0
      <4>1. setting.lost * HwAlign < Chan BY <3>2, <1>21 DEF BufferFull
      <4>2. lost \in Int /\ lost <= setting.lost BY <1>1
      <4>3. lost * HwAlign <= setting.lost * HwAlign
        <5>1. PICK x \in Int, y \in Int : x = lost /\ y = setting.lost BY <4>2, <1>1
        <5>2. x * HwAlign <= y * HwAlign BY <5>1, <4>2, <1>0, ProductLess
        <5> QED BY <5>1, <5>2
      <4>4. setting.lost * HwAlign \in Int /\ lost * HwAlign \in Int BY <4>2, <1>0, <1>1
      <4> QED BY <4>1, <4>3, <4>4, <1>0, <1>6
    <3> QED BY <3>1, <3>2
  <2>3. Laid(buffer', n, first, data, gap)
    <3>1. data <= n BY <1>4, <1>15
    <3>2. \A i \in 0..(n - 1) : buffer'[i] = Place(first, data, gap, i)
      <4> SUFFICES ASSUME NEW i \in 0..(n - 1) PROVE buffer'[i] = Place(first, data, gap, i)
        OBVIOUS
      <4>1. CASE i < data
        <5>1. i \in 0..(data - 1) BY <4>1, <1>4
        <5> QED BY <5>1, <4>1, <1>18 DEF Place
      <4>2. CASE ~(i < data)
        <5>1. i \in data..(n - 1) BY <4>2, <1>4
        <5> QED BY <5>1, <4>2, <1>18 DEF Place
      <4> QED BY <4>1, <4>2
    <3> QED BY <3>1, <3>2 DEF Laid
  <2>4. first + n + gap = pos' BY <1>4, <1>5, <1>9, <1>10, <1>15
  <2>5. gap > 0 => /\ setting'.lost > 0 /\ n = Buff
                   /\ since' = first + data + gap
                   /\ \A f \in Nat : first <= f * Chan /\ (f + 1) * Chan <= first + data
                                     => f \in complete'
    <3> SUFFICES ASSUME gap > 0
                 PROVE  /\ setting'.lost > 0 /\ n = Buff
                        /\ since' = first + data + gap
                        /\ \A f \in Nat : first <= f * Chan /\ (f + 1) * Chan <= first + data
                                          => f \in complete'
      OBVIOUS
    <3>1. since' = first + data + gap BY <1>4, <1>5, <1>6, <1>8, <1>9
    <3>2. ASSUME NEW f \in Nat, first <= f * Chan, (f + 1) * Chan <= first + data
          PROVE  f \in complete'
      <4>1. f * Chan \in Nat BY <1>0
      <4>2. since <= f * Chan /\ (f + 1) * Chan <= pos
        BY <3>2, <4>1, <2>1, <1>4, <1>5, <1>9
      <4>3. f \in complete BY <4>2, <1>1 DEF Device
      <4> QED BY <4>3, <1>12
    <3> QED BY <3>1, <3>2, <1>3, <1>21
  <2>6. gap = 0 => since' <= first BY <2>1, <1>6, <1>8
  <2>7. Pieces(buffer, avail_size, first, data, gap)'
    <3>1. data' = data BY <1>3
    <3> QED BY <3>1, <2>3, <2>4, <2>5, <2>6, <1>15 DEF Pieces
  <2>8. avail_size' - len' <= Rest /\ len' <= avail_size' BY <2>1, <1>3, <1>4, <1>15, <1>7
  <2>9. avail_size' % HwAlign = 0
    <3>1. PICK a \in Nat : a = pos /\ a % HwAlign = 0 BY <1>9
    <3>2. first % HwAlign = 0 BY <2>1, <1>0, MultipleOf
    <3>3. first <= a /\ data = a - first BY <3>1, <1>4, <1>5
    <3>4. (a - first) % HwAlign = 0 BY <3>1, <3>2, <3>3, <1>0, MultipleDifference
    <3>5. PICK d \in Nat : d = data /\ d % HwAlign = 0 BY <3>3, <3>4, <1>4
    <3>6. (d + got) % HwAlign = 0 BY <3>5, <1>0, <1>7, MultipleSum
    <3> QED BY <3>5, <3>6, <1>15
  <2>10. DigestingAgain'
    <3>1. data \in 0..Buff /\ data' = data BY <1>1, <1>3 DEF ArrayTypes
    <3>2. check_skip' BY <2>1, <1>3
    <3> QED BY <3>1, <3>2, <2>1, <2>2, <2>7, <2>8, <2>9, <1>19, <1>20 DEF DigestingAgain
  <2> QED BY <2>10, <1>13, <1>14, <1>17 DEF ArrayInv
<1> QED BY <1>1, <1>22, <1>23

\* Among the words read first there is a sample that counts: after less than a
\* sample's length, and at once if something was kept from the last call, where
\* no sample is silent; somewhere in the buffer where some are.
LEMMA SomeCounts ==
    ASSUME Sizes, ArrayTypes, Device, Digesting
    PROVE  /\ avail_size \in Nat /\ Chan <= avail_size /\ avail_size <= Buff
           /\ pos - avail_size \in Nat
           /\ \E j \in Nat : /\ j + Chan <= avail_size /\ Counts(buffer, j)
                             /\ WholeSamples(setting) => j < Chan
                             /\ data_size > 0 => j = 0
<1>0. /\ Chan \in Nat \ {0} /\ Buff \in Nat \ {0} /\ Block \in Nat /\ Rest \in Nat
      /\ 2 * Chan <= Block /\ Rest + Block = Buff
  BY SizesAre
<1>1. /\ Asked /\ First(pos - avail_size, avail_size) /\ avail_size = data_size + read_size
      /\ avail_size \in 0..Buff /\ data_size \in 0..Buff /\ read_size \in 0..Buff /\ len \in 0..Buff
      /\ pos \in Nat /\ since \in Nat
  BY DEF Digesting, ArrayTypes, Device
<1>2. Chan <= len /\ len <= avail_size BY <1>1 DEF Asked
<1>3. since <= pos - avail_size BY <1>1 DEF First
<1>4. PICK n \in Nat : n = avail_size /\ Chan <= n /\ n <= Buff
  <2>1. avail_size \in Nat /\ Chan <= avail_size /\ avail_size <= Buff BY <1>0, <1>1, <1>2
  <2> QED BY <2>1
<1>5. PICK base \in Nat : base = pos - n BY <1>1, <1>3, <1>4
<1>6. Words(buffer, n, base) /\ (data_size > 0 => base % Chan = 0) BY <1>1, <1>4, <1>5 DEF First
<1>7. ASSUME NEW j \in Nat, j + Chan <= n, (base + j) % Chan = 0,
             (base + j) \div Chan \notin setting.silent
      PROVE  Counts(buffer, j)
  <2>0. j + Chan <= n /\ n <= Buff /\ Words(buffer, n, base) BY <1>4, <1>6, <1>7
  <2>1. /\ \A k \in 0..(Chan - 1) : At(buffer, j + k) = base + j + k
        /\ BadTags(buffer, j) <=> (base + j) % Chan # 0
    <3>1. CountsUp(buffer, j, base + j) BY <2>0, WordsAt
    <3>2. BadTags(buffer, j) <=> (base + j) % Chan # 0 BY <2>0, TagsOfWords
    <3> QED BY <3>1, <3>2 DEF CountsUp
  <2>2. 0 \in 0..(Chan - 1) /\ base + j + 0 = base + j BY <1>0
  <2>3. At(buffer, j + 0) = base + j BY <2>1, <2>2
  <2> HIDE DEF At
  <2>4. At(buffer, j + 0) \div Chan \notin setting.silent BY <2>3, <1>7
  <2>5. ~NoSound(buffer, j) BY <2>2, <2>4 DEF NoSound
  <2> QED BY <2>1, <2>5, <1>7 DEF Counts
<1>8. CASE WholeSamples(setting)
  <2>1. PICK r \in 0..(Chan - 1) : (base + r) % Chan = 0 /\ (data_size > 0 => r = 0)
    <3>1. CASE data_size > 0
      <4>1. 0 \in 0..(Chan - 1) /\ base + 0 = base BY <1>0
      <4> QED BY <4>1, <3>1, <1>6
    <3>2. CASE ~(data_size > 0)
      <4>1. PICK r \in 0..(Chan - 1) : (base + r) % Chan = 0 BY <1>0, NextMultiple
      <4> QED BY <4>1, <3>2
    <3> QED BY <3>1, <3>2
  <2>2. r + Chan <= n
    <3>1. CASE data_size > 0 BY <3>1, <2>1, <1>0, <1>4
    <3>2. CASE ~(data_size > 0)
      <4>1. data_size = 0 BY <3>2, <1>1
      <4>2. read_size >= Block
        <5>1. ~(read_size = 0 /\ data_size > len) BY <4>1, <1>1
        <5>2. read_size = Block \/ read_size >= Block BY <5>1, <1>1 DEF Asked
        <5> QED BY <5>2, <1>0, <1>1
      <4>3. n >= 2 * Chan BY <4>1, <4>2, <1>0, <1>1, <1>4
      <4> QED BY <4>3, <1>0
    <3> QED BY <3>1, <3>2
  <2>3. setting.silent = {} BY <1>8 DEF WholeSamples
  <2>4. r \in Nat BY <1>0
  <2>5. Counts(buffer, r) BY <2>1, <2>2, <2>3, <2>4, <1>7
  <2> QED BY <2>1, <2>2, <2>4, <2>5, <1>0, <1>4, <1>5
<1>9. CASE ~WholeSamples(setting)
  <2>1. BufferFull(setting) /\ len = Buff /\ data_size = 0 BY <1>1, <1>9 DEF Asked
  <2>2. n = Buff BY <2>1, <1>0, <1>2, <1>4
  <2>3. PICK f \in Nat \ setting.silent : base <= f * Chan /\ (f + 1) * Chan <= base + Buff
    <3>1. base \in Nat /\ setting.silent \in SUBSET Nat BY <1>0, SettingKnown DEF Asked
    <3> QED BY <3>1, <2>1, <1>0, SomeSound, Zenon
  <2>4. PICK x \in Nat : x = f * Chan BY <1>0
  <2>5. (f + 1) * Chan = x + Chan BY <2>4, <1>0, ProductLess
  <2>6. PICK j \in Nat : j = x - base BY <2>3, <2>4
  <2>7. j + Chan <= n /\ base + j = x BY <2>2, <2>3, <2>4, <2>5, <2>6, <1>0
  <2>8. x % Chan = 0 /\ x \div Chan = f
    <3>1. 0 \in 0..(Chan - 1) BY <1>0
    <3>2. (Chan * f + 0) % Chan = 0 /\ (Chan * f + 0) \div Chan = f BY <3>1, <1>0, ModUnique
    <3>3. Chan * f + 0 = x BY <2>4, <1>0
    <3> QED BY <3>2, <3>3
  <2>9. Counts(buffer, j)
    <3>1. (base + j) % Chan = 0 /\ (base + j) \div Chan \notin setting.silent BY <2>7, <2>8
    <3> QED BY <3>1, <2>7, <1>7
  <2> QED BY <2>1, <2>7, <2>9, <1>4, <1>5, <1>9
<1> QED BY <1>8, <1>9

\* So skipData finds a sample, and what it drops before it counts for nothing.
LEMMA Skipped ==
    ASSUME Sizes, ArrayTypes, Device, Digesting,
           NEW skip, skip = skipData(buffer, avail_size)
    PROVE  /\ skip \in Nat /\ skip + Chan <= avail_size
           /\ (pos - avail_size + skip) % Chan = 0
           /\ Before(pos - avail_size + skip)
           /\ WholeSamples(setting) => skip < Chan
           /\ data_size > 0 => skip = 0
<1>0. Chan \in Nat \ {0} /\ Buff \in Nat \ {0} BY SizesAre
<1>1. PICK n \in Nat : n = avail_size /\ Chan <= n /\ n <= Buff BY SomeCounts
<1>2. PICK base \in Nat : base = pos - n BY <1>1, SomeCounts
<1>3. PICK j \in Nat : /\ j + Chan <= n /\ Counts(buffer, j)
                       /\ WholeSamples(setting) => j < Chan
                       /\ data_size > 0 => j = 0
  BY <1>1, SomeCounts
<1>4. j \in 0..(Whole(n) - 1)
  <2>1. n - Chan < Whole(n) /\ Whole(n) \in Nat BY <1>1, WholeIs
  <2> HIDE DEF Whole
  <2> QED BY <2>1, <1>0, <1>3
<1>5. /\ skip \in 0..j /\ Counts(buffer, skip)
      /\ \A i \in 0..(skip - 1) : ~Counts(buffer, i)
  BY <1>1, <1>3, <1>4, FirstThatCounts
<1>6. skip \in Nat /\ skip <= j /\ skip + Chan <= n BY <1>0, <1>3, <1>5
<1>7. Words(buffer, n, base) /\ Before(base) BY <1>1, <1>2 DEF Digesting, First
<1>8. (base + skip) % Chan = 0
  <2>1. BadTags(buffer, skip) <=> (base + skip) % Chan # 0 BY <1>1, <1>6, <1>7, TagsOfWords
  <2> QED BY <2>1, <1>5 DEF Counts
<1>9. pos \in Nat /\ last \in Int BY DEF Device, ArrayTypes
<1>10. Before(base + skip)
  <2>1. (last + 1) * Chan <= base + skip
    <3>1. (last + 1) * Chan \in Int /\ (last + 1) * Chan <= base BY <1>0, <1>7, <1>9 DEF Before
    <3> QED BY <3>1, <1>6
  <2>2. ASSUME setting.lost = 0, NEW f \in complete, f * Chan < base + skip
        PROVE  f \in delivered \union setting.silent
    <3>0. f \in Nat /\ (f + 1) * Chan <= pos BY DEF Device
    <3>1. PICK x \in Nat : x = f * Chan BY <3>0, <1>0
    <3>2. (f + 1) * Chan = x + Chan BY <3>0, <3>1, <1>0, ProductLess
    <3>3. CASE x < base BY <2>2, <3>1, <3>3, <1>7 DEF Before
    <3>4. CASE x >= base
      <4>1. PICK i \in Nat : i = x - base BY <3>4
      <4>2. base + i = x /\ i + Chan <= n /\ i \in 0..(skip - 1)
        BY <2>2, <3>0, <3>1, <3>2, <4>1, <1>0, <1>1, <1>2, <1>6, <1>9
      <4>3. ~Counts(buffer, i) BY <4>2, <1>5
      <4>4. x % Chan = 0 /\ x \div Chan = f
        <5>1. 0 \in 0..(Chan - 1) BY <1>0
        <5>2. (Chan * f + 0) % Chan = 0 /\ (Chan * f + 0) \div Chan = f BY <5>1, <3>0, <1>0, ModUnique
        <5>3. Chan * f + 0 = x BY <3>0, <3>1, <1>0
        <5> QED BY <5>2, <5>3
      <4>5. /\ \A k \in 0..(Chan - 1) : At(buffer, i + k) = base + i + k
            /\ BadTags(buffer, i) <=> (base + i) % Chan # 0
        <5>1. i + Chan <= n BY <4>2
        <5>2. n <= Buff /\ Words(buffer, n, base) BY <1>1, <1>7
        <5>3. CountsUp(buffer, i, base + i) BY <5>1, <5>2, WordsAt
        <5>4. BadTags(buffer, i) <=> (base + i) % Chan # 0
          BY <5>1, <5>2, TagsOfWords
        <5> QED BY <5>3, <5>4 DEF CountsUp
      <4>6. NoSound(buffer, i)
        <5>1. ~BadTags(buffer, i) BY <4>2, <4>4, <4>5
        <5> QED BY <5>1, <4>3 DEF Counts
      <4>7. 0 \in 0..(Chan - 1) /\ base + i + 0 = x BY <4>2, <1>0
      <4>8. At(buffer, i + 0) = x BY <4>5, <4>7
      <4>9. x \div Chan \in setting.silent
        <5> HIDE DEF At
        <5> QED BY <4>6, <4>7, <4>8 DEF NoSound
      <4> QED BY <4>4, <4>9
    <3> QED BY <3>3, <3>4
  <2> QED BY <2>1, <2>2, <1>8 DEF Before
<1>11. pos - avail_size + skip = base + skip BY <1>1, <1>2
<1>12. WholeSamples(setting) => skip < Chan BY <1>0, <1>3, <1>6
<1>13. data_size > 0 => skip = 0 BY <1>3, <1>6
<1> QED BY <1>1, <1>6, <1>8, <1>10, <1>11, <1>12, <1>13

\* What skipData drops is dropped, and what is read next fills the buffer up.
LEMMA DigestFirst ==
    ASSUME Sizes, ArrayTypes, Device, Digesting, Digest, pc = "digest"
    PROVE  ArrayInv'
<1>0. /\ Chan \in Nat \ {0} /\ HwAlign \in Nat \ {0} /\ Buff \in Nat \ {0}
      /\ Block \in Nat \ {0} /\ Rest \in Nat
      /\ 2 * Chan <= Block /\ Block <= Rest /\ Rest + Block = Buff
      /\ HwAlign <= Chan /\ Buff % Chan = 0 /\ Chan % HwAlign = 0
      /\ Block % HwAlign = 0 /\ Buff % HwAlign = 0 /\ Rest % HwAlign = 0
  BY SizesAre
<1>1. PICK skip \in Nat : skip = skipData(buffer, avail_size) BY Skipped
<1>2. PICK n \in Nat : n = avail_size /\ Chan <= n /\ n <= Buff BY SomeCounts
<1>3. /\ skip + Chan <= n
      /\ (pos - n + skip) % Chan = 0 /\ Before(pos - n + skip)
      /\ WholeSamples(setting) => skip < Chan
      /\ data_size > 0 => skip = 0
  BY <1>1, <1>2, Skipped
<1>4. PICK base \in Nat : base = pos - n BY <1>2, SomeCounts
<1>5. PICK first \in Nat : first = base + skip /\ first = pos - n + skip BY <1>4
<1>6. PICK left \in Nat : left = n - skip /\ Chan <= left
  <2>1. n - skip \in Nat /\ Chan <= n - skip BY <1>0, <1>3
  <2> QED BY <2>1
<1>7. first % Chan = 0 /\ Before(first) /\ first + left = pos
  <2>1. first % Chan = 0 /\ Before(first) BY <1>3, <1>5
  <2>2. pos \in Nat BY DEF Device
  <2> QED BY <2>1, <2>2, <1>4, <1>5, <1>6
<1>8. /\ Asked /\ ~check_skip /\ data = data_size /\ n = data_size + read_size
      /\ since <= base /\ Words(buffer, n, base)
  BY <1>2, <1>4 DEF Digesting, First
<1>9. /\ WholeSamples(setting) \/ (BufferFull(setting) /\ len = Buff /\ data_size = 0)
      /\ Chan <= len /\ len % Chan = 0 /\ len \in Nat /\ len <= Buff /\ data_size <= Rest
      /\ len <= n /\ out = <<>>
      /\ read_size \in Nat /\ data_size \in Nat /\ read_size % HwAlign = 0
      /\ \/ read_size = Block /\ data_size <= len
         \/ read_size >= Block /\ data_size + read_size = len
         \/ read_size = 0 /\ data_size > len
      /\ buffer \in [Cell -> Int]
  BY <1>8, <1>0 DEF Asked, ArrayTypes
<1>10. n - len <= Rest BY <1>0, <1>8, <1>9
<1>11. n % HwAlign = 0
  <2>1. data_size % HwAlign = 0 /\ read_size % HwAlign = 0 BY <1>8 DEF Asked
  <2>2. PICK x \in Nat, y \in Nat : x = data_size /\ y = read_size BY <1>9
  <2>a. HwAlign \in Nat \ {0} /\ x % HwAlign = 0 /\ y % HwAlign = 0 BY <2>1, <2>2, <1>0
  <2>3. (x + y) % HwAlign = 0 BY <2>a, MultipleSum
  <2> QED BY <2>2, <2>3, <1>8
<1>12. left % HwAlign = 0 /\ skip % HwAlign = 0
  <2>1. PICK p \in Nat : p = pos /\ p % HwAlign = 0 BY DEF Device
  <2>2. first % HwAlign = 0 BY <1>0, <1>7, MultipleOf
  <2>3. first <= p /\ p - first = left BY <2>1, <1>7
  <2>a. HwAlign \in Nat \ {0} BY <1>0
  <2>4. (p - first) % HwAlign = 0 BY <2>a, <2>1, <2>2, <2>3, MultipleDifference
  <2>5. left % HwAlign = 0 BY <2>3, <2>4
  <2>6. left <= n /\ n - left = skip BY <1>6
  <2>7. (n - left) % HwAlign = 0 BY <2>a, <2>5, <2>6, <1>11, MultipleDifference
  <2> QED BY <2>5, <2>6, <2>7
<1>13. /\ UNCHANGED <<setting, pos, len, read_size, since, complete, last>>
       /\ pos \in Nat /\ since \in Nat
  BY DEF Digest, device, Device
<1>14. Device' BY <1>13 DEF Device
<1>15. CASE skip = 0
  <2>1. Deliver(buffer, n) /\ UNCHANGED <<data, avail_size, read_bytes, check_skip>>
    BY <1>1, <1>2, <1>15 DEF Digest
  <2>2. first = base BY <1>5, <1>15
  <2>3. Pieces(buffer, n, first, n, 0)
    <3>1. Laid(buffer, n, first, n, 0) BY <2>2, <1>8 DEF Laid, Place, Words
    <3>2. first + n + 0 = pos BY <2>2, <1>4, <1>13
    <3>3. since <= first BY <2>2, <1>8
    <3> QED BY <3>1, <3>2, <3>3 DEF Pieces
  <2>4. 0 \in 0..(Chan - 1) BY <1>0
  <2>5. /\ Between' /\ pc' = "idle"
        /\ buffer' \in [Cell -> Int] /\ data_size' \in 0..Buff
        /\ out' \in Seq([0..(Chan - 1) -> Int])
    BY <2>1, <2>3, <2>4, <1>2, <1>7, <1>9, <1>10, <1>11, <1>13, DeliverStep
  <2>6. ArrayTypes' BY <2>1, <2>5, <1>13 DEF ArrayTypes
  <2> QED BY <2>5, <2>6, <1>14 DEF ArrayInv
<1>16. CASE skip # 0
  <2> DEFINE b == Shifted(buffer, skip, left)
             more == ReadAgain(skip, left)
  <2>1. /\ data' = data + left /\ avail_size' = left /\ read_bytes' = more /\ check_skip'
        /\ IF more = 0 THEN Deliver(b, left)
           ELSE pc' = "read" /\ buffer' = b /\ UNCHANGED <<data_size, out, delivered>>
    <3>1. ~(check_skip \/ skip <= 0) /\ ~(left < 0) BY <1>6, <1>8, <1>16
    <3>2. avail_size - skip = left BY <1>2, <1>6
    <3> HIDE DEF b, more
    <3> QED BY <3>1, <3>2, <1>1 DEF Digest, b, more
  <2>2. data_size = 0 /\ n = read_size /\ data = 0 BY <1>3, <1>8, <1>9, <1>16
  <2>3. b \in [Cell -> Int]
    <3>1. \A k : At(buffer, k) \in Int
      <4> SUFFICES ASSUME NEW k PROVE At(buffer, k) \in Int
        OBVIOUS
      <4>1. CASE k \in Cell BY <4>1, <1>9 DEF At
      <4>2. CASE k \notin Cell BY <4>2 DEF At, Junk
      <4> QED BY <4>1, <4>2
    <3> HIDE DEF At
    <3> QED BY <3>1, <1>9 DEF Shifted
  <2>4. Words(b, left, first)
    <3> SUFFICES ASSUME NEW k \in 0..(left - 1) PROVE b[k] = first + k
      BY DEF Words
    <3>1. k \in Cell /\ k + skip \in Cell /\ k + skip \in 0..(n - 1) /\ k < left
      BY <1>0, <1>2, <1>6 DEF Cell
    <3>2. b[k] = buffer[k + skip] BY <3>1 DEF Shifted, At
    <3>3. buffer[k + skip] = base + (k + skip) BY <3>1, <1>8 DEF Words
    <3> QED BY <3>2, <3>3, <1>5
  <2>5. left <= Buff /\ since <= first
    <3>1. left <= Buff BY <1>0, <1>2, <1>6
    <3>2. since \in Nat /\ since <= base BY <1>8, <1>13
    <3> QED BY <3>1, <3>2, <1>5
  <2> HIDE DEF b
  <2>6. CASE left >= len
    <3>1. more = 0 BY <2>6 DEF ReadAgain
    <3>2. Deliver(b, left) BY <2>1, <3>1
    <3>3. Pieces(b, left, first, left, 0)
      <4>1. Laid(b, left, first, left, 0) BY <2>4 DEF Laid, Place, Words
      <4> QED BY <4>1, <2>5, <1>7 DEF Pieces
    <3>4. 0 \in 0..(Chan - 1) BY <1>0
    <3>5. len <= left /\ left - len <= Rest BY <2>6, <1>0, <1>6, <1>9, <1>10
    <3>6. /\ Between' /\ pc' = "idle"
          /\ buffer' \in [Cell -> Int] /\ data_size' \in 0..Buff
          /\ out' \in Seq([0..(Chan - 1) -> Int])
      BY <2>3, <2>5, <3>2, <3>3, <3>4, <3>5, <1>7, <1>9, <1>12, <1>13, DeliverStep
    <3>7. /\ data' \in 0..Buff /\ avail_size' \in 0..Buff /\ read_bytes' \in 0..Buff
          /\ check_skip' \in BOOLEAN
      BY <2>1, <2>2, <2>5, <3>1, <1>0
    <3>8. ArrayTypes' BY <3>6, <3>7, <1>13 DEF ArrayTypes
    <3> QED BY <3>6, <3>8, <1>14 DEF ArrayInv
  <2>7. CASE ~(left >= len)
    <3>1. /\ more \in Nat \ {0} /\ more % HwAlign = 0
          /\ len <= left + more /\ left + more <= Buff /\ left + more - len <= Rest
      <4>1. CASE left + read_size > Buff
        <5>1. more = Buff - left - (read_size % HwAlign) BY <2>7, <4>1 DEF ReadAgain
        <5>2. more = Buff - left BY <5>1, <1>0, <1>9
        <5> HIDE DEF more
        <5>3. left < Buff BY <2>7, <1>0, <1>9
        <5>4. more \in Nat \ {0} /\ left + more = Buff BY <5>2, <5>3, <1>0
        <5>5. (Buff - left) % HwAlign = 0
          <6>1. Buff \in Nat /\ left <= Buff BY <5>3, <1>0
          <6> QED BY <6>1, <1>0, <1>12, MultipleDifference
        <5>6. Buff - len <= Rest BY <2>2, <2>7, <4>1, <1>0, <1>6, <1>9
        <5> QED BY <5>2, <5>4, <5>5, <5>6, <1>9
      <4>2. CASE ~(left + read_size > Buff)
        <5>1. WholeSamples(setting)
          <6>1. CASE len = Buff BY <6>1, <2>2, <4>2, <1>0, <1>6, <1>9
          <6> QED BY <6>1, <1>9
        <5>2. skip < Chan /\ skip - (skip % HwAlign) + HwAlign <= Block
          <6>1. skip < Chan BY <5>1, <1>3
          <6>2. skip - 0 + HwAlign <= Block BY <6>1, <1>0
          <6> QED BY <6>1, <6>2, <1>12
        <5>3. more = Larger(skip - (skip % HwAlign) + HwAlign, Block)
          BY <2>7, <4>2 DEF ReadAgain
        <5>4. PICK m : m = skip - (skip % HwAlign) + HwAlign /\ m <= Block
          BY <5>2
        <5>a. m \in Int
          <6>1. skip - 0 + HwAlign \in Int BY <1>0
          <6> QED BY <6>1, <5>4, <1>12
        <5>b. more = Larger(m, Block) BY <5>3, <5>4
        <5>5. more = Block
          <6> HIDE DEF more
          <6> QED BY <5>4, <5>a, <5>b, <1>0 DEF Larger
        <5> HIDE DEF more
        <5>6. read_size >= Block BY <2>2, <1>0, <1>9
        <5> QED BY <5>2, <5>5, <5>6, <2>7, <4>2, <1>0, <1>6, <1>9
      <4> QED BY <4>1, <4>2
    <3>2. PICK m \in Nat : m = more /\ m # 0 BY <3>1
    <3> HIDE DEF more
    <3>3. /\ pc' = "read" /\ buffer' = b /\ UNCHANGED <<data_size, out, delivered>>
          /\ data' = left /\ avail_size' = left /\ read_bytes' = m /\ check_skip'
      BY <2>1, <2>2, <3>2
    <3>4. ArrayTypes'
      <4>1. left \in 0..Buff /\ m \in 0..Buff BY <3>1, <3>2, <1>0, <2>5
      <4>2. check_skip' \in BOOLEAN
        <5>1. check_skip' = TRUE BY <1>1, <1>2, <1>6, <1>8, <1>16 DEF Digest
        <5> QED BY <5>1
      <4> QED BY <4>1, <4>2, <2>3, <3>3, <1>13 DEF ArrayTypes
    <3>5. Asked' BY <3>3, <1>8, <1>13 DEF Asked
    <3>6. pos' - avail_size' = first BY <3>3, <1>7, <1>13
    <3>7. Before(first)' BY <3>3, <1>7, <1>13 DEF Before
    <3>8. ReadingAgain'
      <4>1. 0 < left /\ left < len BY <2>7, <1>0, <1>6, <1>9
      <4>2. since' <= first /\ Words(buffer', left, first) BY <2>4, <2>5, <3>3, <1>13
      <4>3. m > 0 /\ m % HwAlign = 0 /\ len' <= left + m /\ left + m <= Buff /\ left + m - len' <= Rest
        BY <3>1, <3>2, <1>13
      <4> QED BY <4>1, <4>2, <4>3, <3>3, <3>5, <3>6, <3>7, <1>7, <1>13 DEF ReadingAgain
    <3> QED BY <3>3, <3>4, <3>8, <1>14 DEF ArrayInv
  <2> QED BY <2>6, <2>7
<1> QED BY <1>15, <1>16

\* After the second read nothing is dropped.
LEMMA DigestSecond ==
    ASSUME Sizes, ArrayTypes, Device, DigestingAgain, Digest, pc = "digest"
    PROVE  ArrayInv'
<1>0. Chan \in Nat \ {0} /\ Buff \in Nat \ {0} BY SizesAre
<1>1. PICK first \in Nat, cut \in 0..Buff, gap \in 0..(Chan - 1) :
          /\ Pieces(buffer, avail_size, first, cut, gap)
          /\ first % Chan = 0 /\ Before(first)
  BY DEF DigestingAgain
<1>2. PICK n \in Nat : n = avail_size /\ len <= n /\ n <= Buff /\ n - len <= Rest /\ n % HwAlign = 0
  BY <1>0 DEF DigestingAgain, ArrayTypes
<1>3. Pieces(buffer, n, first, cut, gap) /\ cut \in Nat BY <1>0, <1>1, <1>2
<1>4. Deliver(buffer, n) /\ UNCHANGED <<data, avail_size, read_bytes, check_skip>>
  BY <1>2 DEF Digest, DigestingAgain
<1>5. UNCHANGED <<setting, pos, len, read_size, since, complete, last>> BY DEF Digest, device
<1>6. /\ WholeSamples(setting) \/ (BufferFull(setting) /\ len = Buff)
      /\ Chan <= len /\ len % Chan = 0 /\ buffer \in [Cell -> Int]
  BY DEF DigestingAgain, Asked, ArrayTypes
<1>7. /\ Between' /\ pc' = "idle"
      /\ buffer' \in [Cell -> Int] /\ data_size' \in 0..Buff
      /\ out' \in Seq([0..(Chan - 1) -> Int])
  BY <1>1, <1>2, <1>3, <1>4, <1>5, <1>6, DeliverStep
<1>8. ArrayTypes' BY <1>4, <1>5, <1>7 DEF ArrayTypes
<1>9. Device' BY <1>5 DEF Device
<1> QED BY <1>7, <1>8, <1>9 DEF ArrayInv

\* A handle not opened yet has nothing behind it.
LEMMA ArrayInit == Sizes /\ Init => ArrayInv
<1> SUFFICES ASSUME Sizes, Init PROVE ArrayInv
  OBVIOUS
<1>0. Chan \in Nat \ {0} /\ HwAlign \in Nat \ {0} /\ Buff \in Nat \ {0} /\ Rest \in Nat BY SizesAre
<1>1. pos \in Nat /\ pos % HwAlign = 0 /\ since = pos BY SpeechArrayAssumption DEF Init, Sizes
<1>2. ArrayTypes
  <2>1. buffer \in [Cell -> Int] BY DEF Init, Junk
  <2>2. out \in Seq([0..(Chan - 1) -> Int]) BY DEF Init
  <2>3. setting \in Setting /\ last \in Int /\ check_skip \in BOOLEAN
    <3>1. setting \in Setting BY DEF Init
    <3>2. last = -1 BY DEF Init
    <3>3. check_skip = FALSE BY DEF Init
    <3>4. check_skip \in BOOLEAN BY <3>3, Zenon
    <3> QED BY <3>1, <3>2, <3>4
  <2>4. 0 \in 0..Buff BY <1>0
  <2>5. /\ data_size = 0 /\ len = 0 /\ avail_size = 0
        /\ data = 0 /\ read_size = 0 /\ read_bytes = 0
    BY DEF Init
  <2> QED BY <2>1, <2>2, <2>3, <2>4, <2>5 DEF ArrayTypes
<1>3. Device
  <2>1. ASSUME NEW f \in Nat, since <= f * Chan, (f + 1) * Chan <= pos PROVE FALSE
    <3>1. f * Chan \in Nat /\ (f + 1) * Chan = f * Chan + Chan BY <1>0, ProductLess
    <3> QED BY <3>1, <2>1, <1>0, <1>1
  <2>2. complete = {} BY DEF Init
  <2> QED BY <2>1, <2>2, <1>1 DEF Device
<1>4. Between
  <2>1. out = <<>> /\ len = 0 /\ data_size = 0 /\ last = -1 /\ complete = {} BY DEF Init
  <2>2. 0 % HwAlign = 0 /\ 0 * Chan = 0 /\ Len(<<>>) = 0 BY <1>0
  <2>3. Before(pos)
    <3>1. (last + 1) * Chan = 0 BY <2>1, <2>2
    <3> QED BY <3>1, <2>1, <1>1 DEF Before
  <2>4. pos - data_size = pos BY <2>1, <1>1
  <2>5. Words(buffer, data_size, pos) BY <2>1 DEF Words
  <2>6. Ordered BY <2>1 DEF Ordered
  <2>7. Len(out) * Chan = len BY <2>1, <2>2
  <2>8. data_size <= Rest /\ data_size % HwAlign = 0 /\ ~(data_size > 0) BY <2>1, <2>2, <1>0
  <2>9. \A i \in 1..Len(out) : FALSE BY <2>1
  <2>10. since <= pos /\ Len(out) * Chan <= len BY <2>1, <2>7, <1>1
  <2> QED BY <2>3, <2>4, <2>5, <2>6, <2>7, <2>8, <2>9, <2>10 DEF Between
<1>5. pc = "none" BY DEF Init
<1> QED BY <1>2, <1>3, <1>4, <1>5 DEF ArrayInv

\* No step of the handle or of the device disturbs the invariant.
LEMMA ArrayStep == Sizes /\ setting \in Served /\ ArrayInv /\ [Next]_vars => ArrayInv'
<1> SUFFICES ASSUME Sizes, setting \in Served, ArrayInv, [Next]_vars PROVE ArrayInv'
  OBVIOUS
<1>1. CASE speechArrayOpen
  <2>1. pc = "none" /\ pc' = "idle" BY <1>1 DEF speechArrayOpen
  <2>2. ArrayTypes' /\ Device' /\ (Between => Between')
    BY <1>1, Unread DEF speechArrayOpen, device, handle, history
  <2> QED BY <2>1, <2>2 DEF ArrayInv
<1>2. ASSUME NEW step \in Part, speechArrayOpen_fails(step) PROVE ArrayInv'
  <2>1. pc = "none" /\ pc' = "failed" BY <1>2 DEF speechArrayOpen_fails
  <2>2. ArrayTypes' /\ Device' /\ (Between => Between')
    BY <1>2, Unread DEF speechArrayOpen_fails, device, handle, history
  <2> QED BY <2>1, <2>2 DEF ArrayInv
<1>3. CASE speechArrayClose
  <2>1. pc = "idle" /\ pc' = "closed" BY <1>3 DEF speechArrayClose
  <2>2. ArrayTypes' /\ Device' /\ (Between => Between')
    BY <1>3, Unread DEF speechArrayClose, device, handle, history
  <2> QED BY <2>1, <2>2 DEF ArrayInv
<1>4. ASSUME NEW n \in setting.asks, Read(n) PROVE ArrayInv'
  BY <1>4, ReadStep
<1>5. CASE PcmRead
  BY <1>5, PcmReadStep
<1>6. CASE Digest
  <2>1. pc = "digest" BY <1>6 DEF Digest
  <2>2. ArrayTypes /\ Device /\ (Digesting \/ DigestingAgain) BY <2>1 DEF ArrayInv
  <2>3. CASE Digesting BY <2>1, <2>2, <2>3, <1>6, DigestFirst
  <2>4. CASE DigestingAgain BY <2>1, <2>2, <2>4, <1>6, DigestSecond
  <2> QED BY <2>2, <2>3, <2>4
<1>7. CASE Fail \/ UNCHANGED vars
  <2>1. UNCHANGED <<setting, pos, buffer, data_size, len, data, avail_size, read_size,
                    read_bytes, check_skip, out, since, complete, delivered, last, pc>>
    BY <1>7 DEF Fail, vars, device, handle, call, history
  <2>2. /\ ArrayTypes' /\ Device' /\ (Between => Between')
        /\ (Reading => Reading') /\ (ReadingAgain => ReadingAgain')
        /\ (Digesting => Digesting') /\ (DigestingAgain => DigestingAgain')
    BY <2>1, Unread
  <2> QED BY <2>1, <2>2 DEF ArrayInv
<1> QED BY <1>1, <1>2, <1>3, <1>4, <1>5, <1>6, <1>7 DEF Next

\* Samples are returned in order, and between calls nothing is missing.
LEMMA ArrayKeeps ==
    ASSUME Sizes, ArrayInv
    PROVE  InOrder /\ NothingLost
<1>0. Chan \in Nat \ {0} BY SizesAre
<1>1. CASE pc \notin {"read", "digest"}
  <2>1. Between /\ ArrayTypes /\ Device /\ pc # "crashed" BY <1>1 DEF ArrayInv
  <2>2. InOrder BY <2>1 DEF Between, Ordered, InOrder
  <2>3. NothingLost
    <3> SUFFICES ASSUME setting.lost = 0
                 PROVE  /\ \A f \in complete \ (delivered \union setting.silent) :
                              \E i \in 0..(data_size - Chan) :
                                  \A k \in 0..(Chan - 1) : buffer[i + k] = f * Chan + k
                        /\ setting.silent = {} => Len(out) * Chan = len
      BY DEF NothingLost
    <3>1. setting.silent = {} => Len(out) * Chan = len BY <2>1 DEF Between
    <3>2. ASSUME NEW f \in complete \ (delivered \union setting.silent)
          PROVE  \E i \in 0..(data_size - Chan) :
                     \A k \in 0..(Chan - 1) : buffer[i + k] = f * Chan + k
      <4>0. pos \in Nat /\ since \in Nat /\ data_size \in Nat BY <2>1 DEF Device, ArrayTypes
      <4>1. PICK first \in Nat : first = pos - data_size
        <5>1. since <= pos - data_size BY <2>1 DEF Between
        <5> QED BY <5>1, <4>0
      <4>2. Before(first) /\ Words(buffer, data_size, first) BY <2>1, <4>1 DEF Between
      <4>3. f \in Nat /\ (f + 1) * Chan <= pos BY <3>2, <2>1 DEF Device
      <4>4. ~(f * Chan < first) BY <3>2, <4>2 DEF Before
      <4>5. PICK x \in Nat : x = f * Chan BY <4>3, <1>0
      <4>6. (f + 1) * Chan = x + Chan BY <4>3, <4>5, <1>0, ProductLess
      <4>7. PICK i \in Nat : i = x - first BY <4>4, <4>5
      <4>8. i \in 0..(data_size - Chan) BY <4>0, <4>1, <4>3, <4>5, <4>6, <4>7, <1>0
      <4>9. ASSUME NEW k \in 0..(Chan - 1) PROVE buffer[i + k] = f * Chan + k
        <5>1. i + k \in 0..(data_size - 1) BY <4>0, <4>8, <1>0
        <5>2. buffer[i + k] = first + (i + k) BY <5>1, <4>2 DEF Words
        <5> QED BY <5>2, <4>5, <4>7
      <4> QED BY <4>8, <4>9
    <3> QED BY <3>1, <3>2
  <2> QED BY <2>2, <2>3
<1>2. CASE pc \in {"read", "digest"}
  <2>1. out = <<>> /\ len \in Nat
    BY <1>2 DEF ArrayInv, Reading, ReadingAgain, Digesting, DigestingAgain, Asked, ArrayTypes
  <2>2. Len(out) = 0 BY <2>1
  <2>3. InOrder BY <2>2 DEF InOrder
  <2>4. NothingLost BY <1>2 DEF NothingLost
  <2> QED BY <2>3, <2>4
<1> QED BY <1>1, <1>2

-----------------------------------------------------------------------------
(* For every client, array and device: where a call writes.                *)

\* The words of the device keep their place within a frame of the device.
Aligned(b) == \A k \in Cell : b[k] >= 0 => b[k] % HwAlign = k % HwAlign

\* Before the first read, between it and skipData, before the second, after it.
FirstRead ==
    /\ data = data_size /\ avail_size = data_size /\ read_bytes = read_size
    /\ read_size >= Block
    /\ data_size + Block <= Buff => data_size + read_size <= Buff

FirstDigest ==
    /\ avail_size = data_size + read_size /\ avail_size <= Buff /\ data = data_size
    /\ read_size >= Block \/ (read_size = 0 /\ data_size > len)

SecondRead ==
    /\ avail_size \in 0..Buff /\ avail_size % HwAlign = 0
    /\ data \in Nat /\ data % HwAlign = 0 /\ avail_size <= data
    /\ read_bytes \in Nat /\ read_bytes % HwAlign = 0 /\ Chan <= avail_size + read_bytes
    /\ data_size = 0 /\ avail_size > 0 => data + read_bytes <= Buff

SecondDigest == avail_size \in Chan..Buff /\ avail_size % HwAlign = 0

Calling ==
    /\ Chan <= len /\ len % Chan = 0 /\ out = <<>>
    /\ read_size \in 0..Buff /\ read_size % HwAlign = 0
    /\ check_skip \in BOOLEAN
    /\ pc = "read" /\ ~check_skip => FirstRead
    /\ pc = "digest" /\ ~check_skip => FirstDigest
    /\ pc = "read" /\ check_skip => SecondRead
    /\ pc = "digest" /\ check_skip => SecondDigest

Inside ==
    /\ setting \in Setting
    /\ pos \in Nat /\ pos % HwAlign = 0
    /\ buffer \in [Cell -> Int] /\ Aligned(buffer)
    /\ data_size \in 0..Buff /\ data_size % HwAlign = 0
    /\ len \in 0..Buff /\ Len(out) * Chan <= len
    /\ pc \in {"read", "digest"} => Calling
    /\ pc = "crashed" => AddedTwice \/ KeptTooMuch \/ NothingFound

\* Multiples do not change a remainder.
LEMMA RemainderKept ==
    ASSUME NEW b \in Nat \ {0}, NEW a \in Nat, NEW c \in Nat, c % b = 0
    PROVE  (a + c) % b = a % b
<1>1. PICK k \in Nat, r \in 0..(b - 1) : a = b * k + r /\ r = a % b BY ModIs
<1>2. PICK m \in Nat : c = b * m BY Multiple
<1>3. a + c = b * (k + m) + r /\ k + m \in Nat BY <1>1, <1>2
<1>4. (b * (k + m) + r) % b = r BY <1>3, ModUnique
<1> QED BY <1>1, <1>3, <1>4

\* A sample starts where a frame of the device does.
LEMMA SampleAligned ==
    ASSUME Sizes, NEW b \in [Cell -> Int], Aligned(b), NEW i \in Nat, ~BadTags(b, i)
    PROVE  i % HwAlign = 0
<1>0. Chan \in Nat \ {0} /\ HwAlign \in Nat \ {0} /\ Chan % HwAlign = 0 BY SizesAre
<1>1. 0 \in 0..(Chan - 1) /\ i + 0 = i BY <1>0
<1>2. ~(At(b, i) < 0) /\ At(b, i) % Chan = 0 BY <1>1 DEF BadTags
<1>3. i \in Cell BY <1>2 DEF At, Junk
<1>4. b[i] \in Nat /\ b[i] % Chan = 0 BY <1>2, <1>3 DEF At
<1>5. b[i] % HwAlign = 0 BY <1>0, <1>4, MultipleOf
<1> QED BY <1>3, <1>4, <1>5 DEF Aligned

\* skipData drops whole frames of the device.
LEMMA SkipAligned ==
    ASSUME Sizes, NEW b \in [Cell -> Int], Aligned(b), NEW n \in Nat, Chan <= n
    PROVE  skipData(b, n) \in Nat /\ skipData(b, n) % HwAlign = 0
<1>0. /\ Chan \in Nat \ {0} /\ HwAlign \in Nat \ {0} /\ Chan % HwAlign = 0
      /\ Whole(n) \in Nat /\ Whole(n) % Chan = 0
  BY SizesAre, WholeIs
<1>1. PICK g : SkipLoop(b, Whole(n), 0, g) /\ skipData(b, n) = g[0] BY SkipIs
<1> DEFINE w == Whole(n)
           N == w + Chan
           Fits(i) == i <= w \/ i % HwAlign = 0
           Good(i) == g[i] \in Nat /\ g[i] % HwAlign = 0
           T == {d \in 0..N : Fits(N - d) /\ ~Good(N - d)}
<1>2. \A i \in 0..N : g[i] = SkipFrom(b, w, g, i)
  BY <1>1, Zenon DEF SkipLoop
<1>w. w \in Nat /\ N \in Nat /\ N = w + Chan BY <1>0
<1>m. w % HwAlign = 0 BY <1>0, MultipleOf
<1> HIDE DEF w, N
<1>3. T = {}
  <2> SUFFICES ASSUME T # {} PROVE FALSE
    OBVIOUS
  <2>1. T \subseteq Nat BY <1>w
  <2>2. PICK d \in T : \A y \in T : d <= y
    <3> HIDE DEF T
    <3> QED BY <2>1, LeastNumber
  <2> DEFINE i == N - d
  <2>3. i \in 0..N /\ d \in 0..N /\ Fits(i) /\ ~Good(i) BY <2>2, <1>w
  <2>4. \A j \in (i + 1)..N : Fits(j) => Good(j)
    <3> SUFFICES ASSUME NEW j \in (i + 1)..N, Fits(j), ~Good(j) PROVE FALSE
      OBVIOUS
    <3>1. N - j \in 0..N /\ N - (N - j) = j /\ N - j < d BY <2>3, <1>w
    <3>2. N - j \in T BY <3>1
    <3> QED BY <2>2, <3>1, <3>2
  <2> HIDE DEF T, i
  <2>5. g[i] = SkipFrom(b, w, g, i) BY <1>2, <2>3
  <2>6. CASE i >= w
    <3>1. i % HwAlign = 0
      <4>1. i = w \/ i % HwAlign = 0 BY <2>3, <2>6, <1>w
      <4> QED BY <4>1, <1>m
    <3>2. g[i] = i BY <2>5, <2>6 DEF SkipFrom
    <3> QED BY <2>3, <3>1, <3>2
  <2>7. CASE i < w
    <3>0. i \in Nat /\ ~(i >= w) BY <2>3, <2>7, <1>w
    <3>1. CASE BadTags(b, i)
      <4>1. i + 1 \in (i + 1)..N /\ i + 1 <= w BY <2>7, <3>0, <1>w, <1>0
      <4>2. g[i] = g[i + 1] BY <2>5, <3>0, <3>1 DEF SkipFrom
      <4> QED BY <2>3, <2>4, <4>1, <4>2
    <3>2. CASE ~BadTags(b, i)
      <4>1. i % HwAlign = 0 BY <3>0, <3>2, SampleAligned
      <4>2. i + Chan \in (i + 1)..N BY <2>7, <3>0, <1>w, <1>0
      <4>3. (i + Chan) % HwAlign = 0 BY <4>1, <3>0, <1>0, MultipleSum
      <4>4. g[i] = g[i + Chan] \/ g[i] = i BY <2>5, <3>0, <3>2 DEF SkipFrom
      <4>5. CASE g[i] = g[i + Chan] BY <2>3, <2>4, <4>2, <4>3, <4>5
      <4>6. CASE g[i] = i BY <2>3, <3>0, <4>1, <4>6
      <4> QED BY <4>4, <4>5, <4>6
    <3> QED BY <3>1, <3>2
  <2> QED BY <2>3, <2>6, <2>7, <1>w
<1>4. N \in 0..N /\ N - N = 0 /\ Fits(0) BY <1>w
<1>5. Good(0) BY <1>3, <1>4
<1> QED BY <1>1, <1>5

\* What a call returns fits, and what it keeps is in the buffer.
LEMMA DeliverInside ==
    ASSUME Sizes, NEW b \in [Cell -> Int], Aligned(b), NEW avail \in Chan..Buff,
           avail % HwAlign = 0, len \in Chan..Buff, len % Chan = 0, Deliver(b, avail)
    PROVE  /\ pc' = "idle" /\ Len(out') * Chan <= len
           /\ data_size' \in 0..Buff /\ data_size' % HwAlign = 0
           /\ buffer' \in [Cell -> Int] /\ Aligned(buffer')
<1> DEFINE size == Smaller(avail, len)
           samples == parseData(b, size)
<1>0. /\ Chan \in Nat \ {0} /\ HwAlign \in Nat \ {0} /\ Buff \in Nat \ {0}
      /\ Chan % HwAlign = 0
  BY SizesAre
<1>1. size \in Chan..Buff /\ size <= avail /\ size <= len /\ size \in Nat /\ avail \in Nat
  BY <1>0 DEF Smaller
<1>2. size % HwAlign = 0
  <2>1. len \in Nat BY <1>0
  <2>2. len % HwAlign = 0 BY <1>0, <2>1, MultipleOf
  <2> QED BY <2>2 DEF Smaller
<1>3. /\ out' = samples /\ data_size' = avail - size
      /\ buffer' = IF avail > size
                   THEN [k \in Cell |-> IF k < avail - size THEN b[k + size] ELSE Junk]
                   ELSE [k \in Cell |-> IF k < Len(samples) * (Chan \div 4) THEN Junk ELSE b[k]]
      /\ pc' = IF size < Chan THEN "crashed" ELSE "idle"
  BY DEF Deliver
<1>4. samples \in Seq([0..(Chan - 1) -> Int]) /\ Len(samples) * Chan <= size
  <2> HIDE DEF size
  <2> QED BY <1>0, <1>1, ParseFits DEF Found
<1> HIDE DEF size, samples
<1>5. (avail - size) % HwAlign = 0 BY <1>0, <1>1, <1>2, MultipleDifference
<1>6. pc' = "idle" /\ data_size' \in 0..Buff /\ data_size' % HwAlign = 0
  BY <1>0, <1>1, <1>3, <1>5
<1>7. Len(out') * Chan <= len
  <2>1. Len(samples) \in Nat BY <1>4
  <2>2. Len(samples) * Chan \in Nat BY <2>1, <1>0
  <2> QED BY <2>2, <1>0, <1>1, <1>3, <1>4
<1>8. CASE avail > size
  <2>1. buffer' = [k \in Cell |-> IF k < avail - size THEN b[k + size] ELSE Junk]
    BY <1>3, <1>8
  <2>2. \A k \in Cell : k < avail - size => k + size \in Cell /\ k \in Nat
    BY <1>0, <1>1 DEF Cell
  <2>3. buffer' \in [Cell -> Int] BY <2>1, <2>2 DEF Junk
  <2>4. Aligned(buffer')
    <3> SUFFICES ASSUME NEW k \in Cell, buffer'[k] >= 0
                 PROVE  buffer'[k] % HwAlign = k % HwAlign
      BY Zenon DEF Aligned
    <3>1. k < avail - size /\ buffer'[k] = b[k + size] BY <2>1 DEF Junk
    <3>2. b[k + size] % HwAlign = (k + size) % HwAlign BY <3>1, <2>2 DEF Aligned
    <3>3. (k + size) % HwAlign = k % HwAlign BY <3>1, <2>2, <1>0, <1>1, <1>2, RemainderKept
    <3> QED BY <3>1, <3>2, <3>3
  <2> QED BY <1>6, <1>7, <2>3, <2>4
<1>9. CASE ~(avail > size)
  <2>1. buffer' = [k \in Cell |-> IF k < Len(samples) * (Chan \div 4) THEN Junk ELSE b[k]]
    BY <1>3, <1>9
  <2>2. buffer' \in [Cell -> Int] BY <2>1 DEF Junk
  <2>3. \A k \in Cell : buffer'[k] = Junk \/ buffer'[k] = b[k] BY <2>1
  <2>4. Aligned(buffer') BY <2>3 DEF Aligned, Junk
  <2> QED BY <1>6, <1>7, <2>2, <2>4
<1> QED BY <1>8, <1>9

\* Before the first call.
LEMMA InsideInit == Sizes /\ Init => Inside
<1> SUFFICES ASSUME Sizes, Init PROVE Inside
  OBVIOUS
<1>0. Chan \in Nat \ {0} /\ HwAlign \in Nat \ {0} /\ Buff \in Nat \ {0} BY SizesAre
<1>1. pos \in Nat /\ pos % HwAlign = 0 /\ setting \in Setting
  BY SpeechArrayAssumption DEF Init, Sizes
<1>2. buffer \in [Cell -> Int] /\ Aligned(buffer) BY DEF Init, Junk, Aligned
<1>3. 0 % HwAlign = 0 /\ data_size = 0 /\ len = 0 BY <1>0 DEF Init
<1>4. Len(out) * Chan <= len BY <1>0 DEF Init
<1>5. pc = "none" BY DEF Init
<1> QED BY <1>0, <1>1, <1>2, <1>3, <1>4, <1>5 DEF Inside

\* Read asks for what fits after the words kept, if they leave room for a block.
LEMMA ReadInside ==
    ASSUME Sizes, Inside, NEW n \in setting.asks, Read(n)
    PROVE  Inside'
<1> DEFINE need == AtMost(n)
           size == IF data_size > need THEN 0 ELSE Larger(RoundUp(need - data_size), Block)
<1>0. /\ Chan \in Nat \ {0} /\ HwAlign \in Nat \ {0} /\ Buff \in Nat \ {0} /\ Block \in Nat \ {0}
      /\ Buff % Chan = 0 /\ Chan % HwAlign = 0 /\ Block % HwAlign = 0 /\ Buff % HwAlign = 0
      /\ 2 * Chan <= Block /\ Block <= Buff
  BY SizesAre
<1>1. n \in Nat /\ n >= Chan /\ n % Chan = 0 BY SpeechArrayAssumption DEF Inside
<1>2. need \in Chan..Buff /\ need % Chan = 0 /\ need \in Nat
  BY <1>0, <1>1 DEF AtMost, Smaller
<1>3. need % HwAlign = 0 BY <1>0, <1>2, MultipleOf
<1>4. data_size \in Nat /\ data_size <= Buff /\ data_size % HwAlign = 0 BY <1>0 DEF Inside
<1>5. /\ len' = need /\ read_size' = size /\ read_bytes' = size
      /\ pc' = IF size = 0 THEN "digest" ELSE "read"
      /\ data' = data_size /\ avail_size' = data_size /\ check_skip' = FALSE /\ out' = <<>>
      /\ UNCHANGED <<setting, pos, buffer, data_size>>
  BY DEF Read, device, handle
<1> HIDE DEF need
<1>b. Chan <= need /\ need \in 0..Buff BY <1>0, <1>2
<1>c. Len(out') * Chan <= len' BY <1>0, <1>2, <1>5
<1>d. need % Chan = 0 BY <1>2
<1>6. CASE data_size > need
  <2>1. size = 0 BY <1>6
  <2>2. 0 % HwAlign = 0 BY <1>0
  <2>3. FirstDigest' /\ pc' = "digest" BY <1>4, <1>5, <1>6, <2>1 DEF FirstDigest
  <2>4. Chan <= len' /\ len' % Chan = 0 /\ len' \in 0..Buff BY <1>5, <1>b, <1>d, Zenon
  <2>5. read_size' \in 0..Buff /\ read_size' % HwAlign = 0 /\ read_size' = 0
    <3>1. read_size' = 0 BY <1>5, <2>1
    <3> QED BY <3>1, <2>2, <1>0
  <2>6. Calling' BY <1>5, <2>3, <2>4, <2>5 DEF Calling
  <2> QED BY <1>5, <1>c, <2>3, <2>4, <2>6 DEF Inside, Aligned
<1>7. CASE ~(data_size > need)
  <2>1. need - data_size \in Nat /\ (need - data_size) % HwAlign = 0
    <3>1. data_size <= need /\ need - data_size \in Nat BY <1>2, <1>4, <1>7
    <3>2. HwAlign \in Nat \ {0} /\ need \in Nat /\ data_size \in Nat BY <1>0, <1>2, <1>4
    <3>3. need % HwAlign = 0 /\ data_size % HwAlign = 0 BY <1>3, <1>4
    <3>4. (need - data_size) % HwAlign = 0 BY <3>1, <3>2, <3>3, MultipleDifference, Zenon
    <3> QED BY <3>1, <3>4
  <2>2. RoundUp(need - data_size) = need - data_size BY <2>1 DEF RoundUp
  <2>3. size = Larger(need - data_size, Block) BY <1>7, <2>2
  <2>4. /\ size \in 0..Buff /\ size >= Block /\ size # 0 /\ size % HwAlign = 0
        /\ data_size + Block <= Buff => data_size + size <= Buff
    BY <1>0, <1>2, <1>4, <2>1, <2>3 DEF Larger
  <2> HIDE DEF size
  <2>5. FirstRead' /\ pc' = "read" BY <1>5, <2>4 DEF FirstRead, Block
  <2>6. Chan <= len' /\ len' % Chan = 0 /\ len' \in 0..Buff BY <1>5, <1>b, <1>d, Zenon
  <2>7. read_size' \in 0..Buff /\ read_size' % HwAlign = 0 BY <1>5, <2>4, Zenon
  <2>8. check_skip' = FALSE /\ out' = <<>> BY <1>5
  <2>9. Calling' BY <2>5, <2>6, <2>7, <2>8 DEF Calling
  <2> QED BY <1>5, <1>c, <2>5, <2>6, <2>9 DEF Inside, Aligned
<1> QED BY <1>6, <1>7

\* A read that ends outside the buffer is one of the three.
LEMMA PcmReadInside ==
    ASSUME Sizes, Inside, PcmRead
    PROVE  Inside'
<1>0. /\ Chan \in Nat \ {0} /\ HwAlign \in Nat \ {0} /\ Buff \in Nat \ {0} /\ Block \in Nat \ {0}
      /\ 2 * Chan <= Block
  BY SizesAre
<1>1. pc = "read" /\ Calling /\ data_size \in 0..Buff /\ len \in 0..Buff BY DEF PcmRead, Inside
<1>2. PICK lost \in 0..setting.lost :
        LET from == pos + lost * HwAlign
            got == read_bytes - (read_bytes % HwAlign)
        IN  /\ pos' = from + got
            /\ buffer' = [k \in Cell |-> IF k >= data /\ k < data + got
                                         THEN from + k - data ELSE buffer[k]]
  BY DEF PcmRead
<1>3. /\ avail_size' = avail_size + read_bytes
      /\ pc' = IF data + read_bytes > Buff THEN "crashed" ELSE "digest"
      /\ UNCHANGED <<setting, data_size, len, data, read_size, read_bytes, check_skip, out>>
  BY DEF PcmRead
<1>4. /\ data \in Nat /\ data % HwAlign = 0 /\ read_bytes \in Nat /\ read_bytes % HwAlign = 0
      /\ avail_size \in Nat /\ avail_size % HwAlign = 0 /\ avail_size <= data
  <2>1. CASE ~check_skip
    BY <1>0, <1>1, <2>1 DEF Calling, FirstRead, Inside
  <2>2. CASE check_skip BY <1>0, <1>1, <2>2 DEF Calling, SecondRead
  <2> QED BY <1>1, <2>1, <2>2 DEF Calling
<1>5. pos' \in Nat /\ pos' % HwAlign = 0 /\ buffer' \in [Cell -> Int] /\ Aligned(buffer')
  <2> DEFINE from == pos + lost * HwAlign
  <2>1. lost \in Nat /\ lost * HwAlign \in Nat /\ pos \in Nat /\ pos % HwAlign = 0
    <3>1. setting.lost \in Nat BY SpeechArrayAssumption DEF Inside
    <3>2. lost \in Nat BY <3>1
    <3> QED BY <3>2, <1>0 DEF Inside
  <2>2. from \in Nat /\ from % HwAlign = 0
    <3>1. \E q \in Nat : lost * HwAlign = HwAlign * q BY <2>1, <1>0
    <3>2. (lost * HwAlign) % HwAlign = 0 BY <3>1, <2>1, <1>0, Multiple
    <3>3. HwAlign \in Nat \ {0} BY <1>0
    <3>4. (pos + lost * HwAlign) % HwAlign = 0 BY <2>1, <3>2, <3>3, MultipleSum, Zenon
    <3> QED BY <2>1, <3>4
  <2>3. read_bytes - (read_bytes % HwAlign) = read_bytes BY <1>4
  <2> HIDE DEF from
  <2>4. /\ pos' = from + read_bytes
        /\ buffer' = [k \in Cell |-> IF k >= data /\ k < data + read_bytes
                                     THEN from + k - data ELSE buffer[k]]
    BY <1>2, <2>3 DEF from
  <2>5. pos' \in Nat /\ pos' % HwAlign = 0
    <3>1. HwAlign \in Nat \ {0} /\ read_bytes \in Nat /\ from + read_bytes \in Nat
      BY <1>0, <1>4, <2>2
    <3>2. (from + read_bytes) % HwAlign = 0 BY <3>1, <1>4, <2>2, MultipleSum, Zenon
    <3> QED BY <3>1, <3>2, <2>4
  <2>6. buffer' \in [Cell -> Int] BY <2>2, <2>4, <1>0, <1>4 DEF Inside, Cell
  <2>7. Aligned(buffer')
    <3> SUFFICES ASSUME NEW k \in Cell, buffer'[k] >= 0
                 PROVE  buffer'[k] % HwAlign = k % HwAlign
      BY Zenon DEF Aligned
    <3>1. CASE k >= data /\ k < data + read_bytes
      <4>1. k \in Nat /\ k - data \in Nat BY <3>1, <1>0, <1>4 DEF Cell
      <4>2. buffer'[k] = (k - data) + from BY <2>4, <3>1, <4>1, <2>2, <1>4
      <4>3. ((k - data) + from) % HwAlign = (k - data) % HwAlign
        BY <4>1, <2>2, <1>0, RemainderKept
      <4>4. ((k - data) + data) % HwAlign = (k - data) % HwAlign
        BY <4>1, <1>4, <1>0, RemainderKept
      <4>5. (k - data) + data = k BY <4>1, <1>4
      <4> QED BY <4>2, <4>3, <4>4, <4>5
    <3>2. CASE ~(k >= data /\ k < data + read_bytes)
      <4>1. buffer'[k] = buffer[k] BY <2>4, <3>2
      <4> QED BY <4>1 DEF Inside, Aligned
    <3> QED BY <3>1, <3>2
  <2> QED BY <2>5, <2>6, <2>7
<1>6. CASE data + read_bytes > Buff
  <2>1. pc' = "crashed" BY <1>3, <1>6
  <2>2. CASE ~check_skip
    <3>1. data = data_size /\ read_bytes = read_size
          /\ (data_size + Block <= Buff => data_size + read_size <= Buff)
      BY <1>1, <2>2 DEF Calling, FirstRead
    <3>2. data_size + Block > Buff BY <3>1, <1>0, <1>1, <1>4, <1>6
    <3>3. KeptTooMuch' BY <3>2, <1>3 DEF KeptTooMuch, Block
    <3> QED BY <1>3, <1>5, <2>1, <3>3 DEF Inside
  <2>3. CASE check_skip
    <3>1. data_size = 0 /\ avail_size > 0 => data + read_bytes <= Buff
      BY <1>1, <2>3 DEF Calling, SecondRead
    <3>2. data_size > 0 \/ avail_size = 0 BY <3>1, <1>0, <1>1, <1>4, <1>6
    <3>3. AddedTwice' \/ NothingFound'
      BY <3>2, <1>3, <1>4, <2>3 DEF AddedTwice, NothingFound
    <3> QED BY <1>3, <1>5, <2>1, <3>3 DEF Inside
  <2> QED BY <1>1, <2>2, <2>3 DEF Calling
<1>7. CASE ~(data + read_bytes > Buff)
  <2>1. pc' = "digest" BY <1>3, <1>7
  <2>2. (avail_size + read_bytes) % HwAlign = 0 BY <1>0, <1>4, MultipleSum
  <2>3. avail_size + read_bytes <= Buff BY <1>0, <1>4, <1>7
  <2>4. CASE ~check_skip
    <3>1. FirstDigest'
      BY <1>1, <1>3, <1>4, <2>3, <2>4 DEF Calling, FirstRead, FirstDigest, Block
    <3>2. Calling' BY <1>1, <1>3, <2>1, <2>4, <3>1 DEF Calling
    <3> QED BY <1>3, <1>5, <2>1, <3>2 DEF Inside
  <2>5. CASE check_skip
    <3>1. Chan <= avail_size + read_bytes BY <1>1, <2>5 DEF Calling, SecondRead
    <3>2. SecondDigest' BY <3>1, <2>2, <2>3, <1>0, <1>3, <1>4 DEF SecondDigest
    <3>3. Calling' BY <1>1, <1>3, <2>1, <2>5, <3>2 DEF Calling
    <3> QED BY <1>3, <1>5, <2>1, <3>3 DEF Inside
  <2> QED BY <1>1, <2>4, <2>5 DEF Calling
<1> QED BY <1>6, <1>7

\* What is skipped leaves room for what is read next, or there is nothing left.
LEMMA ReadAgainFits ==
    ASSUME Sizes, Inside, pc = "digest", ~check_skip,
           NEW skip \in Nat, skip # 0, skip % HwAlign = 0, skip <= avail_size
    PROVE  LET left == avail_size - skip
               more == ReadAgain(skip, left)
           IN  /\ left \in 0..Buff /\ left % HwAlign = 0
               /\ more \in Nat /\ more % HwAlign = 0
               /\ left >= Chan \/ more # 0
               /\ Chan <= left + more
               /\ data_size = 0 /\ left > 0 => left + more <= Buff
<1> DEFINE left == avail_size - skip
           more == ReadAgain(skip, left)
<1>0. /\ Chan \in Nat \ {0} /\ HwAlign \in Nat \ {0} /\ Buff \in Nat \ {0} /\ Block \in Nat \ {0}
      /\ 2 * Chan <= Block /\ Block <= Buff /\ HwAlign <= Chan /\ Block % HwAlign = 0
      /\ Buff % HwAlign = 0 /\ 2 * Block <= Buff
  <2>1. Block <= Rest /\ Rest + Block = Buff /\ Block \in Nat /\ Rest \in Nat BY SizesAre
  <2>2. 2 * Block <= Buff BY <2>1
  <2> QED BY <2>1, <2>2, SizesAre
<1>1. /\ Calling /\ FirstDigest /\ data_size \in Nat /\ data_size % HwAlign = 0
      /\ len \in Nat /\ Chan <= len /\ len <= Buff
      /\ read_size \in Nat /\ read_size <= Buff /\ read_size % HwAlign = 0
  BY <1>0 DEF Inside, Calling
<1>2. /\ avail_size = data_size + read_size /\ avail_size <= Buff
      /\ read_size >= Block \/ (read_size = 0 /\ data_size > len)
  BY <1>1 DEF FirstDigest
<1>h. HwAlign \in Nat \ {0} BY <1>0
<1>3. avail_size \in Nat /\ avail_size % HwAlign = 0
  <2>1. (data_size + read_size) % HwAlign = 0 BY <1>1, <1>h, MultipleSum, Zenon
  <2> QED BY <2>1, <1>1, <1>2
<1>4. left \in Nat /\ left <= Buff /\ left < avail_size /\ left + skip = avail_size
  BY <1>2, <1>3, <1>0
<1>5. left % HwAlign = 0 BY <1>0, <1>3, MultipleDifference
<1>6. skip - (skip % HwAlign) = skip BY <1>0
<1>7. more = IF left >= len THEN 0
             ELSE IF left + read_size > Buff THEN Buff - left
             ELSE Larger(skip + HwAlign, Block)
  BY <1>0, <1>1, <1>4, <1>6 DEF ReadAgain
<1> HIDE DEF left, more
<1>8. CASE left >= len
  <2>1. more = 0 BY <1>7, <1>8
  <2>2. more \in Nat /\ more % HwAlign = 0 BY <2>1, <1>h
  <2>3. left >= Chan /\ Chan <= left + more /\ left + more <= Buff /\ left \in 0..Buff
    <3>1. Chan \in Nat BY <1>0
    <3> QED BY <3>1, <1>1, <1>4, <1>8, <2>1
  <2> QED BY <1>5, <2>2, <2>3 DEF left, more
<1>9. CASE ~(left >= len) /\ left + read_size > Buff
  <2>1. more = Buff - left /\ left < Buff BY <1>0, <1>1, <1>4, <1>7, <1>9
  <2>2. (Buff - left) % HwAlign = 0 BY <1>0, <1>4, <1>5, MultipleDifference
  <2>3. more \in Nat /\ more # 0 /\ left + more = Buff BY <2>1, <1>0, <1>4
  <2> QED BY <1>0, <1>4, <1>5, <2>1, <2>2, <2>3 DEF left, more
<1>10. CASE ~(left >= len) /\ ~(left + read_size > Buff)
  <2>1. more = Larger(skip + HwAlign, Block) BY <1>7, <1>10
  <2>2. (skip + HwAlign) % HwAlign = 0
    <3>1. HwAlign % HwAlign = 0 BY <1>0
    <3> QED BY <3>1, <1>0, MultipleSum
  <2>3. more \in Nat /\ more % HwAlign = 0 /\ more >= Block BY <2>1, <2>2, <1>0 DEF Larger
  <2>4. ASSUME data_size = 0, left > 0 PROVE left + more <= Buff
    <3>1. read_size >= Block /\ avail_size = read_size BY <1>1, <1>2, <2>4, <1>0
    <3>2. read_size < Buff BY <1>10, <1>0, <1>1, <1>4, <2>4
    <3>3. read_size + HwAlign <= Buff BY <3>2, <1>0, <1>1, MultiplesApart
    <3>4. left + (skip + HwAlign) <= Buff /\ left + Block <= Buff
      BY <3>1, <3>3, <1>0, <1>1, <1>4, <1>10
    <3> QED BY <2>1, <3>4 DEF Larger
  <2>5. more # 0 /\ Chan <= left + more BY <2>3, <1>0, <1>4
  <2> QED BY <1>0, <1>4, <1>5, <2>3, <2>4, <2>5 DEF left, more
<1> QED BY <1>8, <1>9, <1>10, <1>0, <1>1, <1>4

\* Shifting words by whole frames keeps their places.
LEMMA ShiftedInside ==
    ASSUME Sizes, NEW b \in [Cell -> Int], Aligned(b), NEW skip \in Nat,
           skip % HwAlign = 0, NEW n \in Nat
    PROVE  Shifted(b, skip, n) \in [Cell -> Int] /\ Aligned(Shifted(b, skip, n))
<1>0. HwAlign \in Nat \ {0} /\ Buff \in Nat \ {0} BY SizesAre
<1>1. \A k \in Cell : At(b, k + skip) \in Int BY DEF At, Junk
<1>2. Shifted(b, skip, n) \in [Cell -> Int] BY <1>1 DEF Shifted
<1>3. ASSUME NEW k \in Cell, Shifted(b, skip, n)[k] >= 0
      PROVE  Shifted(b, skip, n)[k] % HwAlign = k % HwAlign
  <2>0. k \in Nat BY <1>0 DEF Cell
  <2>1. CASE k < n
    <3>1. Shifted(b, skip, n)[k] = At(b, k + skip) BY <2>1 DEF Shifted
    <3>2. k + skip \in Cell /\ At(b, k + skip) = b[k + skip] BY <1>3, <3>1 DEF At, Junk
    <3>3. b[k + skip] % HwAlign = (k + skip) % HwAlign BY <1>3, <3>1, <3>2 DEF Aligned
    <3>4. (k + skip) % HwAlign = k % HwAlign BY <2>0, <1>0, RemainderKept
    <3> QED BY <3>1, <3>2, <3>3, <3>4
  <2>2. CASE ~(k < n)
    <3>1. Shifted(b, skip, n)[k] = b[k] BY <2>2 DEF Shifted
    <3> QED BY <3>1, <1>3 DEF Aligned
  <2> QED BY <2>1, <2>2
<1> QED BY <1>2, <1>3 DEF Aligned

\* Digest delivers, reads again inside the buffer, or finds nothing.
LEMMA DigestInside ==
    ASSUME Sizes, Inside, Digest
    PROVE  Inside'
<1> DEFINE skip == skipData(buffer, avail_size)
           left == avail_size - skip
           more == ReadAgain(skip, left)
<1>0. /\ Chan \in Nat \ {0} /\ HwAlign \in Nat \ {0} /\ Buff \in Nat \ {0} /\ Block \in Nat \ {0}
      /\ 2 * Chan <= Block /\ Block <= Buff
  BY SizesAre
<1>1. /\ pc = "digest" /\ Calling
      /\ UNCHANGED <<setting, pos, len, read_size>>
  BY DEF Digest, Inside, device
<1>2. /\ buffer \in [Cell -> Int] /\ Aligned(buffer) /\ data_size \in 0..Buff
      /\ data_size % HwAlign = 0 /\ len \in Chan..Buff /\ len % Chan = 0 /\ data_size \in Nat
      /\ pos \in Nat /\ pos % HwAlign = 0 /\ setting \in Setting
  BY <1>0, <1>1 DEF Inside, Calling
<1>3. avail_size \in Chan..Buff /\ avail_size \in Nat /\ avail_size % HwAlign = 0
  <2>1. CASE ~check_skip
    <3>1. FirstDigest /\ read_size \in Nat /\ read_size % HwAlign = 0
      BY <1>1, <2>1 DEF Calling
    <3>2. avail_size = data_size + read_size /\ avail_size <= Buff
          /\ (read_size >= Block \/ (read_size = 0 /\ data_size > len))
      BY <3>1 DEF FirstDigest
    <3>3. avail_size % HwAlign = 0 BY <3>1, <3>2, <1>0, <1>2, MultipleSum
    <3> QED BY <3>1, <3>2, <3>3, <1>0, <1>2
  <2>2. CASE check_skip BY <1>0, <1>1, <2>2 DEF Calling, SecondDigest
  <2> QED BY <1>1, <2>1, <2>2 DEF Calling
<1>4. skip \in Nat /\ skip % HwAlign = 0 BY <1>2, <1>3, SkipAligned
<1>5. IF check_skip \/ skip <= 0
      THEN Deliver(buffer, avail_size)
      ELSE /\ data' = data + left /\ avail_size' = left /\ read_bytes' = more
           /\ check_skip' = TRUE
           /\ IF left < 0 THEN pc' = "crashed" /\ UNCHANGED <<handle, out>>
              ELSE IF more = 0 THEN Deliver(Shifted(buffer, skip, left), left)
              ELSE /\ pc' = "read" /\ buffer' = Shifted(buffer, skip, left)
                   /\ UNCHANGED <<data_size, out>>
  <2> HIDE DEF skip, left, more
  <2> USE DEF Digest
  <2> QED BY DEF skip, left, more
<1> HIDE DEF skip
<1>6. CASE check_skip \/ skip <= 0
  <2>1. Deliver(buffer, avail_size) BY <1>5, <1>6
  <2>2. /\ pc' = "idle" /\ Len(out') * Chan <= len
        /\ data_size' \in 0..Buff /\ data_size' % HwAlign = 0
        /\ buffer' \in [Cell -> Int] /\ Aligned(buffer')
    BY <2>1, <1>2, <1>3, DeliverInside
  <2> QED BY <1>0, <1>1, <1>2, <2>2 DEF Inside
<1>7. CASE ~(check_skip \/ skip <= 0)
  <2>1. /\ data' = data + left /\ avail_size' = left /\ read_bytes' = more
        /\ check_skip' = TRUE
        /\ IF left < 0 THEN pc' = "crashed" /\ UNCHANGED <<handle, out>>
           ELSE IF more = 0 THEN Deliver(Shifted(buffer, skip, left), left)
           ELSE /\ pc' = "read" /\ buffer' = Shifted(buffer, skip, left)
                /\ UNCHANGED <<data_size, out>>
    BY <1>5, <1>7
  <2>2. CASE left < 0
    <3>1. left <= more
      <4>1. left \in Int BY <1>3, <1>4
      <4>2. more \in Int /\ more > 0
        <5>1. ~(left >= len) BY <4>1, <2>2, <1>2, <1>0
        <5>2. ~(left + read_size > Buff) BY <4>1, <2>2, <1>0, <1>1 DEF Calling
        <5>3. more = Larger(skip - (skip % HwAlign) + HwAlign, Block)
          BY <5>1, <5>2 DEF ReadAgain
        <5>4. skip - (skip % HwAlign) + HwAlign \in Int BY <1>0, <1>4
        <5> QED BY <5>3, <5>4, <1>0 DEF Larger
      <4> QED BY <4>1, <4>2, <2>2
    <3>2. NothingFound' BY <2>1, <3>1 DEF NothingFound
    <3>3. pc' = "crashed" /\ UNCHANGED <<buffer, data_size, out>>
      BY <2>1, <2>2 DEF handle
    <3> QED BY <1>1, <1>2, <3>2, <3>3 DEF Inside, Calling
  <2>3. CASE ~(left < 0)
    <3>1. skip # 0 /\ skip <= avail_size /\ ~check_skip BY <1>3, <1>4, <1>7, <2>3
    <3>2. /\ left \in 0..Buff /\ left % HwAlign = 0
          /\ more \in Nat /\ more % HwAlign = 0
          /\ left >= Chan \/ more # 0
          /\ Chan <= left + more
          /\ data_size = 0 /\ left > 0 => left + more <= Buff
      BY <1>1, <1>4, <3>1, ReadAgainFits
    <3> DEFINE b == Shifted(buffer, skip, left)
    <3>3. b \in [Cell -> Int] /\ Aligned(b)
      <4>1. left \in Nat BY <3>2, <1>0
      <4> QED BY <4>1, <1>2, <1>4, ShiftedInside
    <3> HIDE DEF left, more, b
    <3>4. CASE more = 0
      <4>1. Deliver(b, left) BY <2>1, <2>3, <3>4 DEF b
      <4>2. left \in Chan..Buff BY <3>2, <3>4, <1>0
      <4>3. /\ pc' = "idle" /\ Len(out') * Chan <= len
            /\ data_size' \in 0..Buff /\ data_size' % HwAlign = 0
            /\ buffer' \in [Cell -> Int] /\ Aligned(buffer')
        BY <4>1, <4>2, <3>2, <3>3, <1>2, DeliverInside
      <4> QED BY <1>0, <1>1, <1>2, <4>3 DEF Inside
    <3>5. CASE more # 0
      <4>1. pc' = "read" /\ buffer' = b /\ UNCHANGED <<data_size, out>>
        BY <2>1, <2>3, <3>5 DEF b
      <4>2. data = data_size BY <1>1, <3>1 DEF Calling, FirstDigest
      <4>3. (data_size + left) % HwAlign = 0 /\ data_size + left \in Nat /\ left \in Nat
        <5>1. HwAlign \in Nat \ {0} /\ left \in Nat /\ data_size + left \in Nat
          BY <3>2, <1>0, <1>2
        <5>2. (data_size + left) % HwAlign = 0 BY <5>1, <3>2, <1>2, MultipleSum, Zenon
        <5> QED BY <5>1, <5>2
      <4>4. SecondRead'
        BY <2>1, <3>2, <4>1, <4>2, <4>3, <1>0, <1>2 DEF SecondRead
      <4>5. Calling' BY <1>1, <2>1, <4>1, <4>4 DEF Calling
      <4> QED BY <1>1, <1>2, <3>3, <4>1, <4>5 DEF Inside, Calling
    <3> QED BY <3>4, <3>5
  <2> QED BY <2>2, <2>3
<1> QED BY <1>6, <1>7

\* No step leaves these bounds.
LEMMA InsideStep == Sizes /\ Inside /\ [Next]_vars => Inside'
<1> SUFFICES ASSUME Sizes, Inside, [Next]_vars PROVE Inside'
  OBVIOUS
<1> USE DEF Inside, Calling, FirstRead, FirstDigest, SecondRead, SecondDigest, Aligned,
            AddedTwice, KeptTooMuch, NothingFound
<1>1. CASE speechArrayOpen BY <1>1 DEF speechArrayOpen, device, handle
<1>2. ASSUME NEW step \in Part, speechArrayOpen_fails(step) PROVE Inside'
  BY <1>2 DEF speechArrayOpen_fails, device, handle
<1>3. CASE speechArrayClose BY <1>3 DEF speechArrayClose, device, handle
<1>4. ASSUME NEW n \in setting.asks, Read(n) PROVE Inside' BY <1>4, ReadInside
<1>5. CASE PcmRead BY <1>5, PcmReadInside
<1>6. CASE Digest BY <1>6, DigestInside
<1>7. CASE Fail BY <1>7 DEF Fail, handle, call
<1>8. CASE UNCHANGED vars BY <1>8 DEF vars, device, handle, call
<1> QED BY <1>1, <1>2, <1>3, <1>4, <1>5, <1>6, <1>7, <1>8 DEF Next

\* For every client, array and device, a call of SpeechArrayRead writes outside
\* handle->buffer only if it has both kept and skipped words (line 306), has kept more
\* than leaves room for a block, or has found no sample that counts in what it read.
\* No other does, and none returns more than was asked for.
THEOREM NeverOverruns == Sizes /\ Spec => []NoOverrun
<1> SUFFICES ASSUME Sizes PROVE Spec => []NoOverrun
  OBVIOUS
<1>1. Init => Inside BY InsideInit
<1>2. Inside /\ [Next]_vars => Inside' BY InsideStep
<1>3. Inside => NoOverrun BY DEF Inside, NoOverrun
<1> QED BY <1>1, <1>2, <1>3, PTL DEF Spec
-----------------------------------------------------------------------------
(* For the clients and devices of Served: what the calls return.           *)

\* A client stays what it is, and with it the invariant.
LEMMA ServedInit == Sizes /\ Init => (setting \in Served => ArrayInv)
BY ArrayInit

LEMMA ServedStep ==
    Sizes /\ (setting \in Served => ArrayInv) /\ [Next]_vars => (setting \in Served => ArrayInv)'
<1> SUFFICES ASSUME Sizes, setting \in Served => ArrayInv, [Next]_vars, setting' \in Served
             PROVE  ArrayInv'
  BY DEF Served, WholeSamples, BufferFull
<1>1. setting' = setting
  BY DEF Next, vars, device, speechArrayOpen, speechArrayOpen_fails, speechArrayClose, Read,
         PcmRead, Digest, Fail
<1> QED BY <1>1, ArrayStep

\* For the clients and devices of Served, no call of which both keeps and skips
\* words: the samples SpeechArrayRead returns are whole, in the order of delivery
\* and none twice, from one call to the next.
THEOREM SamplesInOrder == Sizes /\ Spec => []InOrder
<1> SUFFICES ASSUME Sizes PROVE Spec => []InOrder
  OBVIOUS
<1> DEFINE Inv == setting \in Served => ArrayInv
<1>1. Init => Inv BY ServedInit
<1>2. Inv /\ [Next]_vars => Inv' BY ServedStep
<1>3. Inv => InOrder BY ArrayKeeps DEF InOrder
<1> QED BY <1>1, <1>2, <1>3, PTL DEF Spec

\* For the same clients and devices: while the device loses nothing,
\* SpeechArrayRead returns or keeps every sample that counts.
THEOREM AllReturned == Sizes /\ Spec => []NothingLost
<1> SUFFICES ASSUME Sizes PROVE Spec => []NothingLost
  OBVIOUS
<1> DEFINE Inv == setting \in Served => ArrayInv
<1>1. Init => Inv BY ServedInit
<1>2. Inv /\ [Next]_vars => Inv' BY ServedStep
<1>3. Inv => NothingLost BY ArrayKeeps DEF NothingLost
<1> QED BY <1>1, <1>2, <1>3, PTL DEF Spec
-----------------------------------------------------------------------------
(* Types.                                                                  *)

\* The most words the device moves on in one pcm_read.
Reach == Buff + setting.lost * HwAlign

\* What ArrayInv does not say of the types; a call has two reads before it.
Ranges ==
    /\ gone \in BOOLEAN /\ held \subseteq Part /\ at \in Part \union {"none"}
    /\ delivered \subseteq Int
    /\ pos <= MaxWord
    /\ pc = "read" => pos + (IF check_skip THEN Reach ELSE 2 * Reach) <= MaxWord
    /\ pc = "digest" /\ ~check_skip => pos + Reach <= MaxWord

\* Reach is a number.
LEMMA ReachNat ==
    ASSUME ArrayInv
    PROVE  /\ Reach \in Nat /\ Buff \in Nat \ {0} /\ HwAlign \in Nat \ {0}
           /\ setting.lost \in Nat /\ pos \in Nat /\ MaxWord \in Nat
<1>1. Buff \in Nat \ {0} /\ HwAlign \in Nat \ {0} /\ MaxWord \in Nat BY SpeechArrayAssumption
<1>2. setting.lost \in Nat BY SpeechArrayAssumption DEF ArrayInv, ArrayTypes
<1>3. setting.lost * HwAlign \in Nat BY <1>1, <1>2
<1> QED BY <1>1, <1>2, <1>3 DEF Reach, ArrayInv, Device

\* Before the first call.
LEMMA RangesInit == Init => Ranges
<1> SUFFICES ASSUME Init PROVE Ranges
  OBVIOUS
<1>1. pos <= MaxWord BY SpeechArrayAssumption DEF Init
<1> QED BY <1>1 DEF Init, Ranges

\* The samples returned have numbers.
LEMMA DeliveredNumbers ==
    ASSUME ArrayInv', delivered \subseteq Int,
           delivered' = delivered \union {Number(out'[i]) : i \in 1..Len(out')}
    PROVE  delivered' \subseteq Int
<1>1. out' \in Seq([0..(Chan - 1) -> Int]) BY DEF ArrayInv, ArrayTypes
<1>2. Chan \in Nat \ {0} /\ 0 \in 0..(Chan - 1) BY SpeechArrayAssumption
<1>3. ASSUME NEW i \in 1..Len(out') PROVE Number(out'[i]) \in Int
  <2>1. out'[i] \in [0..(Chan - 1) -> Int] BY <1>1
  <2>2. out'[i][0] \in Int BY <1>2, <2>1
  <2>3. PICK x \in Int : x = out'[i][0] BY <2>2
  <2>4. x \div Chan \in Int BY <1>2
  <2> QED BY <2>3, <2>4 DEF Number
<1> QED BY <1>3

\* A call starts only with room for two reads, and each takes one of them.
LEMMA RangesStep == ArrayInv /\ ArrayInv' /\ Ranges /\ [Next]_vars => Ranges'
<1> SUFFICES ASSUME ArrayInv, ArrayInv', Ranges, [Next]_vars PROVE Ranges'
  OBVIOUS
<1>0. /\ Reach \in Nat /\ Buff \in Nat \ {0} /\ HwAlign \in Nat \ {0}
      /\ setting.lost \in Nat /\ pos \in Nat /\ MaxWord \in Nat
  BY ReachNat
<1>1. CASE speechArrayOpen BY <1>1 DEF speechArrayOpen, device, history, Ranges
<1>2. ASSUME NEW step \in Part, speechArrayOpen_fails(step) PROVE Ranges'
  <2>1. held' \subseteq Part
    BY <1>2 DEF speechArrayOpen_fails, Taken, Part
  <2> QED BY <1>2, <2>1 DEF speechArrayOpen_fails, device, history, Ranges
<1>3. CASE speechArrayClose BY <1>3 DEF speechArrayClose, device, history, Ranges
<1>4. ASSUME NEW n \in setting.asks, Read(n) PROVE Ranges'
  <2>1. /\ pos + 2 * Reach <= MaxWord /\ UNCHANGED <<setting, pos, gone, held, at, delivered>>
        /\ check_skip' = FALSE
    BY <1>4 DEF Read, Reach, device, resources
  <2>2. Reach' = Reach BY <2>1 DEF Reach
  <2> QED BY <1>0, <2>1, <2>2 DEF Ranges
<1>5. CASE PcmRead
  <2>1. PICK lost \in 0..setting.lost :
            pos' = pos + lost * HwAlign + (read_bytes - (read_bytes % HwAlign))
    BY <1>5 DEF PcmRead
  <2>2. read_bytes \in 0..Buff BY DEF ArrayInv, ArrayTypes
  <2>3. read_bytes - (read_bytes % HwAlign) <= Buff
        /\ read_bytes - (read_bytes % HwAlign) \in Int
    BY <1>0, <2>2
  <2>4. lost * HwAlign <= setting.lost * HwAlign /\ lost * HwAlign \in Int
    <3>1. lost \in Int /\ setting.lost \in Int /\ lost <= setting.lost BY <1>0, <2>1
    <3> QED BY <1>0, <3>1, ProductLess
  <2>5. pos' <= pos + Reach /\ pos' \in Int BY <1>0, <2>1, <2>3, <2>4 DEF Reach
  <2>6. /\ pc = "read" /\ pc' # "read"
        /\ UNCHANGED <<setting, gone, held, at, delivered, check_skip>>
    BY <1>5 DEF PcmRead, resources
  <2>7. Reach' = Reach BY <2>6 DEF Reach
  <2>8. pos' <= MaxWord /\ (~check_skip => pos' + Reach <= MaxWord)
    <3>1. pos + (IF check_skip THEN Reach ELSE 2 * Reach) <= MaxWord BY <2>6 DEF Ranges
    <3>2. pos + Reach <= MaxWord BY <1>0, <3>1
    <3>3. pos' <= MaxWord BY <1>0, <2>5, <3>2
    <3>4. CASE ~check_skip
      <4>1. pos + 2 * Reach <= MaxWord BY <3>1, <3>4
      <4>2. PICK p \in Int, q \in Nat, r \in Nat : p = pos' /\ q = pos /\ r = Reach BY <1>0, <2>5
      <4>3. p <= q + r /\ q + 2 * r <= MaxWord BY <2>5, <4>1, <4>2, Zenon
      <4>4. p + r <= MaxWord BY <1>0, <4>3
      <4> QED BY <3>3, <4>2, <4>4
    <3> QED BY <3>3, <3>4
  <2> QED BY <2>6, <2>7, <2>8 DEF Ranges
<1>6. CASE Digest
  <2>1. pc = "digest" /\ UNCHANGED <<setting, pos, gone, held, at>>
    BY <1>6 DEF Digest, device, resources
  <2>2. Reach' = Reach BY <2>1 DEF Reach
  <2>3. \/ /\ pc' \in {"crashed", "idle"}
           /\ delivered' = delivered \union {Number(out'[i]) : i \in 1..Len(out')}
        \/ pc' = "crashed" /\ UNCHANGED delivered
        \/ pc' = "read" /\ ~check_skip /\ check_skip' /\ UNCHANGED delivered
    BY <1>6 DEF Digest, Deliver, handle
  <2>4. delivered' \subseteq Int BY <2>3, DeliveredNumbers DEF Ranges
  <2>5. pc' = "read" => pos' + Reach <= MaxWord /\ check_skip'
    BY <2>1, <2>3 DEF Ranges
  <2>6. pc' # "digest" BY <2>3
  <2> QED BY <2>1, <2>2, <2>4, <2>5, <2>6 DEF Ranges
<1>7. CASE Fail
  <2>1. Reach' = Reach BY <1>7 DEF Fail, Reach
  <2> QED BY <1>7, <2>1 DEF Fail, resources, call, history, Ranges
<1>8. CASE UNCHANGED vars
  <2>1. Reach' = Reach BY <1>8 DEF vars, device, Reach
  <2> QED BY <1>8, <2>1 DEF vars, device, resources, call, history, Ranges
<1> QED BY <1>1, <1>2, <1>3, <1>4, <1>5, <1>6, <1>7, <1>8 DEF Next

\* For the same clients and devices: the sizes of a call stay within
\* handle->buffer, and what is returned are samples of whole numbers.
THEOREM ArrayTypeCorrect == Sizes /\ Spec => [](setting \in Served => TypeOK)
<1> SUFFICES ASSUME Sizes PROVE Spec => [](setting \in Served => TypeOK)
  OBVIOUS
<1> DEFINE Inv == setting \in Served => ArrayInv
           Typed == setting \in Served => Ranges
           Goal == setting \in Served => TypeOK
<1>1. Init => Inv BY ServedInit
<1>2. Inv /\ [Next]_vars => Inv' BY ServedStep
<1>3. Init => Typed BY RangesInit
<1>4. Inv /\ Inv' /\ Typed /\ [Next]_vars => Typed'
  <2> SUFFICES ASSUME Inv, Inv', Typed, [Next]_vars, setting' \in Served PROVE Ranges'
    BY DEF Served, WholeSamples, BufferFull
  <2>1. setting' = setting
    BY DEF Next, vars, device, speechArrayOpen, speechArrayOpen_fails, speechArrayClose, Read,
           PcmRead, Digest, Fail
  <2>2. ArrayInv /\ Ranges /\ setting \in Served BY <2>1
  <2>3. ArrayInv' BY DEF Served, WholeSamples, BufferFull
  <2> QED BY <2>2, <2>3, RangesStep
<1>5. Inv /\ Typed => Goal
  <2> SUFFICES ASSUME ArrayInv, Ranges PROVE TypeOK
    OBVIOUS
  <2>1. pos \in 0..MaxWord /\ since \in 0..MaxWord
    BY ReachNat DEF ArrayInv, Device, Ranges
  <2>2. complete \subseteq Nat BY DEF ArrayInv, Device
  <2> QED BY <2>1, <2>2 DEF ArrayInv, ArrayTypes, Ranges, TypeOK
<1> HIDE DEF Inv, Typed, Goal
<1>6. Spec => []Goal BY <1>1, <1>2, <1>3, <1>4, <1>5, PTL DEF Spec
<1> QED BY <1>6 DEF Goal
=============================================================================
