---------------------------- MODULE MCSpeechArray ----------------------------
(***************************************************************************)
(* SpeechArray on a small array: four words per sample, two per frame of   *)
(* the device, a buffer of six samples read in blocks of half its size.    *)
(***************************************************************************)
EXTENDS SpeechArray, FiniteSets

\* A device that loses nothing, and a client that asks for whole samples, once
\* for more than the buffer holds.
Steady == [asks |-> {4, 8, 16, 24, 28}, silent |-> {}, lost |-> 0, fails |-> FALSE]

\* A device that fails for good.
Failing == [Steady EXCEPT !.fails = TRUE]

\* A device that loses frames, and a client that asks for a buffer full, as
\* speecharraytest does.
Lossy == [asks |-> {24}, silent |-> {}, lost |-> 1, fails |-> FALSE]

\* The same client and an array that is silent at times, but not for a buffer
\* full.
Quiet(samples) == [asks |-> {24}, silent |-> samples, lost |-> 0, fails |-> FALSE]

\* Any client, of an array silent where it likes and a device that loses frames:
\* calls that keep words also skip some, keep too much, and find no sample.
Any == {[asks |-> {4, 16, 24}, silent |-> w, lost |-> 1, fails |-> FALSE] :
            w \in {{2}, 4..6, 3..9}}

MCSetting ==
    {Steady, Failing, Lossy} \union
    {Quiet(w) : w \in {x \in SUBSET (0..7) : Cardinality(x) <= 2} \union {1..4, 6..9}} \union Any
=============================================================================
