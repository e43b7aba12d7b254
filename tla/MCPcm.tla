-------------------------------- MODULE MCPcm --------------------------------
(***************************************************************************)
(* Pcm with rings of three frames and pointers that wrap at six, on a      *)
(* device that grants more than some of the handles ask for.               *)
(***************************************************************************)
EXTENDS Pcm

Exact(f, stop) ==
    [flags |-> f, format |-> "S16_LE", period_size |-> 3, period_count |-> 1,
     start_threshold |-> 2, stop_threshold |-> stop, avail_min |-> 2]

Defaults(f, format) ==
    [flags |-> f, format |-> format, period_size |-> 2, period_count |-> 1,
     start_threshold |-> 0, stop_threshold |-> 0, avail_min |-> 0]

\* A captured ring that stops when it is full, read with a timeout, and one that stops
\* two frames later, whose reader only the stop wakes; with the defaults one does not stop.
MCSetting ==
    {Exact(f, 0) : f \in {{}, {"PCM_NORESTART"}, {"PCM_IN"}, {"PCM_MMAP"}}}
    \union {Exact({"PCM_IN", "PCM_MMAP", "PCM_NOIRQ"}, 3), Exact({"PCM_IN", "PCM_MMAP"}, 5)}
    \union {Defaults({"PCM_MMAP", "PCM_NOIRQ", "PCM_MONOTONIC"}, "S32_LE"),
            Defaults({"PCM_IN", "PCM_MONOTONIC"}, "S24_3LE"),
            Defaults({"PCM_IN", "PCM_MMAP"}, "S16_LE"),
            Defaults({"PCM_NOIRQ"}, "S16_LE"), Defaults({}, "S8")}
=============================================================================
