-------------------------- MODULE MCSpeechPersistent --------------------------
(***************************************************************************)
(* Instances of the recording service for TLC.                             *)
(***************************************************************************)
EXTENDS SpeechPersistentProperties

\* A client that leaves the service the time to finish between two sessions, which
\* start in different seconds.
Patient == [patient |-> TRUE, distinct |-> TRUE, seconds |-> 3,
            sessions |-> 4, chunks |-> 2, faults |-> 0]

\* The same on a disk that refuses once: sessions before and after, and chunks.
Full == [Patient EXCEPT !.chunks = 1, !.faults = 1]
FullLater == [Patient EXCEPT !.sessions = 2, !.faults = 1]

\* Clients that wait for nothing: sessions overlap, share a second and an id.
Hasty == [patient |-> FALSE, distinct |-> FALSE, seconds |-> 0,
          sessions |-> 3, chunks |-> 1, faults |-> 0]
Chatty == [Hasty EXCEPT !.sessions = 2, !.chunks = 2, !.faults = 1]

\* Sessions enough for two uploads at a time, with no data in them.
Idle == [Hasty EXCEPT !.sessions = 4, !.chunks = 0]

\* The client of SpeechDemo.c: it leaves the service time (100 and 300 ms), but
\* several of its sessions start in one second.
Demo == [Patient EXCEPT !.distinct = FALSE, !.seconds = 1, !.sessions = 3, !.chunks = 1]

MCHabit == {Patient, Full, FullLater, Hasty, Chatty, Idle, Demo}

\* One session per second, one right after the other.
Brisk == [Hasty EXCEPT !.distinct = TRUE, !.seconds = 2]
MCBrisk == {Brisk}
=============================================================================
