---------------------- MODULE SpeechPersistentProperties ----------------------
(***************************************************************************)
(* What the recording service of SpeechPersistent keeps, and loses.        *)
(***************************************************************************)
EXTENDS SpeechPersistent

\* The directory d holds data of s.
Holds(d, s) == \E i \in 1..Len(file[d]) : file[d][i].s = s
-----------------------------------------------------------------------------
(* For a patient client.  SpeechDemo.c is one as far as its pauses of 100  *)
(* and 300 ms suffice, but its sessions do not start in different seconds. *)

\* A completed session is stored: until its tree is handed to an upload its
\* directory holds its chunks, all of them, in order, and of others nothing.
\* (StopTask keeps a completed session, SpeechPersistent.c:354-360.)  A disk that
\* refuses a directory or a chunk costs that session or that chunk and no other.
Recorded(d, s) ==
    /\ d \in dirs
    /\ \A i \in 1..Len(file[d]) : file[d][i].s = s
    /\ \A i, j \in 1..Len(file[d]) : i < j => file[d][i].n < file[d][j].n
    /\ \A n \in 1..sent[s] :
          <<s, n>> \notin refused <=>
              \E i \in 1..Len(file[d]) : file[d][i] = [s |-> s, n |-> n, torn |-> FALSE]

EveryRecordingKept ==
    \A s \in Session : fate[s] = "kept" /\ <<s, 0>> \notin refused =>
        \E p \in PathIdx : Recorded(<<p, id[s]>>, s)

\* It is so for a client that leaves StartTask and UploadTask the time to finish
\* between two sessions and starts them in different seconds.  Of sessions that
\* share a second, and so an id and a directory, it is not.
RecordingKept == habit.patient /\ habit.distinct => EveryRecordingKept

\* Nothing is left on the disk of a session that was interrupted, once StopTask has
\* removed it, nor of the sessions an upload was started for, once it is over:
\* the thread deletes the tree it was given, not the one in use by then.
NothingLeftBehind ==
    habit.patient =>
        \A s \in Session :
            fate[s] = "interrupted" \/ (fate[s] = "uploaded" /\ Quiet) =>
                \A d \in Dir : ~Holds(d, s)

\* gPreName is shared with the upload thread without a lock ("maybe need a
\* lock", SpeechPersistent.c:42): while it points to a freed string no worker
\* prints it, no upload thread frees it and unInit does not free it again.
NameNotUsedFreed ==
    habit.patient /\ preFreed =>
        /\ \A w \in Worker : wpc[w] \notin {"mkdir", "name", "erase"}
        /\ \A u \in Uploader : upc[u] # "free"
        /\ pool # "closing"

-----------------------------------------------------------------------------
(* For every client.                                                       *)

\* However the client's calls overlap, the data of a session is appended in the
\* order of its calls of speechProcess; pieces may be missing, never swapped.
ChunksInOrder ==
    \A d \in dirs : \A i, j \in 1..Len(file[d]) :
        i < j /\ file[d][i].s = file[d][j].s => file[d][i].n < file[d][j].n

\* StopTask frees the id all of a session's tasks point to: no task of that
\* session is queued or running any more.
IdOutlivesTasks ==
    \A s \in Session : idFreed[s] =>
        /\ \A i \in 1..Len(queue) : queue[i].s # s
        /\ \A w \in Worker : wtask[w] # NoTask => wtask[w].s # s

\* gPersistentCount is the number of sessions completed since the last upload
\* was started, so uploads start exactly every MAX_PERSISTENT_COUNT sessions.
CountMatchesKept ==
    gPersistentCount = Cardinality({s \in Session : fate[s] = "kept"})

\* The id of a session that is stopped is freed, unless unInit drops the task.
StoppedIsFreed ==
    \A s \in Session : session[s] = "stopped" ~> idFreed[s] \/ pool # "open"
=============================================================================
