--------------------------- MODULE SpeechPersistent ---------------------------
(***************************************************************************)
(* The recording service of demo/SpeechPersistentDemo/SpeechPersistent.c.  *)
(* A client opens a session (speechStart), sends it chunks of data         *)
(* (speechProcess) and closes it (speechStop), completed or interrupted.   *)
(* Each call queues a task for the thread pool; the tasks build a tree of  *)
(* directories, one per session, append the chunks to a file and remove    *)
(* the directory of an interrupted session.  After MAX_PERSISTENT_COUNT    *)
(* completed sessions a detached upload thread switches to the next of     *)
(* MAX_PATH_INDEX trees and deletes the filled one.                        *)
(*                                                                         *)
(* The pool is the queue that TaskQueue specifies.  The upload thread and  *)
(* the pool's worker share gpDefaultPath, gnDefaultPathIndex and gPreName  *)
(* without a lock: every access to one of them is a step of its own, but   *)
(* that initPath's mkdir and StartTask's read the name they then use in    *)
(* the same step.                                                          *)
(* A session's three files (sound, asr, nlp) are one sequence of chunks.   *)
(* The disk may be full: it refuses a directory, a file or a part of it.   *)
(***************************************************************************)
EXTENDS Integers, Sequences, FiniteSets

CONSTANTS Session,                \* the sessions of the run
          MaxChunk,               \* calls of speechProcess per session
          MaxTime,                \* seconds the run lasts
          QueueMax,               \* MAX_INDEX, the length of the pool's queue
          MAX_PERSISTENT_COUNT,   \* completed sessions per tree
          MAX_PATH_INDEX,         \* number of trees
          Uploader,               \* upload threads that may be started
          Habit,                  \* clients, each a record of
                                  \*   patient:  whether it leaves the service
                                  \*             the time to finish between two
                                  \*             sessions, as SpeechDemo.c does
                                  \*             as far as its usleep() suffices
                                  \*   distinct: whether its sessions are at
                                  \*             least a second apart, which
                                  \*             those of SpeechDemo.c are not
                                  \*   seconds, sessions, chunks: how long it
                                  \*             runs, how many it opens, and
                                  \*             sends in each, at most
                                  \*   faults:   how often its disk refuses
          NoPath, NoTask

PathIdx == 0..(MAX_PATH_INDEX - 1)
Id      == 0..MaxTime             \* getIDbytime(): the second a session starts
Dir     == PathIdx \X Id          \* "<tree>/flying-pig/<device>/<id>"
Chunk   == [s : Session, n : 1..MaxChunk, torn : BOOLEAN]  \* torn: a part of it

Op      == {"start", "process", "stop"}
Task    == [op : Op, s : Session, n : 0..MaxChunk, completed : BOOLEAN]

ASSUME SpeechAssumption ==
    /\ MaxChunk \in Nat /\ MaxTime \in Nat
    /\ QueueMax \in Nat \ {0}
    /\ MAX_PERSISTENT_COUNT \in Nat \ {0}
    /\ MAX_PATH_INDEX \in Nat \ {0}
    /\ Habit \subseteq [patient : BOOLEAN, distinct : BOOLEAN, seconds : 0..MaxTime,
                         sessions : Nat, chunks : 0..MaxChunk, faults : Nat]
    /\ NoPath \notin PathIdx /\ NoTask \notin Task

VARIABLES
    habit, now,               \* the client, and the clock
    id, session, sent,        \* its sessions: ids, states, chunks sent
    queue, pool,              \* the pool's queue; "open", "closing", "closed"
    wpc, wtask, wpath,        \* the pool's workers: where, task, path read
    gpDefaultPath, gnDefaultPathIndex, gPersistentCount,
    gPreName, preFreed,       \* the tree gPreName names; was it freed?
    level,                    \* directories of each tree that exist: 0 none,
                              \* 1 "<tree>", 2 "flying-pig", 3 the device's
    dirs, file,               \* session directories and the data in them
    refused,                  \* <<s, n>>: chunk n of s, or its directory (0), which
                              \* the disk has refused
    upc, upath, todo,         \* the upload threads: where, argument, listing
    idFreed, fate             \* history: ids freed, what became of a session

client == <<habit, now, id, session, sent>>
work   == <<wpc, wtask, wpath>>
names  == <<gPreName, preFreed>>
paths  == <<gpDefaultPath, gnDefaultPathIndex>>
disk   == <<level, dirs, file, refused>>
upload == <<upc, upath, todo>>
history == <<idFreed, fate>>
vars == <<client, queue, pool, work, paths, gPersistentCount, names, disk, upload,
          history>>

\* Mutant: two workers instead of one.
TwoWorkers == {1, 2}

\* threadpool_create(1, 1, MAX_INDEX)
Worker == {1}

WorkerPC == {"idle", "path", "mkbase", "mkpig", "mkdev", "setname", "mkdir",
             "name", "write", "erase", "remove", "count"}
UploadPC == {"idle", "rotate", "switch", "free", "null", "list", "clear",
             "rmdev", "rmpig", "rmbase"}

TypeOK ==
    /\ habit \in Habit /\ now \in 0..MaxTime /\ id \in [Session -> Id]
    /\ session \in [Session -> {"new", "open", "stopped"}]
    /\ sent \in [Session -> 0..MaxChunk]
    /\ queue \in Seq(Task) /\ Len(queue) <= QueueMax
    /\ pool \in {"open", "closing", "closed"}
    /\ wpc \in [Worker -> WorkerPC]
    /\ wtask \in [Worker -> Task \union {NoTask}]
    /\ wpath \in [Worker -> PathIdx \union {NoPath}]
    /\ gpDefaultPath \in PathIdx \union {NoPath} /\ gnDefaultPathIndex \in PathIdx
    /\ gPersistentCount \in 0..(MAX_PERSISTENT_COUNT - 1)
    /\ gPreName \in PathIdx \union {NoPath} /\ preFreed \in BOOLEAN
    /\ level \in [PathIdx -> 0..3]
    /\ dirs \subseteq Dir /\ file \in [Dir -> Seq(Chunk)]
    /\ refused \subseteq Session \X (0..MaxChunk)
    /\ upc \in [Uploader -> UploadPC]
    /\ upath \in [Uploader -> PathIdx \union {NoPath}]
    /\ todo \in [Uploader -> SUBSET Dir]
    /\ idFreed \in [Session -> BOOLEAN]
    /\ fate \in [Session -> {"pending", "interrupted", "kept", "uploaded"}]

\* Init()
Init ==
    /\ habit \in Habit /\ now = 0 /\ id = [s \in Session |-> 0]
    /\ session = [s \in Session |-> "new"] /\ sent = [s \in Session |-> 0]
    /\ queue = <<>> /\ pool = "open"
    /\ wpc = [w \in Worker |-> "idle"] /\ wtask = [w \in Worker |-> NoTask]
    /\ wpath = [w \in Worker |-> NoPath]
    /\ gpDefaultPath = NoPath /\ gnDefaultPathIndex = 0 /\ gPersistentCount = 0
    /\ gPreName = NoPath /\ preFreed = FALSE
    /\ level = [p \in PathIdx |-> 0]
    /\ dirs = {} /\ file = [d \in Dir |-> <<>>] /\ refused = {}
    /\ upc = [u \in Uploader |-> "idle"] /\ upath = [u \in Uploader |-> NoPath]
    /\ todo = [u \in Uploader |-> {}]
    /\ idFreed = [s \in Session |-> FALSE]
    /\ fate = [s \in Session |-> "pending"]
-----------------------------------------------------------------------------
(* The client.  A call waits in threadpool_add_task while the queue is     *)
(* full.                                                                   *)

\* Everything asked of the service has been done.
Quiet == /\ queue = <<>>
         /\ \A w \in Worker : wpc[w] = "idle"
         /\ \A u \in Uploader : upc[u] = "idle"

Queue(t) == Len(queue) < QueueMax /\ queue' = Append(queue, t)

Started == {s \in Session : session[s] # "new"}

\* Sessions are named in the order they start: their names stand for nothing.
NextSession == CHOOSE s \in Session : session[s] = "new"

SpeechStart(s) ==
    /\ pool = "open" /\ session[s] = "new" /\ s = NextSession
    /\ Cardinality(Started) < habit.sessions
    /\ habit.patient => Quiet /\ \A r \in Session : session[r] # "open"
    /\ habit.distinct => \A r \in Started : id[r] # now
    /\ Queue([op |-> "start", s |-> s, n |-> 0, completed |-> TRUE])
    /\ id' = [id EXCEPT ![s] = now]
    /\ session' = [session EXCEPT ![s] = "open"]
    /\ UNCHANGED <<habit, now, sent, pool, work, paths, gPersistentCount, names, disk,
                   upload, history>>

SpeechProcess(s) ==
    /\ pool = "open" /\ session[s] = "open"
    /\ sent[s] < habit.chunks
    /\ Queue([op |-> "process", s |-> s, n |-> sent[s] + 1, completed |-> TRUE])
    /\ sent' = [sent EXCEPT ![s] = @ + 1]
    /\ UNCHANGED <<habit, now, id, session, pool, work, paths, gPersistentCount, names, disk,
                   upload, history>>

SpeechStop(s, completed) ==
    /\ pool = "open" /\ session[s] = "open"
    /\ Queue([op |-> "stop", s |-> s, n |-> 0, completed |-> completed])
    /\ session' = [session EXCEPT ![s] = "stopped"]
    /\ UNCHANGED <<habit, now, id, sent, pool, work, paths, gPersistentCount, names, disk,
                   upload, history>>

\* time(NULL)
Tick ==
    /\ now < habit.seconds /\ now' = now + 1
    /\ UNCHANGED <<habit, id, session, sent, queue, pool, work, paths, gPersistentCount, names,
                   disk, upload, history>>

\* unInit(): threadpool_destroy lets the workers finish what they run and drops
\* what is queued.
UnInit ==
    /\ pool = "open"
    /\ \A s \in Session : session[s] # "open"
    /\ habit.patient => Quiet
    /\ pool' = "closing"
    /\ UNCHANGED <<client, queue, work, paths, gPersistentCount, names, disk, upload,
                   history>>

\* Then it frees gPreName, and leaves the pointer.
Closed ==
    /\ pool = "closing" /\ \A w \in Worker : wpc[w] = "idle"
    /\ pool' = "closed"
    /\ preFreed' = (preFreed \/ gPreName # NoPath)
    /\ UNCHANGED <<client, queue, work, paths, gPersistentCount, gPreName, disk, upload,
                   history>>
-----------------------------------------------------------------------------
(* The tasks.                                                              *)

FirstStep(t) == CASE t.op = "start"   -> "path"
                  [] t.op = "process" -> "name"
                  [] t.op = "stop"    -> IF t.completed THEN "count" ELSE "erase"

Take(w) ==
    /\ pool = "open" /\ wpc[w] = "idle" /\ queue # <<>>
    /\ wtask' = [wtask EXCEPT ![w] = Head(queue)]
    /\ wpc' = [wpc EXCEPT ![w] = FirstStep(Head(queue))]
    /\ queue' = Tail(queue)
    /\ UNCHANGED <<client, pool, wpath, paths, gPersistentCount, names, disk, upload,
                   history>>

Goto(w, pc) == wpc' = [wpc EXCEPT ![w] = pc] /\ UNCHANGED <<wtask, wpath>>
Return(w) == /\ wpc' = [wpc EXCEPT ![w] = "idle"]
             /\ wtask' = [wtask EXCEPT ![w] = NoTask]
             /\ wpath' = [wpath EXCEPT ![w] = NoPath]

\* gpDefaultPath = gDefaultLocal[gnDefaultPathIndex]
StartPath(w) ==
    /\ wpc[w] = "path"
    /\ gpDefaultPath' = gnDefaultPathIndex
    /\ Goto(w, "mkbase")
    /\ UNCHANGED <<client, queue, pool, gnDefaultPathIndex, gPersistentCount, names,
                   disk, upload, history>>

\* The disk is full for the task of w.
Refuse(w) ==
    /\ Cardinality(refused) < habit.faults
    /\ refused' = refused \union {<<wtask[w].s, wtask[w].n>>}

\* One mkdir of initPath(), in the tree gpDefaultPath names now (the read and the
\* mkdir, 256-264, are one step).  It makes
\* directory number l unless the one above it is missing; then initPath gives up.
MakeLevel(w, at, l, next) ==
    /\ wpc[w] = at
    /\ IF level[gpDefaultPath] >= l - 1
       THEN /\ level' = [level EXCEPT ![gpDefaultPath] = IF @ < l THEN l ELSE @]
            /\ wpc' = [wpc EXCEPT ![w] = next]
            /\ wpath' = [wpath EXCEPT ![w] = gpDefaultPath]
       ELSE /\ wpc' = [wpc EXCEPT ![w] = "mkdir"]
            /\ UNCHANGED <<level, wpath>>
    /\ UNCHANGED <<client, queue, pool, wtask, paths, gPersistentCount, names, dirs,
                   file, refused, upload, history>>

\* The disk has no room for it: initPath gives up.
LevelRefused(w, at, l) ==
    /\ wpc[w] = at /\ level[gpDefaultPath] = l - 1
    /\ Refuse(w) /\ Goto(w, "mkdir")
    /\ UNCHANGED <<client, queue, pool, paths, gPersistentCount, names, level, dirs,
                   file, upload, history>>

InitPath(w) ==
    \/ MakeLevel(w, "mkbase", 1, "mkpig") \/ LevelRefused(w, "mkbase", 1)
    \/ MakeLevel(w, "mkpig", 2, "mkdev") \/ LevelRefused(w, "mkpig", 2)
    \/ MakeLevel(w, "mkdev", 3, "setname") \/ LevelRefused(w, "mkdev", 3)

\* gPreName = strdup(path); the string it named before is not freed.
SetName(w) ==
    /\ wpc[w] = "setname"
    /\ gPreName' = wpath[w] /\ preFreed' = FALSE
    /\ Goto(w, "mkdir")
    /\ UNCHANGED <<client, queue, pool, paths, gPersistentCount, disk, upload, history>>

\* What printing gPreName may give: a tree, or a name that names none when the
\* pointer is NULL; of a freed string, either.
PreName == IF preFreed THEN {gPreName, NoPath} ELSE {gPreName}

\* The end of StartTask: mkdir of the session's directory, in the same step as the
\* read of gPreName that getDirByID prints.
MakeDir(w) ==
    /\ wpc[w] = "mkdir"
    /\ \E p \in PreName :
          dirs' = IF p # NoPath /\ level[p] = 3
                  THEN dirs \union {<<p, id[wtask[w].s]>>} ELSE dirs
    /\ Return(w)
    /\ UNCHANGED <<client, queue, pool, paths, gPersistentCount, names, level, file,
                   refused, upload, history>>

DirRefused(w) ==
    /\ wpc[w] = "mkdir"
    /\ \E p \in PreName \ {NoPath} : level[p] = 3 /\ <<p, id[wtask[w].s]>> \notin dirs
    /\ Refuse(w) /\ Return(w)
    /\ UNCHANGED <<client, queue, pool, paths, gPersistentCount, names, level, dirs,
                   file, upload, history>>

\* ProcessTask and StopTask print the name of the session's file or directory,
ReadName(w) ==
    /\ wpc[w] \in {"name", "erase"}
    /\ \E p \in PreName : wpath' = [wpath EXCEPT ![w] = p]
    /\ wpc' = [wpc EXCEPT ![w] = IF @ = "name" THEN "write" ELSE "remove"]
    /\ UNCHANGED <<client, queue, pool, wtask, paths, gPersistentCount, names, disk,
                   upload, history>>

Whole(t) == [s |-> t.s, n |-> t.n, torn |-> FALSE]

\* Mutant: the file is truncated when it is opened.
WriteTruncated(w) ==
    /\ wpc[w] = "write"
    /\ LET t == wtask[w]
           d == <<wpath[w], id[t.s]>>
       IN  file' = IF d \in dirs THEN [file EXCEPT ![d] = <<Whole(t)>>]
                   ELSE file
    /\ Return(w)
    /\ UNCHANGED <<client, queue, pool, paths, gPersistentCount, names, level, dirs,
                   refused, upload, history>>

\* then open and write the file, unless its directory is not there,
Write(w) ==
    /\ wpc[w] = "write"
    /\ LET t == wtask[w]
           d == <<wpath[w], id[t.s]>>
       IN  file' = IF d \in dirs
                   THEN [file EXCEPT ![d] = Append(@, Whole(t))]
                   ELSE file
    /\ Return(w)
    /\ UNCHANGED <<client, queue, pool, paths, gPersistentCount, names, level, dirs,
                   refused, upload, history>>

\* (open fails, or write has room for a part of the chunk, which stays)
WriteRefused(w) ==
    /\ wpc[w] = "write"
    /\ LET t == wtask[w]
           d == <<wpath[w], id[t.s]>>
       IN  /\ d \in dirs
           /\ \/ UNCHANGED file
              \/ file' = [file EXCEPT ![d] = Append(@, [Whole(t) EXCEPT !.torn = TRUE])]
    /\ Refuse(w) /\ Return(w)
    /\ UNCHANGED <<client, queue, pool, paths, gPersistentCount, names, level, dirs,
                   upload, history>>

\* Mutant: rmdir alone; where it fails the task returns with the id not freed.
RemoveEmptyOnly(w) ==
    /\ wpc[w] = "remove"
    /\ LET s == wtask[w].s
           d == <<wpath[w], id[s]>>
           empty == d \notin dirs \/ file[d] = <<>>
       IN  /\ dirs' = IF empty THEN dirs \ {d} ELSE dirs
           /\ idFreed' = [idFreed EXCEPT ![s] = empty]
           /\ fate' = [fate EXCEPT ![s] = "interrupted"]
    /\ Return(w)
    /\ UNCHANGED <<client, queue, pool, paths, gPersistentCount, names, level, file,
                   refused, upload>>

\* or remove the directory of an interrupted session and free its id.
Remove(w) ==
    /\ wpc[w] = "remove"
    /\ LET s == wtask[w].s
           d == <<wpath[w], id[s]>>
       IN  /\ dirs' = dirs \ {d}
           /\ file' = IF d \in dirs THEN [file EXCEPT ![d] = <<>>] ELSE file
           /\ idFreed' = [idFreed EXCEPT ![s] = TRUE]
           /\ fate' = [fate EXCEPT ![s] = "interrupted"]
    /\ Return(w)
    /\ UNCHANGED <<client, queue, pool, paths, gPersistentCount, names, level, refused,
                   upload>>

\* checkUpload(): a thread, which returns at once if it is given no tree.
StartUpload ==
    IF gpDefaultPath = NoPath THEN UNCHANGED <<upc, upath>>
    ELSE \E u \in {v \in Uploader : upc[v] = "idle"} :
            /\ upc' = [upc EXCEPT ![u] = "rotate"]
            /\ upath' = [upath EXCEPT ![u] = gpDefaultPath]

\* Mutant: the upload starts one session late.
CountLate(w) ==
    /\ wpc[w] = "count"
    /\ LET s == wtask[w].s
           kept == {r \in Session : fate[r] = "kept"} \union {s}
       IN  /\ idFreed' = [idFreed EXCEPT ![s] = TRUE]
           /\ IF gPersistentCount = 0 /\ Cardinality(kept) > 1
              THEN /\ StartUpload
                   /\ fate' = [r \in Session |-> IF r \in kept THEN "uploaded" ELSE fate[r]]
              ELSE /\ UNCHANGED <<upc, upath>>
                   /\ fate' = [fate EXCEPT ![s] = "kept"]
    /\ gPersistentCount' = (gPersistentCount + 1) % MAX_PERSISTENT_COUNT
    /\ Return(w)
    /\ UNCHANGED <<client, queue, pool, paths, names, disk, todo>>

\* The end of a completed session: count it, and start an upload when the tree
\* is full.
Count(w) ==
    /\ wpc[w] = "count"
    /\ LET s == wtask[w].s
           kept == {r \in Session : fate[r] = "kept"} \union {s}
       IN  /\ idFreed' = [idFreed EXCEPT ![s] = TRUE]
           /\ IF gPersistentCount = MAX_PERSISTENT_COUNT - 1
              THEN /\ StartUpload
                   /\ fate' = [r \in Session |-> IF r \in kept THEN "uploaded" ELSE fate[r]]
              ELSE /\ UNCHANGED <<upc, upath>>
                   /\ fate' = [fate EXCEPT ![s] = "kept"]
    /\ gPersistentCount' = (gPersistentCount + 1) % MAX_PERSISTENT_COUNT
    /\ Return(w)
    /\ UNCHANGED <<client, queue, pool, paths, names, disk, todo>>

Work(w) ==
    \/ Take(w) \/ StartPath(w) \/ InitPath(w) \/ SetName(w)
    \/ MakeDir(w) \/ DirRefused(w) \/ ReadName(w) \/ Write(w) \/ WriteRefused(w) \/ Remove(w) \/ Count(w)
-----------------------------------------------------------------------------
(* UploadTask, a detached thread.                                          *)

UploadGoto(u, at, next) == upc[u] = at /\ upc' = [upc EXCEPT ![u] = next]
UnchangedByUpload == UNCHANGED <<client, queue, pool, work, gPersistentCount, history>>

Rotate(u) ==
    /\ UploadGoto(u, "rotate", "switch")
    /\ gnDefaultPathIndex' = (gnDefaultPathIndex + 1) % MAX_PATH_INDEX
    /\ UnchangedByUpload /\ UNCHANGED <<gpDefaultPath, names, disk, upath, todo>>

Switch(u) ==
    /\ UploadGoto(u, "switch", "free")
    /\ gpDefaultPath' = gnDefaultPathIndex
    /\ UnchangedByUpload /\ UNCHANGED <<gnDefaultPathIndex, names, disk, upath, todo>>

\* free(gPreName), which may be NULL
FreeName(u) ==
    /\ UploadGoto(u, "free", "null")
    /\ preFreed' = (preFreed \/ gPreName # NoPath)
    /\ UnchangedByUpload /\ UNCHANGED <<paths, gPreName, disk, upath, todo>>

\* Mutant: gPreName keeps the freed pointer.
KeepName(u) ==
    /\ UploadGoto(u, "null", "list")
    /\ UnchangedByUpload /\ UNCHANGED <<paths, names, disk, upath, todo>>

ClearName(u) ==
    /\ UploadGoto(u, "null", "list")
    /\ gPreName' = NoPath /\ preFreed' = FALSE
    /\ UnchangedByUpload /\ UNCHANGED <<paths, disk, upath, todo>>

\* remove_file(path) reads the directory of sessions.  What is there when it
\* opens it will be removed; what is created later may be.
List(u) ==
    /\ UploadGoto(u, "list", "clear")
    /\ todo' = [todo EXCEPT ![u] = {d \in dirs : d[1] = upath[u]}]
    /\ UnchangedByUpload /\ UNCHANGED <<paths, names, disk, upath>>

\* It removes one session's files and directory.
Clear(u) ==
    /\ upc[u] = "clear"
    /\ \E d \in dirs :
        /\ d[1] = upath[u]
        /\ dirs' = dirs \ {d}
        /\ file' = [file EXCEPT ![d] = <<>>]
        /\ todo' = [todo EXCEPT ![u] = @ \ {d}]
    /\ UnchangedByUpload /\ UNCHANGED <<paths, names, level, refused, upc, upath>>

\* Mutant: only the first entry is removed.
ClearedAfterOne(u) ==
    /\ UploadGoto(u, "clear", "rmdev")
    /\ todo' = [todo EXCEPT ![u] = {}]
    /\ UnchangedByUpload /\ UNCHANGED <<paths, names, disk, upath>>

\* The directory is read to its end.
Cleared(u) ==
    /\ todo[u] \intersect dirs = {}
    /\ UploadGoto(u, "clear", "rmdev")
    /\ todo' = [todo EXCEPT ![u] = {}]
    /\ UnchangedByUpload /\ UNCHANGED <<paths, names, disk, upath>>

\* rmdir of directory number l on the way back; it fails if it is not empty.
RemoveLevel(u, at, l, next) ==
    /\ UploadGoto(u, at, next)
    /\ level' = IF /\ level[upath[u]] = l
                   /\ l = 3 => \A d \in dirs : d[1] # upath[u]
                THEN [level EXCEPT ![upath[u]] = l - 1] ELSE level
    /\ upath' = [upath EXCEPT ![u] = IF next = "idle" THEN NoPath ELSE @]
    /\ UnchangedByUpload /\ UNCHANGED <<paths, names, dirs, file, refused, todo>>

RemoveTree(u) ==
    \/ RemoveLevel(u, "rmdev", 3, "rmpig")
    \/ RemoveLevel(u, "rmpig", 2, "rmbase")
    \/ RemoveLevel(u, "rmbase", 1, "idle")

Upload(u) ==
    \/ Rotate(u) \/ Switch(u) \/ FreeName(u) \/ ClearName(u)
    \/ List(u) \/ Clear(u) \/ Cleared(u) \/ RemoveTree(u)
-----------------------------------------------------------------------------
Next ==
    \/ \E s \in Session : \/ SpeechStart(s) \/ SpeechProcess(s)
                          \/ \E completed \in BOOLEAN : SpeechStop(s, completed)
    \/ Tick \/ UnInit \/ Closed
    \/ \E w \in Worker : Work(w)
    \/ \E u \in Uploader : Upload(u)

Spec == Init /\ [][Next]_vars

\* Threads run; the client need not call.
FairSpec ==
    /\ Spec
    /\ \A w \in Worker : WF_vars(Work(w))
    /\ \A u \in Uploader : WF_vars(Upload(u))
=============================================================================
