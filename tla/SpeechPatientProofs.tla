-------------------------- MODULE SpeechPatientProofs --------------------------
(***************************************************************************)
(* The recording service for a client that is patient, as SpeechDemo.c is: *)
(* it leaves StartTask, StopTask and UploadTask the time to finish before  *)
(* it opens the next session.  Nothing in the code enforces that; what the *)
(* code then guarantees is proved here, for every such client.             *)
(***************************************************************************)
EXTENDS SpeechPersistentProofs

-----------------------------------------------------------------------------
(* One session is served at a time.                                        *)

\* The tasks in line.
Tasks == {queue[i] : i \in 1..Len(queue)}
            \union {wtask[w] : w \in {v \in Worker : wpc[v] # "idle"}}

InLine(s, op, n) == \E t \in Tasks : t.s = s /\ t.op = op /\ t.n = n

\* The service is not done with s.
Busy(s) == session[s] = "open" \/ \E t \in Tasks : t.s = s

Uploading == \E u \in Uploader : upc[u] # "idle"

\* A stopped session whose id is not freed has its StopTask in line.
StopInLine ==
    \A s \in Session : session[s] = "stopped" /\ ~idFreed[s] =>
        \E t \in Tasks : t.s = s /\ t.op = "stop"

\* While a session waits for its StartTask, its chunks wait too.
StartFirst ==
    \A s \in Session :
        /\ session[s] = "new" => sent[s] = 0
        /\ InLine(s, "start", 0) => \A n \in 1..sent[s] : InLine(s, "process", n)

\* One session is served at a time; an upload has the service for itself.
OneAtATime ==
    habit.patient =>
        /\ \A r, s \in Session : Busy(r) /\ Busy(s) => r = s
        /\ Uploading \/ pool # "open" => \A s \in Session : ~Busy(s)
        /\ Uploading => pool = "open"
        /\ \A u, v \in Uploader : upc[u] # "idle" /\ upc[v] # "idle" => u = v
        /\ preFreed => pool = "closed" \/ \E u \in Uploader : upc[u] = "null"

-----------------------------------------------------------------------------
(* The disk.                                                               *)

\* Where an upload thread is once it has made the next tree the one in use, once
\* it has given up gPreName, and once the tree it was given is empty.
Switched == {"free", "null", "list", "clear", "rmdev", "rmpig", "rmbase"}
Unnamed  == {"list", "clear", "rmdev", "rmpig", "rmbase"}
Emptied  == {"rmdev", "rmpig", "rmbase"}

\* The sessions are in one tree: the one in use,
TreeInUse ==
    ~Uploading => /\ \A d \in dirs : d[1] = gpDefaultPath
                  /\ gPreName \in {NoPath, gpDefaultPath}
                  /\ gpDefaultPath \in {NoPath, gnDefaultPathIndex}

\* or the one an upload removes;
TreeRemoved ==
    \A u \in Uploader :
        /\ upc[u] # "idle" => \A d \in dirs : d[1] = upath[u]
        /\ upc[u] \in Switched => gpDefaultPath = gnDefaultPathIndex
        /\ upc[u] \in Unnamed => gPreName = NoPath
        /\ upc[u] = "clear" => dirs \subseteq todo[u]
        /\ upc[u] \in Emptied => dirs = {}

\* it is the one the worker has read the path of.
TreeRead ==
    \A w \in Worker :
        /\ wpc[w] \in {"mkbase", "mkpig", "mkdev", "setname"} =>
              gpDefaultPath = gnDefaultPathIndex
        /\ wpc[w] = "setname" => wpath[w] = gpDefaultPath
        /\ wpc[w] \in {"write", "remove"} => wpath[w] = gPreName

OneTree == habit.patient => TreeInUse /\ TreeRemoved /\ TreeRead

\* What is left on the disk of a session.
Left ==
    habit.patient =>
        \A s \in Session :
            /\ fate[s] = "interrupted" \/ (fate[s] = "uploaded" /\ ~Uploading) =>
                  \A d \in Dir : ~Holds(d, s)
            /\ fate[s] = "pending" => \A d \in Dir : Holds(d, s) => d = <<gPreName, id[s]>>

\* initPath() makes the tree, unless the disk refuses.
Made ==
    habit.patient =>
        \A w \in Worker :
            /\ wpc[w] = "mkpig" => level[gpDefaultPath] >= 1
            /\ wpc[w] = "mkdev" => level[gpDefaultPath] >= 2
            /\ wpc[w] = "setname" => level[gpDefaultPath] = 3
            /\ wpc[w] = "mkdir" /\ <<wtask[w].s, 0>> \notin refused =>
                  gPreName \in PathIdx /\ level[gPreName] = 3

\* Sessions that start in different seconds have different ids.
DistinctIds ==
    habit.distinct =>
        \A r, s \in Session : session[r] # "new" /\ session[s] # "new" /\ id[r] = id[s] => r = s

\* A chunk the disk refused has been dealt with.
RefusedBehind == \A s \in Session, n \in 1..MaxChunk : <<s, n>> \in refused => Behind(s, n)

\* The chunk n of s is in d, whole.
InFile(d, s, n) ==
    \E i \in 1..Len(file[d]) : file[d][i] = [s |-> s, n |-> n, torn |-> FALSE]

\* The chunks of s that have been dealt with are in d, but for those refused.
Complete(d, s) ==
    /\ d \in dirs
    /\ \A n \in 1..sent[s] : ~InLine(s, "process", n) =>
          (<<s, n>> \notin refused <=> InFile(d, s, n))

\* A session with a directory is complete so far.
Stored ==
    habit.patient /\ habit.distinct =>
        /\ Uploading => \A s \in Session : fate[s] # "kept"
        /\ \A s \in Session :
              session[s] # "new" /\ <<s, 0>> \notin refused /\ ~InLine(s, "start", 0) =>
                  /\ fate[s] = "pending" =>
                        gPreName \in PathIdx /\ Complete(<<gPreName, id[s]>>, s)
                  /\ fate[s] = "kept" => \E p \in PathIdx : Complete(<<p, id[s]>>, s)
-----------------------------------------------------------------------------
(* The line as a set of tasks.                                             *)

LEMMA TaskFacts ==
    ASSUME TypeOK, Line, NEW t \in Tasks
    PROVE  /\ Proper(t) /\ Due(t)
           /\ t \in Task /\ t.s \in Session /\ t.n \in 0..MaxChunk /\ t.op \in Op
<1>1. Proper(t) /\ Due(t)
  BY DEF Tasks, Line, Suits
<1>. QED
  BY <1>1 DEF Proper, Task

LEMMA WorkerInLine ==
    ASSUME TypeOK, Line, NEW w \in Worker, wpc[w] # "idle"
    PROVE  /\ wtask[w] \in Tasks
           /\ \A u \in Tasks \ {wtask[w]} : Before(wtask[w], u)
BY DEF Tasks, Line, Worker

LEMMA TasksKept ==
    ASSUME TypeOK, Line, Stays \/ \E w \in Worker : Take(w)
    PROVE  Tasks' = Tasks
<1>1. CASE Stays
  BY <1>1 DEF Stays, Tasks
<1>2. ASSUME NEW w \in Worker, Take(w) PROVE Tasks' = Tasks
  <2>1. /\ Len(queue') = Len(queue) - 1 /\ 1 \in 1..Len(queue) /\ Len(queue) \in Nat
        /\ \A i \in 1..Len(queue') : i + 1 \in 1..Len(queue) /\ queue'[i] = queue[i + 1]
        /\ wtask'[w] = queue[1] /\ wpc'[w] = FirstStep(queue[1])
        /\ queue[1] \in Task
    BY <1>2, Taken
  <2>2. wpc'[w] # "idle" /\ wpc[w] = "idle" /\ \A v \in Worker : v = w
    <3>1. queue[1].op \in Op
      BY <2>1 DEF Task
    <3>. QED
      BY <1>2, <2>1, <3>1 DEF Take, FirstStep, Op, Worker
  <2>3. \A i \in 1..Len(queue) : i = 1 \/ (i - 1 \in 1..Len(queue') /\ queue'[i - 1] = queue[i])
    <3>. SUFFICES ASSUME NEW i \in 1..Len(queue), i # 1
                  PROVE  i - 1 \in 1..Len(queue') /\ queue'[i - 1] = queue[i]
      OBVIOUS
    <3>1. i - 1 \in 1..Len(queue') /\ (i - 1) + 1 = i
      BY <2>1
    <3>. QED
      BY <2>1, <3>1
  <2>4. \A t : t \in Tasks <=> \E i \in 1..Len(queue) : t = queue[i]
    BY <2>2 DEF Tasks
  <2>5. \A t : t \in Tasks' <=> t = queue[1] \/ \E i \in 1..Len(queue') : t = queue'[i]
    BY <2>1, <2>2 DEF Tasks
  <2>6. \A t : t \in Tasks <=> t \in Tasks'
    BY <2>1, <2>3, <2>4, <2>5
  <2>. QED
    BY <2>6
<1>. QED
  BY <1>1, <1>2

LEMMA TasksJoined ==
    ASSUME TypeOK, NEW s \in Session, NEW t \in Task, Appends(s, t)
    PROVE  Tasks' = Tasks \union {t}
<1>1. /\ Len(queue') = Len(queue) + 1 /\ Len(queue) \in Nat
      /\ \A i \in 1..Len(queue) : queue'[i] = queue[i]
      /\ queue'[Len(queue) + 1] = t
      /\ \A i \in 1..Len(queue') : i \in 1..Len(queue) \/ i = Len(queue) + 1
  BY Joined DEF Appends, TypeOK
<1>2. wpc' = wpc /\ wtask' = wtask
  BY DEF Appends
<1>3. {queue'[i] : i \in 1..Len(queue')} = {queue[i] : i \in 1..Len(queue)} \union {t}
  BY <1>1
<1>. QED
  BY <1>2, <1>3 DEF Tasks

LEMMA TasksLeft ==
    ASSUME TypeOK, Line, NEW w \in Worker, Leaves(w)
    PROVE  Tasks' = Tasks \ {wtask[w]}
<1>1. /\ queue' = queue /\ wpc'[w] = "idle" /\ wpc[w] # "idle" /\ \A v \in Worker : v = w
  BY DEF Leaves, Return, TypeOK, Worker
<1>2. Proper(wtask[w]) /\ wtask[w].n \in Nat /\ wtask[w].op \in Op
  BY <1>1, WorkerTask, SpeechAssumption DEF Line, Task
<1>3. \A i \in 1..Len(queue) : queue[i] # wtask[w]
  BY <1>1, <1>2 DEF Line, Before, Precedes, Op
<1>4. \A t : t \in Tasks <=> t = wtask[w] \/ \E i \in 1..Len(queue) : t = queue[i]
  BY <1>1 DEF Tasks
<1>5. \A t : t \in Tasks' <=> \E i \in 1..Len(queue) : t = queue[i]
  BY <1>1 DEF Tasks
<1>6. \A t : t \in Tasks' <=> t \in Tasks \ {wtask[w]}
  BY <1>3, <1>4, <1>5
<1>. QED
  BY <1>6
-----------------------------------------------------------------------------
(* What the calls leave in line.                                           *)

LEMMA StopInLineStep ==
    ASSUME TypeOK, Line, Ended, StopInLine, [Next]_vars
    PROVE  StopInLine'
<1>. SUFFICES ASSUME NEW s \in Session, session'[s] = "stopped", ~idFreed'[s]
              PROVE  \E t \in Tasks' : t.s = s /\ t.op = "stop"
  BY DEF StopInLine
<1>1. ASSUME NEW r \in Session, Calls(r)
      PROVE  \E t \in Tasks' : t.s = s /\ t.op = "stop"
  <2>1. PICK t \in Task : Appends(r, t)
    BY <1>1, CallAppends
  <2>2. Tasks' = Tasks \union {t}
    BY <2>1, TasksJoined
  <2>3. CASE r = s
    BY <2>1, <2>2, <2>3 DEF Appends
  <2>4. CASE r # s
    BY <2>1, <2>2, <2>4 DEF Appends, StopInLine
  <2>. QED
    BY <2>3, <2>4
<1>2. ASSUME NEW w \in Worker, Leaves(w)
      PROVE  \E t \in Tasks' : t.s = s /\ t.op = "stop"
  <2>1. session[s] = "stopped" /\ ~idFreed[s] /\ Tasks' = Tasks \ {wtask[w]}
    BY <1>2, TasksLeft DEF Leaves, TypeOK
  <2>2. PICK t \in Tasks : t.s = s /\ t.op = "stop"
    BY <2>1 DEF StopInLine
  <2>3. t # wtask[w]
    BY <1>2, <2>2 DEF Leaves, TypeOK
  <2>. QED
    BY <2>1, <2>2, <2>3
<1>3. CASE Stays \/ \E w \in Worker : Take(w)
  BY <1>3, TasksKept DEF Stays, Take, client, history, StopInLine
<1>. QED
  BY <1>1, <1>2, <1>3, StepKinds

LEMMA StartFirstStep ==
    ASSUME TypeOK, Line, Ended, StartFirst, [Next]_vars
    PROVE  StartFirst'
<1>0. sent \in [Session -> 0..MaxChunk] /\ \A s \in Session : sent[s] \in Nat
  BY SpeechAssumption DEF TypeOK
<1>1. \A s \in Session : session'[s] = "new" => sent'[s] = 0
  <2>1. ASSUME NEW r \in Session, Calls(r), NEW s \in Session, session'[s] = "new"
        PROVE  sent'[s] = 0
    BY <2>1, <1>0, CallAppends DEF Appends, StartFirst
  <2>2. CASE Stays \/ \E w \in Worker : Take(w) \/ Leaves(w)
    BY <2>2 DEF Stays, Take, client, Leaves, StartFirst
  <2>. QED
    BY <2>1, <2>2, StepKinds
<1>. SUFFICES ASSUME NEW s \in Session, NEW a \in Tasks', a.s = s, a.op = "start", a.n = 0,
                     NEW n \in 1..sent'[s]
              PROVE  \E t \in Tasks' : t.s = s /\ t.op = "process" /\ t.n = n
  BY <1>1 DEF StartFirst, InLine
<1>2. ASSUME a \in Tasks, n \in 1..sent[s]
      PROVE  \E t \in Tasks : t.s = s /\ t.op = "process" /\ t.n = n
  BY <1>2 DEF StartFirst, InLine
<1>3. ASSUME NEW r \in Session, Calls(r)
      PROVE  \E t \in Tasks' : t.s = s /\ t.op = "process" /\ t.n = n
  <2>1. PICK t \in Task : Appends(r, t)
    BY <1>3, CallAppends
  <2>2. Tasks' = Tasks \union {t}
    BY <2>1, TasksJoined
  <2>3. CASE a = t
    <3>1. session[s] = "new" /\ sent'[s] = sent[s]
      BY <1>0, <2>1, <2>3 DEF Appends
    <3>. QED
      BY <1>0, <3>1 DEF StartFirst
  <2>4. CASE a \in Tasks /\ ~(r = s /\ t.op = "process")
    BY <1>0, <1>2, <2>1, <2>2, <2>4 DEF Appends
  <2>5. CASE a \in Tasks /\ r = s /\ t.op = "process"
    <3>1. t.n = sent[s] + 1 /\ sent'[s] = t.n /\ t.s = s
      BY <1>0, <2>1, <2>5 DEF Appends
    <3>2. n = t.n \/ n \in 1..sent[s]
      BY <1>0, <3>1
    <3>. QED
      BY <1>2, <2>2, <2>5, <3>1, <3>2
  <2>. QED
    BY <2>2, <2>3, <2>4, <2>5
<1>4. ASSUME NEW w \in Worker, Leaves(w)
      PROVE  \E t \in Tasks' : t.s = s /\ t.op = "process" /\ t.n = n
  <2>1. Tasks' = Tasks \ {wtask[w]} /\ sent' = sent /\ wpc[w] # "idle"
    BY <1>4, TasksLeft DEF Leaves
  <2>2. PICK t \in Tasks : t.s = s /\ t.op = "process" /\ t.n = n
    BY <1>2, <2>1
  <2>3. Before(wtask[w], a)
    BY <2>1, WorkerInLine
  <2>. QED
    BY <2>1, <2>2, <2>3 DEF Before, Precedes
<1>5. CASE Stays \/ \E w \in Worker : Take(w)
  BY <1>5, <1>2, TasksKept DEF Stays, Take, client
<1>. QED
  BY <1>3, <1>4, <1>5, StepKinds

\* Only speechStart makes the service busy with a session.
LEMMA BusyStep ==
    ASSUME TypeOK, Line, [Next]_vars, NEW s \in Session, Busy(s)'
    PROVE  Busy(s) \/ SpeechStart(s)
<1>1. ASSUME NEW r \in Session, Calls(r)
      PROVE  Busy(s) \/ SpeechStart(s)
  <2>1. PICK t \in Task : Appends(r, t)
    BY <1>1, CallAppends
  <2>2. Tasks' = Tasks \union {t} /\ t.s = r
    BY <2>1, TasksJoined DEF Appends
  <2>3. CASE r = s
    BY <1>1, <2>3 DEF Calls, SpeechProcess, SpeechStop, Busy
  <2>4. CASE r # s
    BY <2>1, <2>2, <2>4 DEF Busy, Appends
  <2>. QED
    BY <2>3, <2>4
<1>2. ASSUME NEW w \in Worker, Leaves(w) PROVE Busy(s)
  BY <1>2, TasksLeft DEF Leaves, Busy
<1>3. CASE Stays \/ \E w \in Worker : Take(w)
  BY <1>3, TasksKept DEF Stays, Take, client, Busy
<1>. QED
  BY <1>1, <1>2, <1>3, StepKinds

LEMMA HabitStep == [Next]_vars => habit' = habit
BY DEF Next, vars, client, SpeechStart, SpeechProcess, SpeechStop, Tick, UnInit, Closed, Work,
   Take, StartPath, InitPath, MakeLevel, LevelRefused, SetName, MakeDir, DirRefused,
   ReadName, Write, WriteRefused, Remove, Count, Upload, Rotate, Switch, FreeName,
   ClearName, List, Clear, Cleared, RemoveTree, RemoveLevel, UnchangedByUpload

LEMMA DistinctStep ==
    ASSUME TypeOK, Line, DistinctIds, [Next]_vars
    PROVE  DistinctIds'
<1>1. ASSUME NEW s \in Session, SpeechStart(s) PROVE DistinctIds'
  BY <1>1 DEF SpeechStart, DistinctIds, Started, TypeOK
<1>2. ASSUME NEW s \in Session, Calls(s), ~SpeechStart(s) PROVE DistinctIds'
  <2>1. /\ id' = id /\ habit' = habit
        /\ \A r \in Session : session'[r] # "new" => session[r] # "new"
    <3>1. CASE SpeechProcess(s)
      BY <3>1 DEF SpeechProcess
    <3>2. ASSUME NEW completed \in BOOLEAN, SpeechStop(s, completed)
          PROVE  /\ id' = id /\ habit' = habit
                 /\ \A r \in Session : session'[r] # "new" => session[r] # "new"
      BY <3>2 DEF SpeechStop, TypeOK
    <3>. QED
      BY <1>2, <3>1, <3>2 DEF Calls
  <2>. QED
    BY <2>1 DEF DistinctIds
<1>3. CASE Stays \/ \E w \in Worker : Take(w) \/ Leaves(w)
  BY <1>3, HabitStep DEF Stays, Take, client, Leaves, DistinctIds
<1>. QED
  BY <1>1, <1>2, <1>3, StepKinds
-----------------------------------------------------------------------------
(* One at a time.                                                          *)

\* A worker that runs is busy with the session of its task.
LEMMA WorkerBusy ==
    ASSUME TypeOK, Line, NEW w \in Worker, wpc[w] # "idle"
    PROVE  wtask[w].s \in Session /\ Busy(wtask[w].s)
BY WorkerInLine, TaskFacts DEF Busy

\* With nothing in line and no session open the service is not busy.
LEMMA NobodyBusy ==
    ASSUME Quiet, \A s \in Session : session[s] # "open"
    PROVE  ~Uploading /\ \A s \in Session : ~Busy(s)
<1>1. Tasks = {}
  BY DEF Quiet, Tasks
<1>. QED
  BY <1>1 DEF Quiet, Busy, Uploading

\* A session whose StopTask leaves is not busy any more.
LEMMA StopLeaves ==
    ASSUME TypeOK, Line, NEW w \in Worker, Leaves(w), wtask[w].op = "stop",
           NEW s \in Session, wtask[w].s = s
    PROVE  ~Busy(s)'
<1>1. /\ Tasks' = Tasks \ {wtask[w]} /\ wpc[w] # "idle" /\ session' = session
  BY TasksLeft DEF Leaves
<1>2. session[s] = "stopped"
  BY <1>1 DEF Line, Due
<1>3. \A t \in Tasks' : t.s # s
  BY <1>1, WorkerInLine DEF Before
<1>. QED
  BY <1>1, <1>2, <1>3 DEF Busy

\* Where an upload thread can be after a step.
LEMMA UploadKinds ==
    ASSUME TypeOK, [Next]_vars
    PROVE  \/ upc' = upc /\ upath' = upath
           \/ \E w \in Worker, u \in Uploader :
                 /\ Count(w) /\ gpDefaultPath # NoPath /\ upc[u] = "idle"
                 /\ upc' = [upc EXCEPT ![u] = "rotate"]
                 /\ upath' = [upath EXCEPT ![u] = gpDefaultPath]
           \/ \E u \in Uploader : Upload(u)
<1>. USE DEF client, work, paths, names, disk, upload, history
<1>1. ASSUME NEW w \in Worker, Count(w)
      PROVE  \/ upc' = upc /\ upath' = upath
             \/ \E u \in Uploader :
                 /\ gpDefaultPath # NoPath /\ upc[u] = "idle"
                 /\ upc' = [upc EXCEPT ![u] = "rotate"]
                 /\ upath' = [upath EXCEPT ![u] = gpDefaultPath]
  BY <1>1 DEF Count, StartUpload
<1>2. ASSUME NEW w \in Worker, Work(w), ~Count(w)
      PROVE  upc' = upc /\ upath' = upath
  BY <1>2 DEF Work, Take, StartPath, InitPath, MakeLevel, LevelRefused, SetName, MakeDir,
     DirRefused, ReadName, Write, WriteRefused, Remove
<1>3. ASSUME NEW s \in Session, Calls(s) PROVE upc' = upc /\ upath' = upath
  BY <1>3 DEF Calls, SpeechStart, SpeechProcess, SpeechStop
<1>4. CASE Tick \/ UnInit \/ Closed \/ UNCHANGED vars
  BY <1>4 DEF Tick, UnInit, Closed, vars
<1>. QED
  BY <1>1, <1>2, <1>3, <1>4 DEF Next, Calls

\* An upload thread that takes a step moves on its own.
LEMMA UploadAlone ==
    ASSUME TypeOK, NEW u \in Uploader, Upload(u)
    PROVE  /\ upc[u] # "idle" /\ UNCHANGED <<client, queue, pool, work, history>>
           /\ \A v \in Uploader : v # u => upc'[v] = upc[v]
           /\ upc[u] = "null" => preFreed' = FALSE
           /\ preFreed' = preFreed \/ preFreed' = FALSE \/ upc'[u] = "null"
<1>. USE DEF UploadGoto, UnchangedByUpload, names, TypeOK
<1>1. CASE RemoveTree(u)
  BY <1>1 DEF RemoveTree, RemoveLevel
<1>2. CASE Rotate(u) \/ Switch(u) \/ List(u)
  BY <1>2 DEF Rotate, Switch, List
<1>3. CASE FreeName(u) \/ ClearName(u)
  BY <1>3 DEF FreeName, ClearName
<1>4. CASE Clear(u) \/ Cleared(u)
  BY <1>4 DEF Clear, Cleared
<1>. QED
  BY <1>1, <1>2, <1>3, <1>4 DEF Upload

LEMMA OneAtATimeStep ==
    ASSUME TypeOK, Line, Ended, OneAtATime, [Next]_vars
    PROVE  OneAtATime'
<1>. SUFFICES ASSUME habit.patient
              PROVE  /\ \A r, s \in Session : Busy(r)' /\ Busy(s)' => r = s
                     /\ Uploading' \/ pool' # "open" => \A s \in Session : ~Busy(s)'
                     /\ Uploading' => pool' = "open"
                     /\ \A u, v \in Uploader : upc'[u] # "idle" /\ upc'[v] # "idle" => u = v
                     /\ preFreed' => pool' = "closed" \/ \E u \in Uploader : upc'[u] = "null"
  BY HabitStep DEF OneAtATime
<1>. USE DEF client, work, paths, names, disk, upload, history
<1>0. /\ \A r, s \in Session : Busy(r) /\ Busy(s) => r = s
      /\ Uploading \/ pool # "open" => \A s \in Session : ~Busy(s)
      /\ Uploading => pool = "open"
      /\ \A u, v \in Uploader : upc[u] # "idle" /\ upc[v] # "idle" => u = v
      /\ preFreed => pool = "closed" \/ \E u \in Uploader : upc[u] = "null"
  BY DEF OneAtATime
<1>1. ASSUME NEW s \in Session, SpeechStart(s)
      PROVE  /\ ~Uploading /\ pool = "open" /\ upc' = upc /\ pool' = pool /\ preFreed' = preFreed
             /\ \A r \in Session : ~Busy(r)
  BY <1>1, NobodyBusy DEF SpeechStart
<1>2. \A r, s \in Session : Busy(r)' /\ Busy(s)' => r = s
  <2>. SUFFICES ASSUME NEW r \in Session, NEW s \in Session, Busy(r)', Busy(s)'
                PROVE  r = s
    OBVIOUS
  <2>1. (Busy(r) \/ SpeechStart(r)) /\ (Busy(s) \/ SpeechStart(s))
    BY BusyStep
  <2>2. SpeechStart(r) /\ SpeechStart(s) => r = s
    BY DEF SpeechStart
  <2>. QED
    BY <1>0, <1>1, <2>1, <2>2
<1>3. ASSUME NEW w \in Worker, Count(w)
      PROVE  /\ ~Uploading /\ pool = "open" /\ pool' = pool /\ preFreed' = preFreed
             /\ \A r \in Session : ~Busy(r)'
  <2>1. wpc[w] # "idle" /\ wtask[w].op = "stop"
    BY <1>3 DEF Count, Line, Suits
  <2>2. wtask[w].s \in Session /\ Busy(wtask[w].s) /\ ~Uploading /\ pool = "open"
    BY <1>0, <2>1, WorkerBusy
  <2>3. Leaves(w)
    BY <1>3, <2>1, WorkKinds DEF Work, Take, Stays, Count, Return, TypeOK
  <2>4. ASSUME NEW r \in Session, Busy(r)' PROVE FALSE
    <3>1. Busy(r)
      BY <1>1, <2>2, <2>4, BusyStep
    <3>2. r = wtask[w].s
      BY <1>0, <2>2, <3>1
    <3>. QED
      BY <2>1, <2>3, <2>4, <3>2, StopLeaves
  <2>. QED
    BY <1>3, <2>2, <2>4 DEF Count
<1>4. CASE \E s \in Session : SpeechStart(s)
  BY <1>0, <1>1, <1>2, <1>4 DEF Uploading
<1>5. CASE ~\E s \in Session : SpeechStart(s)
  <2>0. \A r \in Session : Busy(r)' => Busy(r)
    BY <1>5, BusyStep
  <2>1. ASSUME NEW w \in Worker, Count(w)
        PROVE  /\ Uploading' \/ pool' # "open" => \A s \in Session : ~Busy(s)'
               /\ Uploading' => pool' = "open"
               /\ \A u, v \in Uploader : upc'[u] # "idle" /\ upc'[v] # "idle" => u = v
               /\ preFreed' => pool' = "closed" \/ \E u \in Uploader : upc'[u] = "null"
    <3>1. \/ upc' = upc
          \/ \E u \in Uploader : upc' = [upc EXCEPT ![u] = "rotate"]
      BY <2>1 DEF Count, StartUpload
    <3>2. \A u \in Uploader : upc[u] = "idle"
      BY <1>3, <2>1 DEF Uploading
    <3>. QED
      BY <1>0, <1>3, <2>1, <3>1, <3>2 DEF TypeOK
  <2>2. ASSUME NEW u \in Uploader, Upload(u)
        PROVE  /\ Uploading' \/ pool' # "open" => \A s \in Session : ~Busy(s)'
               /\ Uploading' => pool' = "open"
               /\ \A x, v \in Uploader : upc'[x] # "idle" /\ upc'[v] # "idle" => x = v
               /\ preFreed' => pool' = "closed" \/ \E v \in Uploader : upc'[v] = "null"
    <3>1. Uploading /\ pool = "open" /\ pool' = pool
      BY <1>0, <2>2, UploadAlone DEF Uploading
    <3>2. \A v \in Uploader : v # u => upc[v] = "idle" /\ upc'[v] = "idle"
      BY <1>0, <2>2, UploadAlone
    <3>3. preFreed' => upc'[u] = "null"
      BY <1>0, <2>2, <3>1, <3>2, UploadAlone
    <3>. QED
      BY <1>0, <2>0, <3>1, <3>2, <3>3
  <2>3. CASE UnInit
    <3>1. ~Uploading /\ (\A s \in Session : ~Busy(s)) /\ pool = "open"
      BY <2>3, NobodyBusy DEF UnInit
    <3>2. upc' = upc /\ preFreed' = preFreed
      BY <2>3 DEF UnInit
    <3>. QED
      BY <1>0, <2>0, <3>1, <3>2 DEF Uploading
  <2>4. CASE Closed
    BY <1>0, <2>0, <2>4 DEF Closed, Uploading
  <2>5. ASSUME upc' = upc, pool' = pool, preFreed' => preFreed
        PROVE  /\ Uploading' \/ pool' # "open" => \A s \in Session : ~Busy(s)'
               /\ Uploading' => pool' = "open"
               /\ \A u, v \in Uploader : upc'[u] # "idle" /\ upc'[v] # "idle" => u = v
               /\ preFreed' => pool' = "closed" \/ \E u \in Uploader : upc'[u] = "null"
    BY <1>0, <2>0, <2>5 DEF Uploading
  <2>6. ASSUME NEW w \in Worker, Work(w), ~Count(w)
        PROVE  upc' = upc /\ pool' = pool /\ (preFreed' => preFreed)
    <3>1. CASE Take(w) \/ ReadName(w) \/ Write(w) \/ WriteRefused(w)
      BY <3>1 DEF Take, ReadName, Write, WriteRefused
    <3>2. CASE StartPath(w) \/ InitPath(w)
      BY <3>2 DEF StartPath, InitPath, MakeLevel, LevelRefused
    <3>3. CASE SetName(w) \/ MakeDir(w) \/ DirRefused(w) \/ Remove(w)
      BY <3>3 DEF SetName, MakeDir, DirRefused, Remove
    <3>. QED
      BY <2>6, <3>1, <3>2, <3>3 DEF Work
  <2>7. ASSUME NEW s \in Session, Calls(s)
        PROVE  upc' = upc /\ pool' = pool /\ preFreed' = preFreed
    BY <2>7 DEF Calls, SpeechStart, SpeechProcess, SpeechStop
  <2>8. CASE Tick \/ UNCHANGED vars
    BY <1>2, <2>5, <2>8 DEF Tick, vars
  <2>. QED
    BY <1>2, <2>1, <2>2, <2>3, <2>4, <2>5, <2>6, <2>7, <2>8 DEF Next, Calls
<1>. QED
  BY <1>4, <1>5
-----------------------------------------------------------------------------
(* One tree.                                                               *)

\* While a worker runs there is no upload, and gPreName is not freed.
LEMMA WorkerAlone ==
    ASSUME TypeOK, Line, OneAtATime, habit.patient, NEW w \in Worker, wpc[w] # "idle"
    PROVE  /\ ~Uploading /\ preFreed = FALSE /\ PreName = {gPreName}
           /\ \A u \in Uploader : upc[u] = "idle"
           /\ \A v \in Worker : v = w
           /\ \A s \in Session : Busy(s) => s = wtask[w].s
<1>1. ~Uploading /\ pool = "open" /\ \A s \in Session : Busy(s) => s = wtask[w].s
  BY WorkerBusy DEF OneAtATime
<1>2. \A u \in Uploader : upc[u] = "idle"
  BY <1>1 DEF Uploading
<1>3. preFreed = FALSE
  BY <1>1, <1>2 DEF OneAtATime, TypeOK
<1>. QED
  BY <1>1, <1>2, <1>3 DEF PreName, Worker

\* While a thread uploads, it is the only one, and nothing else is going on.
LEMMA UploaderAlone ==
    ASSUME TypeOK, Line, OneAtATime, habit.patient, NEW u \in Uploader, upc[u] # "idle"
    PROVE  /\ Uploading /\ \A v \in Uploader : v # u => upc[v] = "idle"
           /\ \A w \in Worker : wpc[w] = "idle"
           /\ \A s \in Session : ~Busy(s)
<1>1. Uploading /\ (\A s \in Session : ~Busy(s)) /\ \A v \in Uploader : v # u => upc[v] = "idle"
  BY DEF Uploading, OneAtATime
<1>. QED
  BY <1>1, WorkerBusy

LEMMA OneTreeWork ==
    ASSUME TypeOK, Line, OneAtATime, OneTree, habit.patient, NEW w \in Worker, Work(w)
    PROVE  TreeInUse' /\ TreeRemoved' /\ TreeRead'
<1>. USE DEF client, work, paths, names, disk, upload, history
<1>0. TreeInUse /\ TreeRemoved /\ TreeRead
  BY DEF OneTree
<1>1. CASE Take(w)
  <2>1. Head(queue) \in Task
    BY <1>1 DEF Take, TypeOK
  <2>2. FirstStep(Head(queue)) \in {"path", "name", "count", "erase"}
    BY <2>1 DEF FirstStep, Task, Op
  <2>. QED
    BY <1>0, <1>1, <2>2 DEF Take, TypeOK, TreeInUse, TreeRemoved, TreeRead, Uploading, Worker
<1>2. CASE wpc[w] # "idle" /\ ~Count(w)
  <2>1. /\ ~Uploading /\ preFreed = FALSE /\ PreName = {gPreName}
        /\ \A u \in Uploader : upc[u] = "idle"
        /\ \A v \in Worker : v = w
    BY <1>2, WorkerAlone
  <2>2. /\ \A d \in dirs : d[1] = gpDefaultPath
        /\ gPreName \in {NoPath, gpDefaultPath}
        /\ gpDefaultPath \in {NoPath, gnDefaultPathIndex}
    BY <1>0, <2>1 DEF TreeInUse
  <2>3. upc' = upc
    BY <1>2 DEF Work, Take, StartPath, InitPath, MakeLevel, LevelRefused, SetName, MakeDir,
       DirRefused, ReadName, Write, WriteRefused, Remove
  <2>4. TreeRemoved'
    BY <2>1, <2>3 DEF TreeRemoved, Switched, Unnamed, Emptied
  <2>5. CASE StartPath(w)
    <3>1. \A d \in dirs : gpDefaultPath # NoPath
      BY <2>2, SpeechAssumption DEF TypeOK, Dir
    <3>. QED
      BY <2>1, <2>2, <2>4, <2>5, <3>1 DEF StartPath, Goto, TypeOK, TreeInUse, TreeRead
  <2>6. ASSUME NEW at, NEW l, NEW next,
               <<at, next>> \in {<<"mkbase", "mkpig">>, <<"mkpig", "mkdev">>, <<"mkdev", "setname">>},
               MakeLevel(w, at, l, next) \/ LevelRefused(w, at, l)
        PROVE  TreeInUse' /\ TreeRead'
    BY <1>0, <2>1, <2>2, <2>6 DEF MakeLevel, LevelRefused, Goto, TypeOK, TreeInUse, TreeRead
  <2>7. CASE InitPath(w)
    BY <2>4, <2>6, <2>7 DEF InitPath
  <2>8. CASE SetName(w)
    BY <1>0, <2>1, <2>2, <2>4, <2>8 DEF SetName, Goto, TypeOK, TreeInUse, TreeRead
  <2>9. CASE MakeDir(w)
    <3>1. \A d \in dirs' : d \in dirs \/ (d[1] = gPreName /\ gPreName # NoPath)
      BY <2>1, <2>9 DEF MakeDir
    <3>. QED
      BY <1>0, <2>1, <2>2, <2>4, <2>9, <3>1 DEF MakeDir, Return, TypeOK, TreeInUse, TreeRead
  <2>10. CASE DirRefused(w) \/ Write(w) \/ WriteRefused(w)
    BY <1>0, <2>1, <2>2, <2>4, <2>10
       DEF DirRefused, Write, WriteRefused, Return, TypeOK, TreeInUse, TreeRead
  <2>11. CASE ReadName(w)
    BY <1>0, <2>1, <2>2, <2>4, <2>11 DEF ReadName, TypeOK, TreeInUse, TreeRead
  <2>12. CASE Remove(w)
    BY <1>0, <2>1, <2>2, <2>4, <2>12 DEF Remove, Return, TypeOK, TreeInUse, TreeRead
  <2>. QED
    BY <1>2, <2>5, <2>7, <2>8, <2>9, <2>10, <2>11, <2>12 DEF Work, Take
<1>3. CASE Count(w)
  <2>1. /\ ~Uploading /\ \A u \in Uploader : upc[u] = "idle"
        /\ \A v \in Worker : v = w
    BY <1>3, WorkerAlone DEF Count
  <2>2. /\ \A d \in dirs : d[1] = gpDefaultPath
        /\ gPreName \in {NoPath, gpDefaultPath}
        /\ gpDefaultPath \in {NoPath, gnDefaultPathIndex}
    BY <1>0, <2>1 DEF TreeInUse
  <2>3. /\ UNCHANGED <<dirs, gpDefaultPath, gPreName, gnDefaultPathIndex>>
        /\ \A v \in Worker : wpc'[v] = "idle"
    BY <1>3, <2>1 DEF Count, Return, TypeOK
  <2>4. \/ upc' = upc
        \/ \E u \in Uploader : /\ upc' = [upc EXCEPT ![u] = "rotate"]
                               /\ upath' = [upath EXCEPT ![u] = gpDefaultPath]
    BY <1>3 DEF Count, StartUpload
  <2>5. TreeInUse' /\ TreeRead'
    BY <2>2, <2>3 DEF TreeInUse, TreeRead
  <2>6. TreeRemoved'
    BY <2>1, <2>2, <2>3, <2>4 DEF TreeRemoved, TypeOK, Switched, Unnamed, Emptied
  <2>. QED
    BY <2>5, <2>6
<1>. QED
  BY <1>1, <1>2, <1>3 DEF Work, StartPath, InitPath, MakeLevel, LevelRefused, SetName, MakeDir,
     DirRefused, ReadName, Write, WriteRefused, Remove

LEMMA OneTreeUpload ==
    ASSUME TypeOK, Line, OneAtATime, OneTree, habit.patient, NEW u \in Uploader, Upload(u)
    PROVE  TreeInUse' /\ TreeRemoved' /\ TreeRead'
<1>. USE DEF UploadGoto, UnchangedByUpload, work, paths, names, disk
<1>0. TreeInUse /\ TreeRemoved /\ TreeRead
  BY DEF OneTree
<1>1. upc[u] # "idle" /\ wpc' = wpc /\ \A v \in Uploader : v # u => upc'[v] = upc[v]
  BY UploadAlone
<1>2. /\ \A v \in Uploader : v # u => upc[v] = "idle" /\ upc'[v] = "idle"
      /\ \A w \in Worker : wpc'[w] = "idle"
  BY <1>1, UploaderAlone
<1>3. TreeRead'
  BY <1>2 DEF TreeRead
<1>4. ASSUME upc'[u] # "idle",
             \A d \in dirs' : d[1] = upath'[u],
             upc'[u] \in Switched => gpDefaultPath' = gnDefaultPathIndex',
             upc'[u] \in Unnamed => gPreName' = NoPath,
             upc'[u] = "clear" => dirs' \subseteq todo'[u],
             upc'[u] \in Emptied => dirs' = {}
      PROVE  TreeInUse' /\ TreeRemoved'
  BY <1>2, <1>4 DEF TreeInUse, TreeRemoved, Uploading, Switched, Unnamed, Emptied
<1>5. ASSUME upc'[u] = "idle", dirs' = {}, gPreName' = NoPath,
             gpDefaultPath' = gnDefaultPathIndex'
      PROVE  TreeInUse' /\ TreeRemoved'
  BY <1>2, <1>5 DEF TreeInUse, TreeRemoved, Switched, Unnamed, Emptied
<1>6. /\ \A d \in dirs : d[1] = upath[u]
      /\ upc[u] \in Switched => gpDefaultPath = gnDefaultPathIndex
      /\ upc[u] \in Unnamed => gPreName = NoPath
      /\ upc[u] = "clear" => dirs \subseteq todo[u]
      /\ upc[u] \in Emptied => dirs = {}
      /\ upc \in [Uploader -> UploadPC] /\ todo \in [Uploader -> SUBSET Dir]
  BY <1>0, <1>1 DEF TreeRemoved, TypeOK
<1>. USE DEF Switched, Unnamed, Emptied
<1>7. CASE Rotate(u) \/ Switch(u)
  BY <1>3, <1>4, <1>6, <1>7 DEF Rotate, Switch
<1>8. CASE FreeName(u) \/ ClearName(u)
  BY <1>3, <1>4, <1>6, <1>8 DEF FreeName, ClearName
<1>9. CASE List(u)
  BY <1>3, <1>4, <1>6, <1>9 DEF List
<1>10. CASE Clear(u)
  BY <1>3, <1>4, <1>6, <1>10 DEF Clear
<1>11. CASE Cleared(u)
  BY <1>3, <1>4, <1>6, <1>11 DEF Cleared
<1>12. CASE RemoveTree(u)
  <2>1. /\ upc[u] \in Emptied /\ dirs = {}
        /\ UNCHANGED <<gpDefaultPath, gnDefaultPathIndex, gPreName, dirs>>
        /\ upc'[u] \in Emptied \union {"idle"}
    BY <1>6, <1>12 DEF RemoveTree, RemoveLevel
  <2>. QED
    BY <1>3, <1>4, <1>5, <1>6, <2>1
<1>. QED
  BY <1>7, <1>8, <1>9, <1>10, <1>11, <1>12 DEF Upload

LEMMA OneTreeStep ==
    ASSUME TypeOK, Line, OneAtATime, OneTree, [Next]_vars
    PROVE  OneTree'
<1>. SUFFICES ASSUME habit.patient PROVE TreeInUse' /\ TreeRemoved' /\ TreeRead'
  BY HabitStep DEF OneTree
<1>. USE DEF client, work, paths, names, disk, upload, history
<1>1. ASSUME UNCHANGED <<paths, gPreName, dirs, upload, work>>
      PROVE  TreeInUse' /\ TreeRemoved' /\ TreeRead'
  BY <1>1 DEF OneTree, TreeInUse, TreeRemoved, TreeRead, Uploading
<1>2. ASSUME NEW s \in Session, Calls(s)
      PROVE  TreeInUse' /\ TreeRemoved' /\ TreeRead'
  BY <1>1, <1>2 DEF Calls, SpeechStart, SpeechProcess, SpeechStop
<1>3. CASE Tick \/ UnInit \/ Closed \/ UNCHANGED vars
  BY <1>1, <1>3 DEF Tick, UnInit, Closed, vars
<1>. QED
  BY <1>2, <1>3, OneTreeWork, OneTreeUpload DEF Next, Calls
-----------------------------------------------------------------------------
(* Nothing is left behind.                                                 *)

\* A session with data that is not counted yet is being served.
LEMMA DataBusy ==
    ASSUME TypeOK, Line, Ended, Written, StopInLine,
           NEW s \in Session, fate[s] = "pending", session[s] # "new"
    PROVE  Busy(s)
BY DEF Ended, StopInLine, Busy, TypeOK

LEMMA HeldFacts ==
    ASSUME TypeOK, Written, NEW d \in Dir, NEW s \in Session, Holds(d, s)
    PROVE  /\ d \in dirs /\ d = <<d[1], id[s]>> /\ d[1] \in PathIdx
           /\ session[s] # "new"
<1>1. file[d] # <<>> /\ d \in dirs
  BY DEF Holds, Written
<1>2. id[s] = d[2] /\ session[s] # "new"
  BY DEF Holds, Written, Behind
<1>. QED
  BY <1>1, <1>2 DEF Dir

\* What a step adds to a directory is data of the worker's session.
LEMMA HeldStep ==
    ASSUME TypeOK, Line, [Next]_vars, NEW d \in Dir, NEW s \in Session, Holds(d, s)'
    PROVE  \/ Holds(d, s)
           \/ \E w \in Worker : /\ wpc[w] = "write" /\ wtask[w].s = s
                                /\ d = <<wpath[w], id[s]>>
                                /\ Leaves(w)
<1>1. CASE Keeps(d)
  BY <1>1 DEF Keeps, Holds
<1>2. ASSUME NEW w \in Worker, NEW e \in Dir, NEW c \in Chunk, Writes(w, e, c)
      PROVE  \/ Holds(d, s)
             \/ /\ wpc[w] = "write" /\ wtask[w].s = s
                /\ d = <<wpath[w], id[s]>> /\ Leaves(w)
  <2>1. file \in [Dir -> Seq(Chunk)]
    BY DEF TypeOK
  <2>2. CASE d # e
    BY <1>2, <2>1, <2>2 DEF Writes, Holds
  <2>3. CASE d = e
    <3>1. PICK i \in 1..Len(file'[d]) : file'[d][i].s = s
      BY DEF Holds
    <3>2. file'[d] = Append(file[d], c) /\ file[d] \in Seq(Chunk)
      BY <1>2, <2>1, <2>3 DEF Writes
    <3>3. (i \in 1..Len(file[d]) /\ file[d][i].s = s) \/ c.s = s
      BY <3>1, <3>2
    <3>4. wtask[w].s = c.s /\ wpc[w] = "write" /\ Leaves(w) /\ wpath[w] = d[1] /\ id[c.s] = d[2]
      BY <1>2, <2>3 DEF Writes
    <3>. QED
      BY <3>3, <3>4 DEF Holds, Dir
  <2>. QED
    BY <2>2, <2>3
<1>. QED
  BY <1>1, <1>2, FileKinds

LEMMA NameKinds ==
    ASSUME [Next]_vars
    PROVE  \/ gPreName' = gPreName \/ \E w \in Worker : SetName(w)
           \/ \E u \in Uploader : ClearName(u)
<1>. USE DEF client, work, paths, names, disk, upload, history
<1>1. ASSUME NEW w \in Worker, Work(w), ~SetName(w) PROVE gPreName' = gPreName
  BY <1>1 DEF Work, Take, StartPath, InitPath, MakeLevel, LevelRefused, MakeDir,
     DirRefused, ReadName, Write, WriteRefused, Remove, Count
<1>2. ASSUME NEW u \in Uploader, Upload(u), ~ClearName(u) PROVE gPreName' = gPreName
  BY <1>2 DEF Upload, Rotate, Switch, FreeName, List, Clear, Cleared, RemoveTree, RemoveLevel
<1>3. ASSUME NEW s \in Session, Calls(s) PROVE gPreName' = gPreName
  BY <1>3 DEF Calls, SpeechStart, SpeechProcess, SpeechStop
<1>4. CASE Tick \/ UnInit \/ Closed \/ UNCHANGED vars
  BY <1>4 DEF Tick, UnInit, Closed, vars
<1>. QED
  BY <1>1, <1>2, <1>3, <1>4 DEF Next, Calls

LEMMA FateKinds ==
    ASSUME [Next]_vars
    PROVE  fate' = fate \/ \E w \in Worker : Remove(w) \/ Count(w)
<1>. USE DEF client, work, paths, names, disk, upload, history
<1>1. ASSUME NEW w \in Worker, Work(w), ~Remove(w), ~Count(w) PROVE fate' = fate
  BY <1>1 DEF Work, Take, StartPath, InitPath, MakeLevel, LevelRefused, SetName, MakeDir,
     DirRefused, ReadName, Write, WriteRefused
<1>2. ASSUME NEW u \in Uploader, Upload(u) PROVE fate' = fate
  BY <1>2 DEF Upload, Rotate, Switch, FreeName, ClearName, List, Clear, Cleared, RemoveTree,
     RemoveLevel, UnchangedByUpload
<1>3. ASSUME NEW s \in Session, Calls(s) PROVE fate' = fate
  BY <1>3 DEF Calls, SpeechStart, SpeechProcess, SpeechStop
<1>4. CASE Tick \/ UnInit \/ Closed \/ UNCHANGED vars
  BY <1>4 DEF Tick, UnInit, Closed, vars
<1>. QED
  BY <1>1, <1>2, <1>3, <1>4 DEF Next, Calls

LEMMA LeftStep ==
    ASSUME TypeOK, Line, Ended, Written, StopInLine, OneAtATime, OneTree, Left, [Next]_vars
    PROVE  Left'
<1>. SUFFICES ASSUME habit.patient, NEW s \in Session, NEW d \in Dir, Holds(d, s)'
              PROVE  /\ fate'[s] # "interrupted"
                     /\ fate'[s] = "uploaded" => Uploading'
                     /\ fate'[s] = "pending" => d = <<gPreName', id'[s]>>
  BY HabitStep DEF Left
<1>. USE DEF client, work, paths, names, disk, upload, history
<1>0. TreeInUse /\ TreeRemoved /\ TreeRead
  BY DEF OneTree
\* The data was there, or the worker has written it for a session not counted.
<1>1. \/ Holds(d, s)
      \/ \E w \in Worker : /\ wpc[w] = "write" /\ wtask[w].s = s
                           /\ d = <<wpath[w], id[s]>> /\ Leaves(w)
  BY HeldStep
<1>2. ASSUME NEW w \in Worker, wpc[w] # "idle"
      PROVE  /\ wtask[w].s \in Session /\ fate[wtask[w].s] = "pending"
             /\ session[wtask[w].s] # "new" /\ ~Uploading
             /\ \A v \in Worker : v = w
  <2>1. Due(wtask[w]) /\ wtask[w].s \in Session
    BY <1>2, WorkerTask DEF Line
  <2>. QED
    BY <1>2, <2>1, WorkerAlone DEF Due, Ended
<1>3. ASSUME NEW w \in Worker, wpc[w] = "write", wtask[w].s = s, d = <<wpath[w], id[s]>>,
             Leaves(w)
      PROVE  /\ fate[s] = "pending" /\ fate' = fate /\ d = <<gPreName, id[s]>>
             /\ session[s] # "new" /\ gPreName' = gPreName
  <2>1. wpath[w] = gPreName /\ fate[s] = "pending" /\ session[s] # "new"
    BY <1>0, <1>2, <1>3 DEF TreeRead
  <2>2. fate' = fate
    BY <1>3 DEF Leaves, Line, Suits
  <2>3. gPreName' = gPreName
    <3>1. ~\E v \in Worker : SetName(v)
      BY <1>2, <1>3 DEF SetName
    <3>2. ~\E u \in Uploader : ClearName(u)
      BY <1>2, <1>3 DEF ClearName, UploadGoto, Uploading
    <3>. QED
      BY <3>1, <3>2, NameKinds
  <2>. QED
    BY <1>3, <2>1, <2>2, <2>3
<1>4. ASSUME Holds(d, s)
      PROVE  /\ d \in dirs /\ d = <<d[1], id[s]>> /\ d[1] \in PathIdx /\ session[s] # "new"
             /\ fate[s] # "interrupted" /\ (fate[s] = "uploaded" => Uploading)
             /\ fate[s] = "pending" => d = <<gPreName, id[s]>>
  BY <1>4, HeldFacts DEF Left
<1>5. session[s] # "new" => id'[s] = id[s]
  <2>1. ASSUME NEW r \in Session, Calls(r), session[s] # "new" PROVE id'[s] = id[s]
    BY <2>1 DEF Calls, SpeechStart, SpeechProcess, SpeechStop, TypeOK
  <2>2. CASE Stays \/ \E w \in Worker : Take(w) \/ Leaves(w)
    BY <2>2 DEF Stays, Take, Leaves
  <2>. QED
    BY <2>1, <2>2, StepKinds
\* The worker removes all the data of the session.
<1>6. ASSUME NEW w \in Worker, Remove(w)
      PROVE  s # wtask[w].s /\ Holds(d, s) /\ fate'[s] = fate[s] /\ upc' = upc /\ gPreName' = gPreName
  <2>1. wpc[w] = "remove" /\ \A v \in Worker : wpc[v] # "write"
    BY <1>2, <1>6 DEF Remove
  <2>2. Holds(d, s)
    BY <1>1, <2>1
  <2>3. s # wtask[w].s
    <3>. SUFFICES ASSUME s = wtask[w].s PROVE FALSE
      OBVIOUS
    <3>1. d = <<wpath[w], id[wtask[w].s]>> /\ d \in dirs
      BY <1>0, <1>2, <1>4, <2>1, <2>2 DEF TreeRead
    <3>2. file'[d] = <<>>
      BY <1>6, <3>1 DEF Remove, TypeOK
    <3>. QED
      BY <3>2 DEF Holds
  <2>. QED
    BY <1>2, <1>6, <2>1, <2>2, <2>3 DEF Remove, TypeOK
\* A tree is uploaded, unless there is none.
<1>7. ASSUME NEW w \in Worker, Count(w)
      PROVE  /\ Holds(d, s) /\ fate'[s] # "interrupted" /\ (fate'[s] = "uploaded" => Uploading')
             /\ (fate'[s] = "pending" => fate[s] = "pending") /\ gPreName' = gPreName
  <2>1. wpc[w] = "count" /\ \A v \in Worker : wpc[v] # "write"
    BY <1>2, <1>7 DEF Count
  <2>2. Holds(d, s) /\ ~Uploading
    BY <1>1, <1>2, <2>1
  <2>3. gpDefaultPath # NoPath
    BY <1>0, <1>4, <2>2, SpeechAssumption DEF TreeInUse
  <2>4. CASE gPersistentCount = MAX_PERSISTENT_COUNT - 1
    <3>1. PICK u \in Uploader : upc' = [upc EXCEPT ![u] = "rotate"]
      BY <1>7, <2>3, <2>4 DEF Count, StartUpload
    <3>2. Uploading'
      BY <3>1 DEF Uploading, TypeOK
    <3>. QED
      BY <1>2, <1>4, <1>7, <2>1, <2>2, <2>4, <3>2 DEF Count, TypeOK
  <2>5. CASE gPersistentCount # MAX_PERSISTENT_COUNT - 1
    BY <1>2, <1>4, <1>7, <2>1, <2>2, <2>5 DEF Count, TypeOK
  <2>. QED
    BY <2>4, <2>5
\* An upload that ends has emptied the tree.
<1>8. ASSUME Uploading, ~Uploading', Holds(d, s) PROVE FALSE
  <2>1. PICK u \in Uploader : upc[u] # "idle" /\ upc'[u] = "idle"
    BY <1>8 DEF Uploading
  <2>2. \A w \in Worker : wpc[w] = "idle"
    BY <1>2, <1>8
  <2>3. PICK v \in Uploader : Upload(v)
    BY <2>1, <2>2, UploadKinds DEF Count
  <2>4. u = v
    BY <2>1, <2>3, UploadAlone
  <2>5. upc[v] \in Emptied
    BY <2>1, <2>3, <2>4 DEF Upload, Rotate, Switch, FreeName, ClearName, List, Clear, Cleared,
       RemoveTree, RemoveLevel, UploadGoto, Emptied, TypeOK
  <2>. QED
    BY <1>0, <1>4, <1>8, <2>5 DEF TreeRemoved
\* gPreName changes when the session has no data, or to the tree the data is in.
<1>9. ASSUME Holds(d, s), fate[s] = "pending" PROVE d = <<gPreName', id'[s]>>
  <2>1. CASE gPreName' = gPreName
    BY <1>4, <1>5, <1>9, <2>1
  <2>2. ASSUME NEW w \in Worker, SetName(w) PROVE d = <<gPreName', id'[s]>>
    <3>1. gPreName' = gpDefaultPath /\ ~Uploading
      BY <1>0, <1>2, <2>2 DEF SetName, TreeRead
    <3>. QED
      BY <1>0, <1>4, <1>5, <1>9, <3>1 DEF TreeInUse
  <2>3. ASSUME NEW u \in Uploader, ClearName(u) PROVE FALSE
    BY <1>4, <1>9, <2>3, DataBusy, UploaderAlone DEF ClearName, UploadGoto
  <2>. QED
    BY <2>1, <2>2, <2>3, NameKinds
<1>10. CASE \E w \in Worker : Remove(w) \/ Count(w)
  BY <1>4, <1>6, <1>7, <1>9, <1>10 DEF Uploading
<1>11. CASE fate' = fate
  BY <1>1, <1>3, <1>4, <1>5, <1>8, <1>9, <1>11
<1>. QED
  BY <1>10, <1>11, FateKinds
-----------------------------------------------------------------------------
(* What the disk refuses.                                                  *)

LEMMA RefusedKinds ==
    ASSUME TypeOK, Line, [Next]_vars
    PROVE  \/ refused' = refused
           \/ \E w \in Worker :
                 /\ wpc[w] # "idle" /\ wtask[w].op \in {"start", "process"}
                 /\ refused' = refused \union {<<wtask[w].s, wtask[w].n>>}
                 /\ wtask[w].op = "process" => WriteRefused(w) /\ Leaves(w)
<1>. USE DEF client, work, paths, names, disk, upload, history
<1>1. ASSUME NEW w \in Worker, LevelRefused(w, "mkbase", 1) \/ LevelRefused(w, "mkpig", 2)
                                   \/ LevelRefused(w, "mkdev", 3) \/ DirRefused(w)
      PROVE  /\ wpc[w] # "idle" /\ wtask[w].op = "start"
             /\ refused' = refused \union {<<wtask[w].s, wtask[w].n>>}
  BY <1>1 DEF LevelRefused, DirRefused, Refuse, Line, Suits
<1>2. ASSUME NEW w \in Worker, WriteRefused(w)
      PROVE  /\ wpc[w] # "idle" /\ wtask[w].op = "process" /\ Leaves(w)
             /\ refused' = refused \union {<<wtask[w].s, wtask[w].n>>}
  BY <1>2 DEF WriteRefused, Refuse, Line, Suits, Leaves
<1>3. ASSUME NEW w \in Worker, Work(w), refused' # refused
      PROVE  WriteRefused(w) \/ LevelRefused(w, "mkbase", 1) \/ LevelRefused(w, "mkpig", 2)
                \/ LevelRefused(w, "mkdev", 3) \/ DirRefused(w)
  BY <1>3 DEF Work, Take, StartPath, InitPath, MakeLevel, SetName, MakeDir, ReadName, Write,
     Remove, Count
<1>4. ASSUME NEW u \in Uploader, Upload(u) PROVE refused' = refused
  BY <1>4 DEF Upload, Rotate, Switch, FreeName, ClearName, List, Clear, Cleared, RemoveTree,
     RemoveLevel
<1>5. ASSUME NEW s \in Session, Calls(s) PROVE refused' = refused
  BY <1>5 DEF Calls, SpeechStart, SpeechProcess, SpeechStop
<1>6. CASE Tick \/ UnInit \/ Closed \/ UNCHANGED vars
  BY <1>6 DEF Tick, UnInit, Closed, vars
<1>. QED
  BY <1>1, <1>2, <1>3, <1>4, <1>5, <1>6 DEF Next, Calls

LEMMA RefusedStep ==
    ASSUME TypeOK, Line, Ended, RefusedBehind, [Next]_vars
    PROVE  RefusedBehind'
<1>. SUFFICES ASSUME NEW s \in Session, NEW n \in 1..MaxChunk, <<s, n>> \in refused'
              PROVE  Behind(s, n)'
  BY DEF RefusedBehind
<1>1. CASE <<s, n>> \in refused
  <2>1. Behind(s, n) /\ n \in 0..MaxChunk
    BY <1>1, SpeechAssumption DEF RefusedBehind
  <2>2. StillBehind(s, n)
    BY <2>1, BehindStep
  <2>. QED
    BY <2>2 DEF Behind, StillBehind
<1>2. CASE <<s, n>> \notin refused
  <2>1. PICK w \in Worker : /\ wpc[w] # "idle" /\ wtask[w].op \in {"start", "process"}
                            /\ refused' = refused \union {<<wtask[w].s, wtask[w].n>>}
                            /\ wtask[w].op = "process" => Leaves(w)
    BY <1>2, RefusedKinds
  <2>2. wtask[w].s = s /\ wtask[w].n = n
    BY <1>2, <2>1
  <2>3. Proper(wtask[w])
    BY <2>1 DEF Line
  <2>4. Leaves(w)
    BY <2>1, <2>2, <2>3, SpeechAssumption DEF Proper
  <2>5. StillBehind(s, n)
    BY <2>2, <2>4, LeavesBehind
  <2>. QED
    BY <2>5 DEF Behind, StillBehind
<1>. QED
  BY <1>1, <1>2

\* The level l of a tree, which has the one below, is there after mkdir.
LEMMA LevelMade ==
    ASSUME TypeOK, NEW p \in PathIdx, NEW l \in 1..3, level[p] >= l - 1
    PROVE  LET up == [level EXCEPT ![p] = IF @ < l THEN l ELSE @]
           IN  up[p] \in 0..3 /\ up[p] >= l
BY DEF TypeOK

LEMMA MadeStep ==
    ASSUME TypeOK, Line, OneAtATime, OneTree, Made, [Next]_vars
    PROVE  Made'
<1>. USE DEF client, work, paths, names, disk, upload, history
<1>. SUFFICES ASSUME habit.patient, NEW w \in Worker
              PROVE  /\ wpc'[w] = "mkpig" => level'[gpDefaultPath'] >= 1
                     /\ wpc'[w] = "mkdev" => level'[gpDefaultPath'] >= 2
                     /\ wpc'[w] = "setname" => level'[gpDefaultPath'] = 3
                     /\ wpc'[w] = "mkdir" /\ <<wtask'[w].s, 0>> \notin refused' =>
                           gPreName' \in PathIdx /\ level'[gPreName'] = 3
  BY HabitStep DEF Made
<1>0. /\ wpc[w] = "mkpig" => level[gpDefaultPath] >= 1
      /\ wpc[w] = "mkdev" => level[gpDefaultPath] >= 2
      /\ wpc[w] = "setname" => level[gpDefaultPath] = 3
      /\ wpc[w] = "mkdir" /\ <<wtask[w].s, 0>> \notin refused =>
            gPreName \in PathIdx /\ level[gPreName] = 3
      /\ wpc \in [Worker -> WorkerPC] /\ \A v \in Worker : v = w
      /\ gnDefaultPathIndex \in PathIdx /\ level \in [PathIdx -> 0..3]
  BY DEF Made, TypeOK, Worker
<1>1. wpc[w] \in {"mkbase", "mkpig", "mkdev", "setname"} =>
          gpDefaultPath = gnDefaultPathIndex /\ gpDefaultPath \in PathIdx
             /\ level[gpDefaultPath] \in 0..3
  BY <1>0 DEF OneTree, TreeRead
<1>2. wpc[w] = "setname" => wpath[w] = gpDefaultPath
  BY DEF OneTree, TreeRead
<1>3. ASSUME wpc'[w] \notin {"mkpig", "mkdev", "setname", "mkdir"}
      PROVE  /\ wpc'[w] = "mkpig" => level'[gpDefaultPath'] >= 1
             /\ wpc'[w] = "mkdev" => level'[gpDefaultPath'] >= 2
             /\ wpc'[w] = "setname" => level'[gpDefaultPath'] = 3
             /\ wpc'[w] = "mkdir" /\ <<wtask'[w].s, 0>> \notin refused' =>
                   gPreName' \in PathIdx /\ level'[gPreName'] = 3
  BY <1>3
<1>4. CASE Take(w)
  <2>1. Head(queue) \in Task
    BY <1>4 DEF Take, TypeOK
  <2>2. FirstStep(Head(queue)) \in {"path", "name", "count", "erase"}
    BY <2>1 DEF FirstStep, Task, Op
  <2>. QED
    BY <1>0, <1>3, <1>4, <2>2 DEF Take
<1>5. CASE StartPath(w) \/ MakeDir(w) \/ DirRefused(w) \/ ReadName(w) \/ Write(w)
              \/ WriteRefused(w) \/ Remove(w) \/ Count(w)
  <2>1. wpc'[w] \in {"mkbase", "idle", "write", "remove"}
    BY <1>0, <1>5 DEF StartPath, Goto, MakeDir, DirRefused, ReadName, Write, WriteRefused,
       Remove, Count, Return
  <2>. QED
    BY <1>3, <2>1
<1>6. ASSUME NEW at, NEW l \in 1..3, NEW next,
             <<at, l, next>> \in {<<"mkbase", 1, "mkpig">>, <<"mkpig", 2, "mkdev">>,
                                  <<"mkdev", 3, "setname">>},
             MakeLevel(w, at, l, next)
      PROVE  /\ wpc'[w] = "mkpig" => level'[gpDefaultPath'] >= 1
             /\ wpc'[w] = "mkdev" => level'[gpDefaultPath'] >= 2
             /\ wpc'[w] = "setname" => level'[gpDefaultPath'] = 3
             /\ wpc'[w] # "mkdir"
  <2>1. wpc[w] = at /\ at \in {"mkbase", "mkpig", "mkdev"} /\ gpDefaultPath' = gpDefaultPath
    BY <1>6 DEF MakeLevel
  <2>2. level[gpDefaultPath] >= l - 1 /\ gpDefaultPath \in PathIdx
    BY <1>0, <1>1, <1>6, <2>1
  <2>3. wpc'[w] = next /\ level' = [level EXCEPT ![gpDefaultPath] = IF @ < l THEN l ELSE @]
    BY <1>0, <1>6, <2>2 DEF MakeLevel
  <2>4. level'[gpDefaultPath] \in 0..3 /\ level'[gpDefaultPath] >= l
    BY <2>2, <2>3, LevelMade
  <2>. QED
    BY <1>6, <2>1, <2>3, <2>4
<1>7. ASSUME NEW at, NEW l, at \in {"mkbase", "mkpig", "mkdev"}, LevelRefused(w, at, l)
      PROVE  wpc'[w] = "mkdir" /\ <<wtask'[w].s, 0>> \in refused'
  <2>1. wpc[w] # "idle" /\ wtask[w].op = "start"
    BY <1>7 DEF LevelRefused, Line, Suits
  <2>2. wtask[w].n = 0
    BY <2>1, WorkerTask, SpeechAssumption DEF Line, Proper
  <2>. QED
    BY <1>0, <1>7, <2>2 DEF LevelRefused, Goto, Refuse
<1>8. CASE InitPath(w)
  BY <1>6, <1>7, <1>8 DEF InitPath
<1>9. CASE SetName(w)
  BY <1>0, <1>1, <1>2, <1>9 DEF SetName, Goto
<1>10. ASSUME NEW u \in Uploader, Upload(u) PROVE wpc'[w] = "idle"
  BY <1>10, UploadAlone, UploaderAlone
<1>11. ASSUME UNCHANGED <<work, gpDefaultPath, gPreName, level, refused>>
       PROVE  /\ wpc'[w] = "mkpig" => level'[gpDefaultPath'] >= 1
              /\ wpc'[w] = "mkdev" => level'[gpDefaultPath'] >= 2
              /\ wpc'[w] = "setname" => level'[gpDefaultPath'] = 3
              /\ wpc'[w] = "mkdir" /\ <<wtask'[w].s, 0>> \notin refused' =>
                    gPreName' \in PathIdx /\ level'[gPreName'] = 3
  BY <1>0, <1>11
<1>12. ASSUME NEW s \in Session, Calls(s)
       PROVE  UNCHANGED <<work, gpDefaultPath, gPreName, level, refused>>
  BY <1>12 DEF Calls, SpeechStart, SpeechProcess, SpeechStop
<1>13. CASE Tick \/ UnInit \/ Closed \/ UNCHANGED vars
  BY <1>11, <1>13 DEF Tick, UnInit, Closed, vars
<1>14. CASE \E v \in Worker : Work(v)
  BY <1>0, <1>4, <1>5, <1>8, <1>9, <1>14 DEF Work
<1>. QED
  BY <1>3, <1>10, <1>11, <1>12, <1>13, <1>14 DEF Next, Calls
-----------------------------------------------------------------------------
(* A completed session is stored.                                          *)

\* A chunk that is not in line after a step was not, or its task is done.
LEMMA ProcessLeft ==
    ASSUME TypeOK, Line, Ended, [Next]_vars,
           NEW s \in Session, NEW n \in 1..sent'[s], ~InLine(s, "process", n)'
    PROVE  \/ n \in 1..sent[s] /\ ~InLine(s, "process", n)
           \/ \E w \in Worker : /\ Leaves(w) /\ wtask[w].s = s
                                /\ wtask[w].op = "process" /\ wtask[w].n = n
<1>0. sent \in [Session -> 0..MaxChunk] /\ \A r \in Session : sent[r] \in Nat
  BY SpeechAssumption DEF TypeOK
<1>1. ASSUME NEW r \in Session, Calls(r)
      PROVE  n \in 1..sent[s] /\ ~InLine(s, "process", n)
  <2>1. PICK t \in Task : Appends(r, t)
    BY <1>1, CallAppends
  <2>2. Tasks' = Tasks \union {t} /\ t.s = r
    BY <2>1, TasksJoined DEF Appends
  <2>3. ~(r = s /\ t.op = "process" /\ t.n = n) /\ ~InLine(s, "process", n)
    BY <2>2 DEF InLine
  <2>4. CASE r = s /\ t.op = "process"
    <3>1. t.n = sent[s] + 1 /\ sent'[s] = t.n
      BY <1>0, <2>1, <2>4 DEF Appends
    <3>. QED
      BY <1>0, <2>3, <2>4, <3>1
  <2>5. CASE ~(r = s /\ t.op = "process")
    BY <1>0, <2>1, <2>3, <2>5 DEF Appends
  <2>. QED
    BY <2>4, <2>5
<1>2. ASSUME NEW w \in Worker, Leaves(w),
             ~(wtask[w].s = s /\ wtask[w].op = "process" /\ wtask[w].n = n)
      PROVE  n \in 1..sent[s] /\ ~InLine(s, "process", n)
  BY <1>2, TasksLeft DEF Leaves, InLine
<1>3. CASE Stays \/ \E w \in Worker : Take(w)
  BY <1>3, TasksKept DEF Stays, Take, client, InLine
<1>. QED
  BY <1>1, <1>2, <1>3, StepKinds

\* The files of the directories that stay change by what a worker writes.
LEMMA InFileStep ==
    ASSUME TypeOK, Line, [Next]_vars, NEW d \in Dir, d \in dirs, d \in dirs',
           NEW s \in Session, NEW n \in 1..MaxChunk,
           ~\E w \in Worker : wpc[w] = "write" /\ Leaves(w) /\ wtask[w].s = s /\ wtask[w].n = n
    PROVE  InFile(d, s, n)' <=> InFile(d, s, n)
<1>1. CASE Keeps(d)
  BY <1>1 DEF Keeps, InFile
<1>2. ASSUME NEW w \in Worker, NEW e \in Dir, NEW c \in Chunk, Writes(w, e, c)
      PROVE  InFile(d, s, n)' <=> InFile(d, s, n)
  <2>1. file \in [Dir -> Seq(Chunk)]
    BY DEF TypeOK
  <2>2. CASE d # e
    BY <1>2, <2>1, <2>2 DEF Writes, InFile
  <2>3. CASE d = e
    <3>. DEFINE x == [s |-> s, n |-> n, torn |-> FALSE]
    <3>1. c # x
      BY <1>2 DEF Writes
    <3>2. file'[d] = Append(file[d], c) /\ file[d] \in Seq(Chunk)
      BY <1>2, <2>1, <2>3 DEF Writes
    <3>. HIDE DEF x
    <3>3. (\E i \in 1..Len(file'[d]) : file'[d][i] = x) <=> \E i \in 1..Len(file[d]) : file[d][i] = x
      BY <3>1, <3>2
    <3>. QED
      BY <3>3 DEF InFile, x
  <2>. QED
    BY <2>2, <2>3
<1>. QED
  BY <1>1, <1>2, FileKinds

\* The worker that leaves with a chunk has written it whole, or the disk refused.
LEMMA ChunkDone ==
    ASSUME TypeOK, Line, Written, RefusedBehind, [Next]_vars,
           NEW s \in Session, NEW n \in 1..MaxChunk, NEW w \in Worker,
           Write(w) \/ WriteRefused(w), wtask[w].s = s, wtask[w].n = n,
           NEW d \in Dir, d = <<wpath[w], id[s]>>, d \in dirs
    PROVE  <<s, n>> \notin refused' <=> InFile(d, s, n)'
<1>. DEFINE x == [s |-> s, n |-> n, torn |-> FALSE]
<1>0. /\ wpc[w] = "write" /\ wtask[w].op = "process"
      /\ n \in Nat /\ file \in [Dir -> Seq(Chunk)] /\ file[d] \in Seq(Chunk)
  <2>1. wpc[w] = "write"
    BY DEF Write, WriteRefused
  <2>2. wtask[w].op = "process"
    BY <2>1 DEF Line, Suits
  <2>. QED
    BY <2>1, <2>2, SpeechAssumption DEF TypeOK
<1>1. ~Behind(s, n)
  BY <1>0 DEF Behind, Precedes
<1>2. <<s, n>> \notin refused
  BY <1>1 DEF RefusedBehind
<1>3. \A i \in 1..Len(file[d]) : file[d][i] # x
  BY <1>1 DEF Written
<1>4. Whole(wtask[w]) = x
  BY DEF Whole
<1>5. CASE Write(w)
  <2>1. file'[d] = Append(file[d], x) /\ refused' = refused
    BY <1>0, <1>4, <1>5 DEF Write
  <2>. HIDE DEF x
  <2>2. \E i \in 1..Len(file'[d]) : file'[d][i] = x
    <3>1. Len(file[d]) + 1 \in 1..Len(file'[d]) /\ file'[d][Len(file[d]) + 1] = x
      BY <1>0, <2>1
    <3>. QED
      BY <3>1
  <2>. QED
    BY <1>2, <2>1, <2>2 DEF InFile, x
<1>6. CASE WriteRefused(w)
  <2>. DEFINE y == [x EXCEPT !.torn = TRUE]
  <2>1. y # x
    <3>1. x.torn = FALSE /\ y.torn = TRUE
      OBVIOUS
    <3>. HIDE DEF x, y
    <3>. QED
      BY <3>1
  <2>2. file'[d] = file[d] \/ file'[d] = Append(file[d], y)
    BY <1>0, <1>4, <1>6 DEF WriteRefused
  <2>3. <<s, n>> \in refused'
    BY <1>6 DEF WriteRefused, Refuse
  <2>4. y \in Chunk
    BY DEF Chunk
  <2>. HIDE DEF x, y
  <2>5. \A i \in 1..Len(file'[d]) : file'[d][i] # x
    <3>1. CASE file'[d] = file[d]
      BY <1>3, <3>1
    <3>2. CASE file'[d] = Append(file[d], y)
      <4>1. \A i \in 1..Len(file'[d]) :
               (i \in 1..Len(file[d]) /\ file'[d][i] = file[d][i]) \/ file'[d][i] = y
        BY <1>0, <2>4, <3>2
      <4>. QED
        BY <1>3, <2>1, <4>1
    <3>. QED
      BY <2>2, <3>1, <3>2
  <2>. QED
    BY <2>3, <2>5 DEF InFile, x
<1>. QED
  BY <1>5, <1>6

\* The steps by which a task leaves.
LEMMA LeavesKinds ==
    ASSUME TypeOK, Line, [Next]_vars, NEW w \in Worker, Leaves(w)
    PROVE  /\ wtask[w].op = "start" => MakeDir(w) \/ DirRefused(w)
           /\ wtask[w].op = "process" => Write(w) \/ WriteRefused(w)
<1>. USE DEF client, work, paths, names, disk, upload, history
<1>1. /\ wpc[w] # "idle" /\ wpc'[w] = "idle" /\ Suits(wtask[w], wpc[w])
      /\ wpc \in [Worker -> WorkerPC] /\ \A v \in Worker : v = w
  BY DEF Leaves, Return, Line, TypeOK, Worker
<1>2. Work(w)
  <2>1. ASSUME NEW s \in Session, Calls(s) PROVE FALSE
    BY <1>1, <2>1 DEF Calls, SpeechStart, SpeechProcess, SpeechStop
  <2>2. ASSUME NEW u \in Uploader, Upload(u) PROVE FALSE
    BY <1>1, <2>2, UploadAlone
  <2>3. CASE Tick \/ UnInit \/ Closed \/ UNCHANGED vars
    BY <1>1, <2>3 DEF Tick, UnInit, Closed, vars
  <2>. QED
    BY <1>1, <2>1, <2>2, <2>3 DEF Next, Calls
<1>3. wpc[w] \in {"mkdir", "write", "remove", "count"}
  BY <1>1, <1>2 DEF Work, Take, StartPath, InitPath, MakeLevel, LevelRefused, SetName, ReadName,
     Goto, MakeDir, DirRefused, Write, WriteRefused, Remove, Count
<1>. QED
  BY <1>1, <1>2, <1>3 DEF Suits, Work, Take, StartPath, InitPath, MakeLevel, LevelRefused,
     SetName, ReadName, MakeDir, DirRefused, Write, WriteRefused, Remove, Count

LEMMA CompleteStep ==
    ASSUME TypeOK, Line, Ended, Written, RefusedBehind, OneAtATime, OneTree,
           habit.patient, [Next]_vars, NEW s \in Session, NEW d \in Dir, Complete(d, s),
           d \in dirs', fate[s] = "pending" => d = <<gPreName, id[s]>>
    PROVE  Complete(d, s)'
<1>. SUFFICES ASSUME NEW n \in 1..sent'[s], ~InLine(s, "process", n)'
              PROVE  <<s, n>> \notin refused' <=> InFile(d, s, n)'
  BY DEF Complete
<1>0. TypeOK' /\ d \in dirs
  BY TypeStep DEF Complete
<1>1. n \in 1..MaxChunk
  <2>1. sent' \in [Session -> 0..MaxChunk]
    BY <1>0 DEF TypeOK
  <2>2. sent'[s] \in 0..MaxChunk /\ MaxChunk \in Nat
    BY <2>1, SpeechAssumption
  <2>. QED
    BY <2>2
<1>2. ASSUME NEW w \in Worker, Leaves(w), wtask[w].s = s, wtask[w].op = "process", wtask[w].n = n
      PROVE  <<s, n>> \notin refused' <=> InFile(d, s, n)'
  <2>1. Write(w) \/ WriteRefused(w)
    BY <1>2, LeavesKinds
  <2>2. fate[s] = "pending"
    BY <1>2 DEF Leaves, Line, Due, Ended
  <2>3. wpath[w] = gPreName
    BY <2>1 DEF Write, WriteRefused, OneTree, TreeRead
  <2>. QED
    BY <1>0, <1>1, <1>2, <2>1, <2>2, <2>3, ChunkDone
<1>3. CASE /\ n \in 1..sent[s] /\ ~InLine(s, "process", n)
           /\ ~\E w \in Worker : /\ Leaves(w) /\ wtask[w].s = s
                                 /\ wtask[w].op = "process" /\ wtask[w].n = n
  <2>1. <<s, n>> \notin refused <=> InFile(d, s, n)
    BY <1>3 DEF Complete
  <2>2. InFile(d, s, n)' <=> InFile(d, s, n)
    <3>1. ~\E w \in Worker : wpc[w] = "write" /\ Leaves(w) /\ wtask[w].s = s /\ wtask[w].n = n
      BY <1>3 DEF Line, Suits
    <3>. QED
      BY <1>0, <1>1, <3>1, InFileStep
  <2>3. <<s, n>> \in refused' <=> <<s, n>> \in refused
    <3>1. ASSUME NEW w \in Worker, wpc[w] # "idle", wtask[w].op \in {"start", "process"},
                 refused' = refused \union {<<wtask[w].s, wtask[w].n>>},
                 wtask[w].op = "process" => Leaves(w)
          PROVE  <<s, n>> # <<wtask[w].s, wtask[w].n>>
      <4>1. Proper(wtask[w])
        BY <3>1 DEF Line
      <4>. QED
        BY <1>1, <1>3, <3>1, <4>1, SpeechAssumption DEF Proper
    <3>. QED
      BY <3>1, RefusedKinds
  <2>. QED
    BY <2>1, <2>2, <2>3
<1>. QED
  BY <1>2, <1>3, ProcessLeft

\* The steps that remove a directory.
LEMMA DirKinds ==
    ASSUME TypeOK, [Next]_vars, NEW d \in dirs, d \notin dirs'
    PROVE  \/ \E w \in Worker : Remove(w) /\ d = <<wpath[w], id[wtask[w].s]>>
           \/ \E u \in Uploader : Clear(u)
<1>. USE DEF client, work, paths, names, disk, upload, history
<1>1. ASSUME NEW w \in Worker, Work(w) PROVE Remove(w) /\ d = <<wpath[w], id[wtask[w].s]>>
  BY <1>1 DEF Work, Take, StartPath, InitPath, MakeLevel, LevelRefused, SetName, MakeDir,
     DirRefused, ReadName, Write, WriteRefused, Remove, Count
<1>2. ASSUME NEW u \in Uploader, Upload(u) PROVE Clear(u)
  BY <1>2 DEF Upload, Rotate, Switch, FreeName, ClearName, List, Cleared, RemoveTree, RemoveLevel
<1>3. ASSUME NEW s \in Session, Calls(s) PROVE FALSE
  BY <1>3 DEF Calls, SpeechStart, SpeechProcess, SpeechStop
<1>4. CASE Tick \/ UnInit \/ Closed \/ UNCHANGED vars
  BY <1>4 DEF Tick, UnInit, Closed, vars
<1>. QED
  BY <1>1, <1>2, <1>3, <1>4 DEF Next, Calls

LEMMA StoredStep ==
    ASSUME TypeOK, Line, Ended, Written, RefusedBehind, StopInLine, StartFirst, OneAtATime,
           OneTree, DistinctIds, Made, Stored, [Next]_vars
    PROVE  Stored'
<1>. SUFFICES ASSUME habit.patient, habit.distinct
              PROVE  Stored'
  BY HabitStep DEF Stored
<1>. USE DEF client, work, paths, names, disk, upload, history
<1>0. /\ Uploading => \A s \in Session : fate[s] # "kept"
      /\ \A s \in Session :
            session[s] # "new" /\ <<s, 0>> \notin refused /\ ~InLine(s, "start", 0) =>
                /\ fate[s] = "pending" =>
                      gPreName \in PathIdx /\ Complete(<<gPreName, id[s]>>, s)
                /\ fate[s] = "kept" => \E p \in PathIdx : Complete(<<p, id[s]>>, s)
  BY DEF Stored
<1>1. ASSUME NEW w \in Worker, wpc[w] # "idle"
      PROVE  /\ wtask[w].s \in Session /\ fate[wtask[w].s] = "pending" /\ ~Uploading
             /\ session[wtask[w].s] # "new"
             /\ wtask[w] \in Tasks /\ \A v \in Worker : v = w
             /\ \A s \in Session : Busy(s) => s = wtask[w].s
  <2>1. Due(wtask[w]) /\ wtask[w].s \in Session
    BY <1>1, WorkerTask DEF Line
  <2>. QED
    BY <1>1, <2>1, WorkerAlone, WorkerInLine DEF Due, Ended
<1>2. ASSUME Uploading', NEW s \in Session PROVE fate'[s] # "kept"
  <2>1. CASE Uploading
    <3>1. \A w \in Worker : wpc[w] = "idle"
      BY <1>1, <2>1
    <3>2. fate' = fate
      BY <3>1, FateKinds DEF Remove, Count
    <3>. QED
      BY <1>0, <2>1, <3>2
  <2>2. CASE ~Uploading
    <3>1. PICK u \in Uploader : upc[u] = "idle" /\ upc'[u] # "idle"
      BY <1>2, <2>2 DEF Uploading
    <3>2. PICK w \in Worker : Count(w)
      BY <2>2, <3>1, UploadKinds, UploadAlone DEF Uploading
    <3>3. gPersistentCount = MAX_PERSISTENT_COUNT - 1
      BY <3>1, <3>2 DEF Count
    <3>4. PICK kept \in SUBSET Session :
             /\ \A r \in Session : fate[r] = "kept" => r \in kept
             /\ fate' = [r \in Session |-> IF r \in kept THEN "uploaded" ELSE fate[r]]
      <4>1. wtask[w].s \in Session
        BY <1>1, <3>2 DEF Count
      <4>. QED
        BY <3>2, <3>3, <4>1 DEF Count
    <3>. QED
      BY <3>4
  <2>. QED
    BY <2>1, <2>2
<1>3. ASSUME NEW s \in Session, session'[s] # "new", <<s, 0>> \notin refused',
             ~InLine(s, "start", 0)'
      PROVE  /\ fate'[s] = "pending" =>
                   gPreName' \in PathIdx /\ \E d \in Dir : d = <<gPreName', id'[s]>> /\ Complete(d, s)'
             /\ fate'[s] = "kept" =>
                   \E p \in PathIdx : \E d \in Dir : d = <<p, id'[s]>> /\ Complete(d, s)'
  <2>1. CASE session[s] = "new"
    <3>1. ASSUME NEW r \in Session, Calls(r) PROVE FALSE
      <4>1. PICK t \in Task : Appends(r, t)
        BY <3>1, CallAppends
      <4>2. Tasks' = Tasks \union {t} /\ r = s
        BY <1>3, <2>1, <4>1, TasksJoined DEF Appends
      <4>3. t.op = "start" /\ t.s = s /\ t.n \in Nat
        BY <2>1, <4>1, <4>2, SpeechAssumption DEF Appends, Task
      <4>4. t.n = 0
        BY <4>1, <4>3 DEF Appends, Proper
      <4>. QED
        BY <1>3, <4>2, <4>3, <4>4 DEF InLine
    <3>2. CASE Stays \/ \E w \in Worker : Take(w) \/ Leaves(w)
      BY <1>3, <2>1, <3>2 DEF Stays, Take, Leaves
    <3>. QED
      BY <3>1, <3>2, StepKinds
  <2>2. ASSUME session[s] # "new"
        PROVE  id'[s] = id[s]
    <3>1. ASSUME NEW r \in Session, Calls(r) PROVE id'[s] = id[s]
      BY <2>2, <3>1 DEF Calls, SpeechStart, SpeechProcess, SpeechStop, TypeOK
    <3>2. CASE Stays \/ \E w \in Worker : Take(w) \/ Leaves(w)
      BY <3>2 DEF Stays, Take, Leaves
    <3>. QED
      BY <3>1, <3>2, StepKinds
  <2>3. <<s, 0>> \notin refused
    BY <1>3, RefusedKinds
  <2>4. gPreName \in PathIdx => <<gPreName, id[s]>> \in Dir /\ \A p \in PathIdx : <<p, id[s]>> \in Dir
    BY DEF Dir, TypeOK
  \* StartTask makes the directory; the chunks are still in line.
  <2>5. CASE session[s] # "new" /\ InLine(s, "start", 0)
    <3>1. PICK w \in Worker : Leaves(w) /\ wtask[w].s = s /\ wtask[w].op = "start"
      <4>1. PICK t \in Tasks : t.s = s /\ t.op = "start" /\ t.n = 0
        BY <2>5 DEF InLine
      <4>2. t \notin Tasks'
        BY <1>3, <4>1 DEF InLine
      <4>3. ~\E r \in Session : Calls(r)
        BY <4>1, <4>2, CallAppends, TasksJoined
      <4>4. ~(Stays \/ \E w \in Worker : Take(w))
        BY <4>1, <4>2, TasksKept
      <4>5. PICK w \in Worker : Leaves(w)
        BY <4>3, <4>4, StepKinds
      <4>6. wtask[w] = t
        BY <4>1, <4>2, <4>5, TasksLeft
      <4>. QED
        BY <4>1, <4>5, <4>6
    <3>2. wpc[w] # "idle" /\ fate[s] = "pending" /\ fate' = fate
      BY <1>1, <3>1 DEF Leaves
    <3>3. MakeDir(w)
      <4>1. MakeDir(w) \/ DirRefused(w)
        BY <3>1, LeavesKinds
      <4>2. wtask[w].n = 0
        <5>1. Proper(wtask[w]) /\ wtask[w].n \in 0..MaxChunk
          BY <3>1, <3>2, WorkerTask DEF Line
        <5>2. wtask[w].n \in Nat /\ ~(wtask[w].n > 0)
          BY <3>1, <5>1, SpeechAssumption DEF Proper
        <5>. QED
          BY <5>2
      <4>. QED
        BY <1>3, <3>1, <4>1, <4>2 DEF DirRefused, Refuse
    <3>4. gPreName \in PathIdx /\ level[gPreName] = 3
      BY <2>3, <3>1, <3>3 DEF MakeDir, Made
    <3>5. PreName = {gPreName} /\ gPreName' = gPreName
      BY <3>2, <3>3, WorkerAlone DEF MakeDir
    <3>6. PICK d \in Dir : d = <<gPreName, id[s]>>
      BY <2>4, <3>4
    <3>7. d \in dirs'
      BY <3>1, <3>3, <3>4, <3>5, <3>6, SpeechAssumption DEF MakeDir
    <3>8. \A n \in 1..sent'[s] : InLine(s, "process", n)'
      <4>1. /\ sent' = sent /\ Tasks' = Tasks \ {wtask[w]}
        BY <3>1, TasksLeft DEF Leaves
      <4>2. \A n \in 1..sent[s] : InLine(s, "process", n)
        BY <2>5 DEF StartFirst
      <4>. QED
        BY <3>1, <4>1, <4>2 DEF InLine
    <3>9. Complete(d, s)'
      BY <3>7, <3>8 DEF Complete
    <3>. QED
      BY <2>2, <2>5, <3>2, <3>4, <3>5, <3>6, <3>9
  <2>6. CASE session[s] # "new" /\ ~InLine(s, "start", 0)
    <3>0. /\ fate[s] = "pending" => gPreName \in PathIdx /\ Complete(<<gPreName, id[s]>>, s)
          /\ fate[s] = "kept" => \E p \in PathIdx : Complete(<<p, id[s]>>, s)
      BY <1>0, <2>3, <2>6
    <3>1. ASSUME fate'[s] = "pending", fate[s] = "pending"
          PROVE  gPreName' \in PathIdx /\ \E d \in Dir : d = <<gPreName', id'[s]>> /\ Complete(d, s)'
      <4>1. Busy(s)
        BY <2>6, <3>1, DataBusy
      <4>2. \A u \in Uploader : upc[u] = "idle"
        BY <4>1, UploaderAlone
      <4>3. gPreName' = gPreName
        <5>1. ASSUME NEW w \in Worker, SetName(w) PROVE FALSE
          <6>1. wpc[w] # "idle" /\ wtask[w].op = "start"
            BY <5>1 DEF SetName, Line, Suits
          <6>2. wtask[w].n = 0 /\ wtask[w].s = s /\ wtask[w] \in Tasks
            BY <1>1, <4>1, <6>1, WorkerTask, SpeechAssumption DEF Line, Proper
          <6>. QED
            BY <2>6, <6>1, <6>2 DEF InLine
        <5>. QED
          BY <4>2, <5>1, NameKinds DEF ClearName, UploadGoto
      <4>4. PICK d \in Dir : d = <<gPreName, id[s]>> /\ Complete(d, s)
        BY <2>4, <3>0, <3>1
      <4>5. d \in dirs'
        <5>1. ASSUME NEW w \in Worker, Remove(w) PROVE FALSE
          <6>1. wtask[w].s = s /\ wpc[w] # "idle"
            BY <1>1, <4>1, <5>1 DEF Remove
          <6>. QED
            BY <3>1, <5>1, <6>1 DEF Remove, TypeOK
        <5>. QED
          BY <4>2, <4>4, <5>1, DirKinds DEF Clear, Complete
      <4>6. Complete(d, s)'
        BY <4>4, <4>5, CompleteStep
      <4>. QED
        BY <2>2, <2>6, <3>0, <3>1, <4>3, <4>4, <4>6
    <3>2. ASSUME fate'[s] = "kept", fate[s] = "kept"
          PROVE  \E p \in PathIdx : \E d \in Dir : d = <<p, id'[s]>> /\ Complete(d, s)'
      <4>1. PICK p \in PathIdx : Complete(<<p, id[s]>>, s)
        BY <3>0, <3>2
      <4>2. PICK d \in Dir : d = <<p, id[s]>> /\ Complete(d, s)
        BY <4>1 DEF Dir, TypeOK
      <4>3. \A u \in Uploader : upc[u] = "idle"
        BY <1>0, <3>2 DEF Uploading
      <4>4. d \in dirs'
        <5>1. ASSUME NEW w \in Worker, Remove(w) PROVE d # <<wpath[w], id[wtask[w].s]>>
          <6>1. /\ wtask[w].s \in Session /\ fate[wtask[w].s] = "pending"
                /\ session[wtask[w].s] # "new"
            BY <1>1, <5>1 DEF Remove
          <6>2. id[s] # id[wtask[w].s]
            BY <2>6, <3>2, <6>1 DEF DistinctIds
          <6>. QED
            BY <4>2, <6>2
        <5>. QED
          BY <4>2, <4>3, <5>1, DirKinds DEF Clear, Complete
      <4>5. Complete(d, s)'
        BY <3>2, <4>2, <4>4, CompleteStep
      <4>. QED
        BY <2>2, <2>6, <4>2, <4>5
    <3>3. ASSUME fate'[s] = "kept", fate[s] # "kept"
          PROVE  \E p \in PathIdx : \E d \in Dir : d = <<p, id'[s]>> /\ Complete(d, s)'
      <4>1. PICK w \in Worker : Remove(w) \/ Count(w)
        BY <3>3, FateKinds
      <4>2. wtask[w].s \in Session /\ fate[wtask[w].s] = "pending"
        BY <1>1, <4>1 DEF Remove, Count
      <4>3. Count(w) /\ s = wtask[w].s
        BY <3>3, <4>1, <4>2 DEF Remove, Count, TypeOK
      <4>4. PICK d \in Dir : d = <<gPreName, id[s]>> /\ Complete(d, s)
        BY <2>4, <3>0, <4>2, <4>3
      <4>5. d \in dirs'
        BY <4>3, <4>4 DEF Count, Complete
      <4>6. Complete(d, s)'
        BY <4>4, <4>5, CompleteStep
      <4>. QED
        BY <2>2, <2>6, <3>0, <4>2, <4>3, <4>4, <4>6
    <3>4. fate'[s] = "pending" => fate[s] = "pending"
      <4>1. ASSUME NEW w \in Worker, Remove(w) \/ Count(w), fate'[s] = "pending"
            PROVE  fate[s] = "pending"
        BY <4>1 DEF Remove, Count, TypeOK
      <4>. QED
        BY <4>1, FateKinds
    <3>. QED
      BY <3>1, <3>2, <3>3, <3>4
  <2>. QED
    BY <2>1, <2>5, <2>6
<1>. QED
  BY <1>2, <1>3 DEF Stored
-----------------------------------------------------------------------------
(* Theorems.                                                               *)

PatientInv ==
    /\ ServiceInv
    /\ StopInLine /\ StartFirst /\ OneAtATime /\ OneTree /\ Left
    /\ DistinctIds /\ RefusedBehind /\ Made /\ Stored

LEMMA PatientInit == Init => PatientInv
<1>. SUFFICES ASSUME Init PROVE PatientInv
  OBVIOUS
<1>1. Tasks = {} /\ ServiceInv
  BY ServiceInit DEF Init, Tasks
<1>2. /\ ~Uploading /\ \A s \in Session : ~Busy(s)
  BY <1>1 DEF Init, Uploading, Busy
<1>3. StopInLine /\ StartFirst /\ RefusedBehind /\ DistinctIds /\ Stored
  BY <1>1, <1>2 DEF Init, StopInLine, StartFirst, InLine, RefusedBehind, DistinctIds, Stored
<1>4. OneAtATime
  BY <1>2 DEF Init, OneAtATime
<1>5. OneTree
  BY DEF Init, OneTree, TreeInUse, TreeRemoved, TreeRead, Switched, Unnamed, Emptied
<1>6. Left
  <2>1. \A d \in Dir : Len(file[d]) = 0
    BY DEF Init
  <2>. QED
    BY <2>1 DEF Left, Holds
<1>7. Made
  BY DEF Init, Made
<1>. QED
  BY <1>1, <1>3, <1>4, <1>5, <1>6, <1>7 DEF PatientInv

\* The invariant of the service for a patient client: one session at a time, in
\* one tree, each stored whole but for what the disk has refused.
THEOREM PatientService == Spec => []PatientInv
<1>1. PatientInv /\ [Next]_vars => PatientInv'
  <2>. SUFFICES ASSUME PatientInv, [Next]_vars PROVE PatientInv'
    OBVIOUS
  <2>1. ServiceInv /\ TypeOK /\ Line /\ Ended /\ Written /\ Counted
    BY DEF PatientInv, ServiceInv
  <2>2. ServiceInv'
    BY <2>1, TypeStep, LineStep, WrittenStep, CountedStep DEF ServiceInv
  <2>. QED
    BY <2>1, <2>2, StopInLineStep, StartFirstStep, OneAtATimeStep, OneTreeStep, LeftStep,
       DistinctStep, RefusedStep, MadeStep, StoredStep DEF PatientInv
<1>. QED
  BY PatientInit, <1>1, PTL DEF Spec

\* gPreName, shared with the upload thread without a lock, is not used, and not
\* freed again, while it is freed: for every patient client the comment "maybe
\* need a lock" is answered.
THEOREM NameSafe == Spec => []NameNotUsedFreed
<1>1. PatientInv => NameNotUsedFreed
  <2>. SUFFICES ASSUME PatientInv, habit.patient, preFreed
                PROVE  /\ \A w \in Worker : wpc[w] \notin {"mkdir", "name", "erase"}
                       /\ \A u \in Uploader : upc[u] # "free"
                       /\ pool # "closing"
    BY DEF NameNotUsedFreed
  <2>1. TypeOK /\ Line /\ OneAtATime
    BY DEF PatientInv, ServiceInv
  <2>2. \A w \in Worker : wpc[w] = "idle"
    BY <2>1, WorkerAlone
  <2>. QED
    BY <2>1, <2>2 DEF OneAtATime, Uploading
<1>. QED
  BY PatientService, <1>1, PTL

\* StopTask and UploadTask leave nothing on the disk of an interrupted session,
\* or of the sessions of a tree, for every patient client: the tree the thread
\* was given is the one the sessions are in.
THEOREM NothingLeft == Spec => []NothingLeftBehind
<1>1. PatientInv => NothingLeftBehind
  <2>1. Quiet => ~Uploading
    BY DEF Quiet, Uploading
  <2>. QED
    BY <2>1 DEF PatientInv, Left, NothingLeftBehind
<1>. QED
  BY PatientService, <1>1, PTL

\* A completed session is stored until its tree is uploaded, whole but for what
\* the disk refused, for every client that leaves the service the time to finish
\* between two sessions and starts them in different seconds.
THEOREM RecordingSafe == Spec => []RecordingKept
<1>1. PatientInv => RecordingKept
  <2>. SUFFICES ASSUME PatientInv, habit.patient, habit.distinct,
                       NEW s \in Session, fate[s] = "kept", <<s, 0>> \notin refused
                PROVE  \E p \in PathIdx : Recorded(<<p, id[s]>>, s)
    BY DEF RecordingKept, EveryRecordingKept
  <2>1. TypeOK /\ Line /\ Ended /\ Written /\ Stored /\ DistinctIds
    BY DEF PatientInv, ServiceInv
  <2>2. idFreed[s] /\ session[s] = "stopped"
    BY <2>1 DEF Ended
  <2>3. \A t \in Tasks : t.s # s
    BY <2>1, <2>2, TaskFacts DEF Due
  <2>4. PICK p \in PathIdx : Complete(<<p, id[s]>>, s)
    BY <2>1, <2>2, <2>3 DEF Stored, InLine
  <2>5. PICK d \in Dir : d = <<p, id[s]>> /\ Complete(d, s)
    BY <2>1, <2>4 DEF TypeOK, Dir
  <2>6. \A i \in 1..Len(file[d]) : file[d][i].s = s
    <3>. SUFFICES ASSUME NEW i \in 1..Len(file[d]) PROVE file[d][i].s = s
      OBVIOUS
    <3>1. file[d][i] \in Chunk
      BY <2>1 DEF TypeOK
    <3>2. file[d][i].s \in Session
      BY <3>1 DEF Chunk
    <3>3. id[file[d][i].s] = d[2] /\ session[file[d][i].s] # "new"
      BY <2>1 DEF Written, Behind
    <3>. QED
      BY <2>1, <2>2, <2>5, <3>2, <3>3 DEF DistinctIds
  <2>7. \A i, j \in 1..Len(file[d]) : i < j => file[d][i].n < file[d][j].n
    BY <2>1, <2>6 DEF Written
  <2>8. Recorded(d, s)
    BY <2>3, <2>5, <2>6, <2>7 DEF Recorded, Complete, InLine, InFile
  <2>. QED
    BY <2>5, <2>8
<1>. QED
  BY PatientService, <1>1, PTL
=============================================================================
