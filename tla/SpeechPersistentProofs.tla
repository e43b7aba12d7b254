------------------------ MODULE SpeechPersistentProofs ------------------------
(***************************************************************************)
(* Invariants of the recording service, for every set of sessions, length  *)
(* of the queue, number of trees and of upload threads, and every client.  *)
(***************************************************************************)
EXTENDS SpeechPersistentProperties, FiniteSetTheorems, TLAPS

-----------------------------------------------------------------------------
(* The line: the task the worker runs, and those queued behind it.         *)

\* A task of speechProcess has a chunk, the others have none.
Proper(t) == t \in Task /\ (t.op = "process" <=> t.n > 0)

\* Where the worker is tells which task it runs.
Suits(t, pc) ==
    \/ t.op = "start" /\ pc \in {"path", "mkbase", "mkpig", "mkdev", "setname", "mkdir"}
    \/ t.op = "process" /\ pc \in {"name", "write"}
    \/ t.op = "stop" /\ ~t.completed /\ pc \in {"erase", "remove"}
    \/ t.op = "stop" /\ t.completed /\ pc = "count"

\* The session of a task in line has been opened, its id is not freed, and it is
\* stopped if the task says so.
Due(t) ==
    /\ session[t.s] # "new" /\ ~idFreed[t.s] /\ t.n <= sent[t.s]
    /\ t.op = "stop" => session[t.s] = "stopped"

\* What has been done for chunk n of session s comes before task u.
Precedes(s, n, u) == u.s = s => u.op # "start" /\ (u.op = "process" => n < u.n)

\* Tasks of one session run in the order of the calls; its stop is the last.
Before(t, u) == Precedes(t.s, t.n, u) /\ (u.s = t.s => t.op # "stop")

Idle == \A w \in Worker : wpc[w] = "idle"

Line ==
    /\ \A w \in Worker : \/ wpc[w] = "idle" /\ wtask[w] = NoTask
                         \/ Proper(wtask[w]) /\ Suits(wtask[w], wpc[w])
    /\ \A i \in 1..Len(queue) : Proper(queue[i]) /\ Due(queue[i])
    /\ \A w \in Worker : wpc[w] # "idle" => Due(wtask[w])
    /\ \A i, j \in 1..Len(queue) : i < j => Before(queue[i], queue[j])
    /\ \A w \in Worker : wpc[w] # "idle" =>
          \A i \in 1..Len(queue) : Before(wtask[w], queue[i])

\* An id is freed at the end of its session, which is when its fate is known.
Ended ==
    \A s \in Session : /\ idFreed[s] => session[s] = "stopped"
                       /\ idFreed[s] <=> fate[s] # "pending"

\* Chunk n of session s is behind every task in line.
Behind(s, n) ==
    /\ session[s] # "new" /\ n <= sent[s]
    /\ \A i \in 1..Len(queue) : Precedes(s, n, queue[i])
    /\ \A w \in Worker : wpc[w] # "idle" => Precedes(s, n, wtask[w])

\* Data is written to its session's directory, while that exists, in order.
Written ==
    \A d \in Dir :
        /\ file[d] # <<>> => d \in dirs
        /\ \A i \in 1..Len(file[d]) :
              Behind(file[d][i].s, file[d][i].n) /\ id[file[d][i].s] = d[2]
        /\ \A i, j \in 1..Len(file[d]) :
              i < j /\ file[d][i].s = file[d][j].s => file[d][i].n < file[d][j].n

\* gPersistentCount counts a finite set.
Kept == {s \in Session : fate[s] = "kept"}
Counted == IsFiniteSet(Kept) /\ gPersistentCount = Cardinality(Kept)

-----------------------------------------------------------------------------
(* Types.                                                                  *)

\* The task of a worker that is not idle.
LEMMA WorkerTask ==
    ASSUME TypeOK, Line, NEW w \in Worker, wpc[w] # "idle"
    PROVE  /\ wtask[w] \in Task /\ wtask[w] # NoTask
           /\ wtask[w].s \in Session /\ wtask[w].n \in 0..MaxChunk
           /\ id[wtask[w].s] \in Id
           /\ wtask[w].op = "process" => wtask[w].n \in 1..MaxChunk
<1>1. Proper(wtask[w])
  BY DEF Line
<1>2. wtask[w] \in Task
  BY <1>1 DEF Proper
<1>3. wtask[w].s \in Session /\ wtask[w].n \in 0..MaxChunk
  BY <1>2 DEF Task
<1>. QED
  BY <1>1, <1>2, <1>3, SpeechAssumption DEF Proper, TypeOK

LEMMA ReturnTypes ==
    ASSUME TypeOK, NEW w \in Worker, Return(w)
    PROVE  /\ wpc' \in [Worker -> WorkerPC]
           /\ wtask' \in [Worker -> Task \union {NoTask}]
           /\ wpath' \in [Worker -> PathIdx \union {NoPath}]
BY DEF TypeOK, Return, WorkerPC

LEMMA GotoTypes ==
    ASSUME TypeOK, NEW w \in Worker, NEW pc \in WorkerPC, Goto(w, pc)
    PROVE  /\ wpc' \in [Worker -> WorkerPC]
           /\ wtask' \in [Worker -> Task \union {NoTask}]
           /\ wpath' \in [Worker -> PathIdx \union {NoPath}]
BY DEF TypeOK, Goto

LEMMA RefuseTypes ==
    ASSUME TypeOK, Line, NEW w \in Worker, wpc[w] # "idle", Refuse(w)
    PROVE  refused' \subseteq Session \X (0..MaxChunk)
BY WorkerTask DEF TypeOK, Refuse

LEMMA QueueTypes ==
    ASSUME TypeOK, NEW t \in Task, Queue(t)
    PROVE  queue' \in Seq(Task) /\ Len(queue') <= QueueMax
BY SpeechAssumption DEF TypeOK, Queue

LEMMA LevelTypes ==
    ASSUME TypeOK, NEW p, NEW l \in 1..3
    PROVE  /\ level \in [PathIdx -> 0..3]
           /\ [level EXCEPT ![p] = IF @ < l THEN l ELSE @] \in [PathIdx -> 0..3]
           /\ [level EXCEPT ![p] = l - 1] \in [PathIdx -> 0..3]
<1>1. level \in [PathIdx -> 0..3] /\ l \in 0..3 /\ l - 1 \in 0..3
  BY DEF TypeOK
<1>2. CASE p \in PathIdx
  <2>1. (IF level[p] < l THEN l ELSE level[p]) \in 0..3
    BY <1>1, <1>2
  <2>. QED
    BY <1>1, <1>2, <2>1
<1>3. CASE p \notin PathIdx
  BY <1>1, <1>3
<1>. QED
  BY <1>2, <1>3

LEMMA FileTypes ==
    ASSUME TypeOK, NEW d \in Dir, NEW c \in Chunk
    PROVE  [file EXCEPT ![d] = Append(@, c)] \in [Dir -> Seq(Chunk)]
<1>1. Append(file[d], c) \in Seq(Chunk)
  BY DEF TypeOK
<1>. QED
  BY <1>1 DEF TypeOK

LEMMA ClientTypes ==
    ASSUME TypeOK, NEW s \in Session,
           SpeechStart(s) \/ SpeechProcess(s) \/ \E c \in BOOLEAN : SpeechStop(s, c)
    PROVE  TypeOK'
<1>. USE DEF work, paths, names, disk, upload, history
<1>1. CASE SpeechStart(s)
  <2>1. [op |-> "start", s |-> s, n |-> 0, completed |-> TRUE] \in Task
    BY SpeechAssumption DEF Task, Op
  <2>. QED
    BY <1>1, <2>1, QueueTypes DEF SpeechStart, TypeOK, Id
<1>2. CASE SpeechProcess(s)
  <2>1. sent[s] + 1 \in 0..MaxChunk
    BY <1>2, SpeechAssumption DEF SpeechProcess, TypeOK
  <2>2. [op |-> "process", s |-> s, n |-> sent[s] + 1, completed |-> TRUE] \in Task
    BY <2>1 DEF Task, Op
  <2>. QED
    BY <1>2, <2>1, <2>2, QueueTypes DEF SpeechProcess, TypeOK
<1>3. ASSUME NEW c \in BOOLEAN, SpeechStop(s, c) PROVE TypeOK'
  <2>1. [op |-> "stop", s |-> s, n |-> 0, completed |-> c] \in Task
    BY SpeechAssumption DEF Task, Op
  <2>. QED
    BY <1>3, <2>1, QueueTypes DEF SpeechStop, TypeOK
<1>. QED
  BY <1>1, <1>2, <1>3

LEMMA WorkTypes ==
    ASSUME TypeOK, Line, NEW w \in Worker, Work(w)
    PROVE  TypeOK'
<1>. USE DEF client, paths, names, disk, upload, history
<1>1. CASE Take(w)
  <2>1. Head(queue) \in Task /\ Tail(queue) \in Seq(Task) /\ Len(Tail(queue)) <= QueueMax
    BY <1>1, SpeechAssumption DEF Take, TypeOK
  <2>2. FirstStep(Head(queue)) \in WorkerPC
    BY <2>1 DEF FirstStep, WorkerPC, Task, Op
  <2>. QED
    BY <1>1, <2>1, <2>2 DEF Take, TypeOK
<1>2. CASE StartPath(w)
  BY <1>2, GotoTypes DEF StartPath, TypeOK, WorkerPC
<1>3. ASSUME NEW at, NEW l \in 1..3, NEW next \in WorkerPC, MakeLevel(w, at, l, next)
      PROVE  TypeOK'
  <2>1. level' \in [PathIdx -> 0..3]
    BY <1>3, LevelTypes DEF MakeLevel
  <2>2. wpc' \in [Worker -> WorkerPC]
    BY <1>3 DEF MakeLevel, TypeOK, WorkerPC
  <2>3. wpath' \in [Worker -> PathIdx \union {NoPath}]
    BY <1>3 DEF MakeLevel, TypeOK
  <2>. QED
    BY <1>3, <2>1, <2>2, <2>3 DEF MakeLevel, TypeOK
<1>4. ASSUME NEW at, at # "idle", NEW l \in 1..3, LevelRefused(w, at, l)
      PROVE  TypeOK'
  BY <1>4, GotoTypes, RefuseTypes DEF LevelRefused, TypeOK, WorkerPC
<1>5. CASE InitPath(w)
  BY <1>3, <1>4, <1>5 DEF InitPath, WorkerPC
<1>6. CASE SetName(w)
  BY <1>6, GotoTypes DEF SetName, TypeOK, WorkerPC
<1>7. CASE MakeDir(w)
  <2>1. dirs' \subseteq Dir
    BY <1>7, WorkerTask DEF MakeDir, TypeOK, Dir, PreName
  <2>. QED
    BY <1>7, <2>1, ReturnTypes DEF MakeDir, TypeOK
<1>8. CASE DirRefused(w)
  BY <1>8, ReturnTypes, RefuseTypes DEF DirRefused, TypeOK
<1>9. CASE ReadName(w)
  <2>1. wpath' \in [Worker -> PathIdx \union {NoPath}]
    BY <1>9 DEF ReadName, TypeOK, PreName
  <2>2. wpc' \in [Worker -> WorkerPC]
    BY <1>9 DEF ReadName, TypeOK, WorkerPC
  <2>. QED
    BY <1>9, <2>1, <2>2 DEF ReadName, TypeOK
<1>10. CASE Write(w) \/ WriteRefused(w)
  <2>1. wtask[w].op = "process" /\ wpc[w] # "idle"
    BY <1>10 DEF Write, WriteRefused, Line, Suits
  <2>2. /\ Whole(wtask[w]) \in Chunk
        /\ [Whole(wtask[w]) EXCEPT !.torn = TRUE] \in Chunk
    BY <2>1, WorkerTask DEF Whole, Chunk
  <2>3. file' \in [Dir -> Seq(Chunk)]
    <3>1. file \in [Dir -> Seq(Chunk)] /\ dirs \subseteq Dir
      BY DEF TypeOK
    <3>. DEFINE d == <<wpath[w], id[wtask[w].s]>>
                c == Whole(wtask[w])
    <3>2. \/ file' = file
          \/ d \in dirs /\ file' = [file EXCEPT ![d] = Append(@, c)]
          \/ d \in dirs /\ file' = [file EXCEPT ![d] = Append(@, [c EXCEPT !.torn = TRUE])]
      BY <1>10 DEF Write, WriteRefused
    <3>3. c \in Chunk /\ [c EXCEPT !.torn = TRUE] \in Chunk
      BY <2>2
    <3>. HIDE DEF d, c
    <3>4. ASSUME NEW e \in Chunk, d \in dirs, file' = [file EXCEPT ![d] = Append(@, e)]
          PROVE  file' \in [Dir -> Seq(Chunk)]
      BY <3>1, <3>4, FileTypes
    <3>. QED
      BY <3>1, <3>2, <3>3, <3>4
  <2>4. CASE Write(w)
    BY <2>3, <2>4, ReturnTypes DEF Write, TypeOK
  <2>5. CASE WriteRefused(w)
    BY <2>1, <2>3, <2>5, ReturnTypes, RefuseTypes DEF WriteRefused, TypeOK
  <2>. QED
    BY <1>10, <2>4, <2>5
<1>11. CASE Remove(w)
  <2>1. file' \in [Dir -> Seq(Chunk)]
    BY <1>11 DEF Remove, TypeOK
  <2>. QED
    BY <1>11, <2>1, ReturnTypes DEF Remove, TypeOK
<1>12. CASE Count(w)
  <2>1. (gPersistentCount + 1) % MAX_PERSISTENT_COUNT \in 0..(MAX_PERSISTENT_COUNT - 1)
    BY SpeechAssumption DEF TypeOK
  <2>2. upc' \in [Uploader -> UploadPC] /\ upath' \in [Uploader -> PathIdx \union {NoPath}]
    BY <1>12 DEF Count, StartUpload, TypeOK, UploadPC
  <2>3. fate' \in [Session -> {"pending", "interrupted", "kept", "uploaded"}]
    BY <1>12 DEF Count, TypeOK
  <2>. QED
    BY <1>12, <2>1, <2>2, <2>3, ReturnTypes DEF Count, TypeOK
<1>. QED
  BY <1>1, <1>2, <1>5, <1>6, <1>7, <1>8, <1>9, <1>10, <1>11, <1>12 DEF Work

LEMMA UploadTypes ==
    ASSUME TypeOK, NEW u \in Uploader, Upload(u)
    PROVE  TypeOK'
<1>. USE DEF UploadGoto, UnchangedByUpload, client, work, paths, names, disk, history
<1>1. CASE Rotate(u)
  <2>1. (gnDefaultPathIndex + 1) % MAX_PATH_INDEX \in PathIdx
    BY SpeechAssumption DEF TypeOK, PathIdx
  <2>. QED
    BY <1>1, <2>1 DEF Rotate, TypeOK, UploadPC
<1>2. CASE Switch(u) \/ FreeName(u) \/ ClearName(u)
  BY <1>2 DEF Switch, FreeName, ClearName, TypeOK, UploadPC
<1>3. CASE List(u) \/ Cleared(u)
  BY <1>3 DEF List, Cleared, TypeOK, UploadPC
<1>4. CASE Clear(u)
  <2>1. dirs' \subseteq Dir /\ file' \in [Dir -> Seq(Chunk)] /\ todo' \in [Uploader -> SUBSET Dir]
    BY <1>4 DEF Clear, TypeOK
  <2>. QED
    BY <1>4, <2>1 DEF Clear, TypeOK
<1>5. ASSUME NEW at, NEW l \in 1..3, NEW next \in UploadPC, RemoveLevel(u, at, l, next)
      PROVE  TypeOK'
  <2>1. level' \in [PathIdx -> 0..3]
    BY <1>5, LevelTypes DEF RemoveLevel
  <2>2. upc' \in [Uploader -> UploadPC] /\ upath' \in [Uploader -> PathIdx \union {NoPath}]
    BY <1>5 DEF RemoveLevel, TypeOK
  <2>. QED
    BY <1>5, <2>1, <2>2 DEF RemoveLevel, TypeOK
<1>6. CASE RemoveTree(u)
  BY <1>5, <1>6 DEF RemoveTree, UploadPC
<1>. QED
  BY <1>1, <1>2, <1>3, <1>4, <1>6 DEF Upload

LEMMA TypeStep == TypeOK /\ Line /\ [Next]_vars => TypeOK'
<1>. SUFFICES ASSUME TypeOK, Line, [Next]_vars PROVE TypeOK'
  OBVIOUS
<1>. USE DEF client, work, paths, names, disk, upload, history
<1>1. CASE Tick
  <2>1. habit.seconds \in 0..MaxTime
    BY SpeechAssumption DEF TypeOK
  <2>2. now + 1 \in 0..MaxTime
    BY <1>1, <2>1, SpeechAssumption DEF Tick, TypeOK
  <2>. QED
    BY <1>1, <2>2 DEF Tick, TypeOK
<1>2. CASE UnInit \/ Closed
  BY <1>2 DEF UnInit, Closed, TypeOK
<1>3. CASE UNCHANGED vars
  BY <1>3 DEF vars, TypeOK
<1>. QED
  BY <1>1, <1>2, <1>3, ClientTypes, WorkTypes, UploadTypes DEF Next
-----------------------------------------------------------------------------
(* A step does one of four things to the line: a call joins it, the worker *)
(* takes its head, a task leaves it, or it stays as it is.                 *)

Stays ==
    /\ UNCHANGED <<queue, session, sent, id, idFreed, fate, wtask>>
    /\ \A w \in Worker : /\ wpc[w] = "idle" <=> wpc'[w] = "idle"
                         /\ wpc[w] # "idle" => Suits(wtask[w], wpc'[w])

Leaves(w) ==
    /\ wpc[w] # "idle" /\ Return(w) /\ UNCHANGED <<queue, session, sent, id>>
    /\ \/ wtask[w].op # "stop" /\ UNCHANGED <<idFreed, fate>>
       \/ /\ wtask[w].op = "stop"
          /\ idFreed' = [idFreed EXCEPT ![wtask[w].s] = TRUE]
          /\ fate'[wtask[w].s] # "pending"
          /\ \A r \in Session :
                r # wtask[w].s => (fate'[r] = "pending" <=> fate[r] = "pending")

Calls(s) == SpeechStart(s) \/ SpeechProcess(s) \/ \E c \in BOOLEAN : SpeechStop(s, c)

LEMMA WorkKinds ==
    ASSUME TypeOK, Line, NEW w \in Worker, Work(w)
    PROVE  Take(w) \/ Stays \/ Leaves(w)
<1>. USE DEF client, history, Worker
<1>1. CASE StartPath(w)
  BY <1>1 DEF StartPath, Goto, Stays, Line, Suits, TypeOK
<1>2. ASSUME NEW at, NEW l, NEW next,
             <<at, next>> \in {<<"mkbase", "mkpig">>, <<"mkpig", "mkdev">>, <<"mkdev", "setname">>},
             MakeLevel(w, at, l, next) \/ LevelRefused(w, at, l)
      PROVE  Stays
  BY <1>2 DEF MakeLevel, LevelRefused, Goto, Stays, Line, Suits, TypeOK
<1>3. CASE InitPath(w)
  BY <1>2, <1>3 DEF InitPath
<1>4. CASE SetName(w)
  BY <1>4 DEF SetName, Goto, Stays, Line, Suits, TypeOK
<1>5. CASE ReadName(w)
  BY <1>5 DEF ReadName, Stays, Line, Suits, TypeOK
<1>6. CASE MakeDir(w) \/ DirRefused(w)
  BY <1>6 DEF MakeDir, DirRefused, Leaves, Line, Suits
<1>7. CASE Write(w) \/ WriteRefused(w)
  BY <1>7 DEF Write, WriteRefused, Leaves, Line, Suits
<1>8. CASE Remove(w)
  BY <1>8, WorkerTask DEF Remove, Leaves, Line, Suits, TypeOK
<1>9. CASE Count(w)
  <2>1. wtask[w].op = "stop" /\ wtask[w].s \in Session
    BY <1>9, WorkerTask DEF Count, Line, Suits
  <2>2. /\ fate'[wtask[w].s] # "pending"
        /\ \A r \in Session :
              r # wtask[w].s => (fate'[r] = "pending" <=> fate[r] = "pending")
    BY <1>9, <2>1 DEF Count, TypeOK
  <2>. QED
    BY <1>9, <2>1, <2>2 DEF Count, Leaves
<1>. QED
  BY <1>1, <1>3, <1>4, <1>5, <1>6, <1>7, <1>8, <1>9 DEF Work

LEMMA StepKinds ==
    ASSUME TypeOK, Line, [Next]_vars
    PROVE  \/ \E s \in Session : Calls(s)
           \/ \E w \in Worker : Take(w) \/ Leaves(w)
           \/ Stays
<1>. USE DEF client, work, paths, names, disk, upload, history
<1>1. CASE Tick \/ UnInit \/ Closed
  BY <1>1 DEF Tick, UnInit, Closed, Stays, Line
<1>2. ASSUME NEW u \in Uploader, Upload(u) PROVE Stays
  BY <1>2 DEF Upload, Rotate, Switch, FreeName, ClearName, List, Clear, Cleared,
              RemoveTree, RemoveLevel, UnchangedByUpload, Stays, Line
<1>3. CASE UNCHANGED vars
  BY <1>3 DEF vars, Stays, Line
<1>. QED
  BY <1>1, <1>2, <1>3, WorkKinds DEF Next, Calls
-----------------------------------------------------------------------------
(* The line stays in order.                                                *)

\* A call puts a task at the end of the queue.
LEMMA Joined ==
    ASSUME TypeOK, NEW t \in Task, Queue(t)
    PROVE  /\ Len(queue') = Len(queue) + 1
           /\ \A i \in 1..Len(queue) : queue'[i] = queue[i]
           /\ queue'[Len(queue) + 1] = t
           /\ \A i \in 1..Len(queue') : i \in 1..Len(queue) \/ i = Len(queue) + 1
BY DEF TypeOK, Queue

\* The worker's next task was the first of the queue.
LEMMA Taken ==
    ASSUME TypeOK, NEW w \in Worker, Take(w)
    PROVE  /\ Len(queue') = Len(queue) - 1 /\ 1 \in 1..Len(queue)
           /\ \A i \in 1..Len(queue') : i + 1 \in 1..Len(queue) /\ queue'[i] = queue[i + 1]
           /\ wtask'[w] = queue[1] /\ wpc'[w] = FirstStep(queue[1])
           /\ queue[1] \in Task
           /\ Len(queue) \in Nat
BY DEF TypeOK, Take

\* Due(t) after the step.
StillDue(t) ==
    /\ session'[t.s] # "new" /\ ~idFreed'[t.s] /\ t.n <= sent'[t.s]
    /\ t.op = "stop" => session'[t.s] = "stopped"

\* A new task t of session s goes to the end of the line.
Appends(s, t) ==
    /\ Proper(t) /\ Queue(t) /\ t.s = s
    /\ t.op = "start" => session[s] = "new"
    /\ t.op # "start" => session[s] = "open"
    /\ t.op = "process" => t.n = sent[s] + 1
    /\ sent' = [sent EXCEPT ![s] = IF t.op = "process" THEN t.n ELSE @]
    /\ t.op = "stop" <=> session'[s] = "stopped"
    /\ session'[s] # "new"
    /\ \A r \in Session : r # s => session'[r] = session[r]
    /\ UNCHANGED <<wpc, wtask, idFreed, fate>>

LEMMA CallAppends ==
    ASSUME TypeOK, NEW s \in Session, Calls(s)
    PROVE  \E t \in Task : Appends(s, t)
<1>. USE DEF client, work, history
<1>0. sent[s] \in Nat /\ sent \in [Session -> 0..MaxChunk]
      /\ session \in [Session -> {"new", "open", "stopped"}]
  BY SpeechAssumption DEF TypeOK
<1>1. CASE SpeechStart(s)
  <2>. DEFINE t == [op |-> "start", s |-> s, n |-> 0, completed |-> TRUE]
  <2>1. t \in Task /\ Proper(t)
    BY SpeechAssumption DEF Task, Op, Proper
  <2>. QED
    BY <1>0, <1>1, <2>1 DEF SpeechStart, Appends
<1>2. CASE SpeechProcess(s)
  <2>. DEFINE t == [op |-> "process", s |-> s, n |-> sent[s] + 1, completed |-> TRUE]
  <2>1. sent[s] + 1 \in 0..MaxChunk
    BY <1>2, SpeechAssumption DEF SpeechProcess, TypeOK
  <2>2. t \in Task /\ Proper(t)
    BY <1>0, <2>1 DEF Task, Op, Proper
  <2>. QED
    BY <1>0, <1>2, <2>2 DEF SpeechProcess, Appends
<1>3. ASSUME NEW c \in BOOLEAN, SpeechStop(s, c) PROVE \E t \in Task : Appends(s, t)
  <2>. DEFINE t == [op |-> "stop", s |-> s, n |-> 0, completed |-> c]
  <2>1. t \in Task /\ Proper(t)
    BY SpeechAssumption DEF Task, Op, Proper
  <2>. QED
    BY <1>0, <1>3, <2>1 DEF SpeechStop, Appends
<1>. QED
  BY <1>1, <1>2, <1>3 DEF Calls

LEMMA CallStep ==
    ASSUME TypeOK, Line, Ended, NEW s \in Session, NEW t \in Task, Appends(s, t)
    PROVE  Line' /\ Ended'
<1>0. /\ sent \in [Session -> 0..MaxChunk] /\ sent'[s] \in Int
      /\ Len(queue) \in Nat /\ t.n \in Nat /\ t.s = s /\ t \in Task
  BY SpeechAssumption DEF TypeOK, Task, Appends
<1>1. ASSUME NEW u, Proper(u), Due(u)
      PROVE  StillDue(u) /\ Before(u, t)
  <2>1. u.s \in Session /\ u.n \in Nat /\ u.op \in Op
    BY <1>1, SpeechAssumption DEF Proper, Task
  <2>2. Before(u, t)
    BY <1>0, <1>1, <2>1, SpeechAssumption DEF Before, Precedes, Due, Appends
  <2>3. StillDue(u)
    BY <1>0, <1>1, <2>1, SpeechAssumption DEF Due, StillDue, Appends
  <2>. QED
    BY <2>2, <2>3
<1>2. StillDue(t)
  <2>1. ~idFreed[s]
    BY <1>0 DEF Ended, Appends, Op, Task
  <2>2. t.n <= sent'[s]
    BY <1>0, SpeechAssumption DEF Appends, Proper
  <2>. QED
    BY <1>0, <2>1, <2>2 DEF StillDue, Appends
<1>3. /\ Len(queue') = Len(queue) + 1
      /\ \A i \in 1..Len(queue) : queue'[i] = queue[i]
      /\ queue'[Len(queue) + 1] = t
      /\ \A i \in 1..Len(queue') : i \in 1..Len(queue) \/ i = Len(queue) + 1
  BY Joined DEF Appends
<1>4. /\ Proper(t) /\ wpc' = wpc /\ wtask' = wtask
  BY DEF Appends
<1>5. Line'
  <2>1. \A w \in Worker : \/ wpc'[w] = "idle" /\ wtask'[w] = NoTask
                          \/ Proper(wtask'[w]) /\ Suits(wtask'[w], wpc'[w])
    BY <1>4 DEF Line
  <2>2. \A i \in 1..Len(queue') : Proper(queue'[i]) /\ StillDue(queue'[i])
    BY <1>1, <1>2, <1>3, <1>4 DEF Line
  <2>3. \A w \in Worker : wpc'[w] # "idle" => StillDue(wtask'[w])
    BY <1>1, <1>4 DEF Line
  <2>4. \A i, j \in 1..Len(queue') : i < j => Before(queue'[i], queue'[j])
    BY <1>0, <1>1, <1>3 DEF Line
  <2>5. \A w \in Worker : wpc'[w] # "idle" =>
          \A i \in 1..Len(queue') : Before(wtask'[w], queue'[i])
    BY <1>1, <1>3, <1>4 DEF Line
  <2>. QED
    BY <2>1, <2>2, <2>3, <2>4, <2>5 DEF Line, Due, StillDue
<1>6. Ended'
  BY <1>0 DEF Ended, Appends
<1>. QED
  BY <1>5, <1>6

LEMMA TakeLine ==
    ASSUME TypeOK, Line, Ended, NEW w \in Worker, Take(w)
    PROVE  Line' /\ Ended'
<1>. USE DEF client, history
<1>1. /\ Len(queue') = Len(queue) - 1 /\ 1 \in 1..Len(queue) /\ Len(queue) \in Nat
      /\ \A i \in 1..Len(queue') : i + 1 \in 1..Len(queue) /\ queue'[i] = queue[i + 1]
      /\ wtask'[w] = queue[1] /\ wpc'[w] = FirstStep(queue[1])
  BY Taken
<1>2. \A v \in Worker : v = w
  BY DEF Worker
<1>3. Proper(queue[1]) /\ Suits(queue[1], FirstStep(queue[1]))
  <2>1. Proper(queue[1]) /\ queue[1] \in Task
    BY <1>1 DEF Line, Proper
  <2>2. queue[1].op \in Op /\ queue[1].completed \in BOOLEAN
    BY <2>1 DEF Task
  <2>. QED
    BY <2>1, <2>2 DEF FirstStep, Suits, Op
<1>4. UNCHANGED <<session, sent, idFreed, fate>>
  BY DEF Take
<1>5. \A i \in 1..Len(queue') : Proper(queue'[i]) /\ Due(queue[i + 1])
  BY <1>1 DEF Line
<1>6. \A i, j \in 1..Len(queue') : i < j => Before(queue'[i], queue'[j])
  BY <1>1 DEF Line
<1>7. \A i \in 1..Len(queue') : Before(wtask'[w], queue'[i])
  <2>. SUFFICES ASSUME NEW i \in 1..Len(queue') PROVE Before(wtask'[w], queue'[i])
    OBVIOUS
  <2>1. i + 1 \in 1..Len(queue) /\ 1 < i + 1 /\ queue'[i] = queue[i + 1]
    BY <1>1
  <2>. QED
    BY <1>1, <2>1 DEF Line
<1>8. Due(queue[1])
  BY <1>1 DEF Line
<1>9. Line'
  BY <1>1, <1>2, <1>3, <1>4, <1>5, <1>6, <1>7, <1>8 DEF Line, Due
<1>. QED
  BY <1>4, <1>9 DEF Ended

LEMMA StayLine ==
    ASSUME TypeOK, Line, Ended, Stays
    PROVE  Line' /\ Ended'
<1>1. Ended'
  BY DEF Ended, Stays
<1>2. Line'
  BY DEF Line, Stays, Due
<1>. QED
  BY <1>1, <1>2

LEMMA LeaveLine ==
    ASSUME TypeOK, Line, Ended, NEW w \in Worker, Leaves(w)
    PROVE  Line' /\ Ended'
<1>1. /\ wtask[w].s \in Session /\ idFreed \in [Session -> BOOLEAN]
      /\ wtask \in [Worker -> Task \union {NoTask}] /\ wpc \in [Worker -> WorkerPC]
  BY WorkerTask DEF TypeOK, Leaves
<1>2. /\ \A v \in Worker : v = w
      /\ wpc'[w] = "idle" /\ wtask'[w] = NoTask /\ queue' = queue
  BY <1>1 DEF Worker, Leaves, Return
<1>3. ASSUME NEW i \in 1..Len(queue) PROVE StillDue(queue[i])
  <2>1. /\ Due(queue[i]) /\ Proper(queue[i]) /\ Before(wtask[w], queue[i])
        /\ UNCHANGED <<session, sent>>
    BY DEF Line, Leaves
  <2>2. queue[i].s \in Session
    BY <2>1 DEF Proper, Task
  <2>3. ~idFreed'[queue[i].s]
    BY <1>1, <2>1, <2>2 DEF Leaves, Before, Due
  <2>. QED
    BY <2>1, <2>3 DEF Due, StillDue
<1>4. Line'
  BY <1>2, <1>3 DEF Line, Due, StillDue
<1>5. Due(wtask[w])
  BY DEF Line, Leaves
<1>6. Ended'
  BY <1>1, <1>5 DEF Ended, Leaves, Due
<1>. QED
  BY <1>4, <1>6

LEMMA LineStep == TypeOK /\ Line /\ Ended /\ [Next]_vars => Line' /\ Ended'
BY StepKinds, CallAppends, CallStep, TakeLine, StayLine, LeaveLine
-----------------------------------------------------------------------------
(* The data.                                                               *)

\* Behind(s, n) after the step.
StillBehind(s, n) ==
    /\ session'[s] # "new" /\ n <= sent'[s]
    /\ \A i \in 1..Len(queue') : Precedes(s, n, queue'[i])
    /\ \A w \in Worker : wpc'[w] # "idle" => Precedes(s, n, wtask'[w])

\* What is behind the line stays behind it, and the id of a session stays.
LEMMA BehindStep ==
    ASSUME TypeOK, Line, Ended, [Next]_vars,
           NEW s \in Session, NEW n \in 0..MaxChunk, Behind(s, n)
    PROVE  StillBehind(s, n) /\ id'[s] = id[s]
<1>0. n \in Nat /\ sent[s] \in Nat /\ Len(queue) \in Nat
  BY SpeechAssumption DEF TypeOK
<1>1. ASSUME NEW r \in Session, Calls(r)
      PROVE  StillBehind(s, n) /\ id'[s] = id[s]
  <2>1. PICK t \in Task : Appends(r, t)
    BY <1>1, CallAppends
  <2>2. /\ Len(queue') = Len(queue) + 1
        /\ \A i \in 1..Len(queue) : queue'[i] = queue[i]
        /\ queue'[Len(queue) + 1] = t
        /\ \A i \in 1..Len(queue') : i \in 1..Len(queue) \/ i = Len(queue) + 1
    BY <2>1, Joined DEF Appends
  <2>3. t.n \in Nat
    BY SpeechAssumption DEF Task
  <2>4. Precedes(s, n, t)
    BY <1>0, <2>1, <2>3 DEF Appends, Precedes, Behind
  <2>5. session'[s] # "new" /\ n <= sent'[s]
    BY <1>0, <2>1 DEF Appends, Behind
  <2>6. id'[s] = id[s]
    BY <1>1 DEF Calls, SpeechStart, SpeechProcess, SpeechStop, TypeOK, Behind
  <2>. QED
    BY <2>1, <2>2, <2>4, <2>5, <2>6 DEF Appends, Behind, StillBehind
<1>2. ASSUME NEW w \in Worker, Take(w)
      PROVE  StillBehind(s, n) /\ id'[s] = id[s]
  <2>1. /\ \A i \in 1..Len(queue') : i + 1 \in 1..Len(queue) /\ queue'[i] = queue[i + 1]
        /\ wtask'[w] = queue[1] /\ 1 \in 1..Len(queue) /\ \A v \in Worker : v = w
    BY <1>2, Taken DEF Worker
  <2>. QED
    BY <1>2, <2>1 DEF Take, client, Behind, StillBehind
<1>3. ASSUME NEW w \in Worker, Leaves(w)
      PROVE  StillBehind(s, n) /\ id'[s] = id[s]
  BY <1>3 DEF Leaves, Return, TypeOK, Behind, StillBehind
<1>4. CASE Stays
  BY <1>4 DEF Stays, Behind, StillBehind
<1>. QED
  BY <1>1, <1>2, <1>3, <1>4, StepKinds

\* A chunk is behind the line when its task leaves.
LEMMA LeavesBehind ==
    ASSUME TypeOK, Line, NEW w \in Worker, Leaves(w)
    PROVE  StillBehind(wtask[w].s, wtask[w].n)
<1>1. wpc[w] # "idle"
  BY DEF Leaves
<1>2. Due(wtask[w]) /\ \A i \in 1..Len(queue) : Before(wtask[w], queue[i])
  BY <1>1 DEF Line
<1>. QED
  BY <1>2 DEF Leaves, Return, Worker, Due, Before, StillBehind, TypeOK

\* The worker w has written c, of its task, to the file of d.
Writes(w, d, c) ==
    /\ wpc[w] = "write" /\ Leaves(w) /\ d \in dirs /\ dirs' = dirs
    /\ c \in Chunk /\ c.s = wtask[w].s /\ c.n = wtask[w].n
    /\ wpath[w] = d[1] /\ id[wtask[w].s] = d[2]
    /\ file' = [file EXCEPT ![d] = Append(@, c)]

LEMMA WriteKinds ==
    ASSUME TypeOK, Line, NEW w \in Worker, Write(w) \/ WriteRefused(w)
    PROVE  /\ dirs' = dirs
           /\ file' = file \/ \E d \in Dir, c \in Chunk : Writes(w, d, c)
<1>1. /\ wtask[w].op = "process" /\ wpc[w] = "write" /\ wpc[w] # "idle"
      /\ dirs' = dirs /\ dirs \subseteq Dir
  BY DEF Write, WriteRefused, Line, Suits, TypeOK
<1>2. Leaves(w)
  BY <1>1 DEF Write, WriteRefused, Leaves, client, history
<1>. DEFINE d == <<wpath[w], id[wtask[w].s]>>
            c == Whole(wtask[w])
            e == [c EXCEPT !.torn = TRUE]
<1>3. \/ file' = file
      \/ d \in dirs /\ file' = [file EXCEPT ![d] = Append(@, c)]
      \/ d \in dirs /\ file' = [file EXCEPT ![d] = Append(@, e)]
  BY DEF Write, WriteRefused
<1>4. /\ c \in Chunk /\ c.s = wtask[w].s /\ c.n = wtask[w].n
      /\ e \in Chunk /\ e.s = wtask[w].s /\ e.n = wtask[w].n
  BY <1>1, WorkerTask DEF Whole, Chunk
<1>5. wpath[w] = d[1] /\ id[wtask[w].s] = d[2]
  OBVIOUS
<1>. HIDE DEF d, c, e
<1>6. ASSUME d \in dirs, NEW k \in Chunk, k.s = wtask[w].s, k.n = wtask[w].n,
             file' = [file EXCEPT ![d] = Append(@, k)]
      PROVE  \E f \in Dir, a \in Chunk : Writes(w, f, a)
  <2>1. Writes(w, d, k)
    BY <1>1, <1>2, <1>5, <1>6 DEF Writes
  <2>. QED
    BY <1>1, <1>6, <2>1
<1>. QED
  BY <1>1, <1>3, <1>4, <1>6

\* Beyond that, a file keeps its data, and the directory it is in, or loses all.
Keeps(d) ==
    \/ d \notin dirs' /\ file'[d] = <<>>
    \/ file'[d] = file[d] /\ (d \in dirs => d \in dirs')

LEMMA FileKinds ==
    ASSUME TypeOK, Line, [Next]_vars
    PROVE  \/ \E w \in Worker, d \in Dir, c \in Chunk : Writes(w, d, c)
           \/ \A d \in Dir : Keeps(d)
<1>. USE DEF client, work, paths, names, disk, upload, history
<1>1. ASSUME NEW w \in Worker, Work(w)
      PROVE  \/ \E d \in Dir, c \in Chunk : Writes(w, d, c)
             \/ \A d \in Dir : Keeps(d)
  <2>1. CASE Write(w) \/ WriteRefused(w)
    BY <2>1, WriteKinds DEF Keeps
  <2>2. CASE Remove(w)
    <3>. DEFINE e == <<wpath[w], id[wtask[w].s]>>
    <3>1. /\ file \in [Dir -> Seq(Chunk)] /\ dirs' = dirs \ {e} /\ dirs \subseteq Dir
          /\ file' = IF e \in dirs THEN [file EXCEPT ![e] = <<>>] ELSE file
      BY <2>2 DEF Remove, TypeOK
    <3>. HIDE DEF e
    <3>. QED
      BY <3>1 DEF Keeps
  <2>3. CASE MakeDir(w)
    BY <2>3 DEF MakeDir, Keeps
  <2>4. CASE Take(w) \/ StartPath(w) \/ SetName(w) \/ DirRefused(w) \/ ReadName(w) \/ Count(w)
    BY <2>4 DEF Take, StartPath, SetName, DirRefused, ReadName, Count, Keeps
  <2>5. CASE InitPath(w)
    BY <2>5 DEF InitPath, MakeLevel, LevelRefused, Keeps
  <2>. QED
    BY <1>1, <2>1, <2>2, <2>3, <2>4, <2>5 DEF Work
<1>2. ASSUME NEW u \in Uploader, Upload(u)
      PROVE  \A d \in Dir : Keeps(d)
  <2>1. CASE Clear(u)
    BY <2>1 DEF Clear, TypeOK, Keeps
  <2>. QED
    BY <1>2, <2>1 DEF Upload, Rotate, Switch, FreeName, ClearName, List, Cleared,
                      RemoveTree, RemoveLevel, Keeps
<1>3. ASSUME NEW s \in Session, Calls(s) PROVE \A d \in Dir : Keeps(d)
  BY <1>3 DEF Calls, SpeechStart, SpeechProcess, SpeechStop, Keeps
<1>4. CASE Tick \/ UnInit \/ Closed \/ UNCHANGED vars
  BY <1>4 DEF Tick, UnInit, Closed, vars, Keeps
<1>. QED
  BY <1>1, <1>2, <1>3, <1>4 DEF Next, Calls

LEMMA WrittenStep ==
    ASSUME TypeOK, Line, Ended, Written, [Next]_vars
    PROVE  Written'
<1>1. /\ file \in [Dir -> Seq(Chunk)] /\ dirs \subseteq Dir
  BY DEF TypeOK
<1>2. ASSUME NEW d \in Dir, NEW i \in 1..Len(file[d])
      PROVE  /\ file[d][i] \in Chunk
             /\ file[d][i].s \in Session /\ file[d][i].n \in 0..MaxChunk
             /\ StillBehind(file[d][i].s, file[d][i].n) /\ id'[file[d][i].s] = d[2]
  <2>1. file[d][i] \in Chunk
    BY <1>1
  <2>2. file[d][i].s \in Session /\ file[d][i].n \in 0..MaxChunk
    BY <2>1, SpeechAssumption DEF Chunk
  <2>3. Behind(file[d][i].s, file[d][i].n) /\ id[file[d][i].s] = d[2]
    BY DEF Written
  <2>. QED
    BY <2>1, <2>2, <2>3, BehindStep
<1>3. ASSUME NEW d \in Dir, Keeps(d)
      PROVE  /\ file'[d] # <<>> => d \in dirs'
             /\ \A i \in 1..Len(file'[d]) :
                  StillBehind(file'[d][i].s, file'[d][i].n) /\ id'[file'[d][i].s] = d[2]
             /\ \A i, j \in 1..Len(file'[d]) :
                  i < j /\ file'[d][i].s = file'[d][j].s => file'[d][i].n < file'[d][j].n
  <2>1. CASE file'[d] = <<>>
    BY <2>1
  <2>2. CASE file'[d] = file[d] /\ (d \in dirs => d \in dirs')
    BY <2>2, <1>2 DEF Written
  <2>. QED
    BY <1>3, <2>1, <2>2 DEF Keeps
<1>4. ASSUME NEW w \in Worker, NEW d \in Dir, NEW c \in Chunk, Writes(w, d, c)
      PROVE  /\ file'[d] # <<>> => d \in dirs'
             /\ \A i \in 1..Len(file'[d]) :
                  StillBehind(file'[d][i].s, file'[d][i].n) /\ id'[file'[d][i].s] = d[2]
             /\ \A i, j \in 1..Len(file'[d]) :
                  i < j /\ file'[d][i].s = file'[d][j].s => file'[d][i].n < file'[d][j].n
             /\ \A e \in Dir : e # d => Keeps(e)
  <2>1. /\ file[d] \in Seq(Chunk) /\ Len(file[d]) \in Nat /\ file'[d] = Append(file[d], c)
        /\ d \in dirs'
    BY <1>1, <1>4 DEF Writes
  <2>2. /\ Len(file'[d]) = Len(file[d]) + 1
        /\ \A i \in 1..Len(file[d]) : file'[d][i] = file[d][i]
        /\ file'[d][Len(file[d]) + 1] = c
        /\ \A i \in 1..Len(file'[d]) : i \in 1..Len(file[d]) \/ i = Len(file[d]) + 1
    BY <2>1
  <2>3. wtask[w].op = "process" /\ wpc[w] # "idle"
    BY <1>4 DEF Writes, Line, Suits
  <2>5. StillBehind(c.s, c.n) /\ id'[c.s] = d[2]
    BY <1>4, LeavesBehind DEF Writes, Leaves
  <2>6. \A i \in 1..Len(file[d]) : file[d][i].s = c.s => file[d][i].n < c.n
    BY <1>4, <2>3 DEF Written, Behind, Precedes, Writes
  <2>7. \A e \in Dir : e # d => Keeps(e)
    BY <1>1, <1>4 DEF Writes, Keeps
  <2>8. \A i, j \in 1..Len(file'[d]) :
           i < j /\ file'[d][i].s = file'[d][j].s => file'[d][i].n < file'[d][j].n
    BY <2>1, <2>2, <2>6 DEF Written
  <2>9. \A i \in 1..Len(file'[d]) :
            StillBehind(file'[d][i].s, file'[d][i].n) /\ id'[file'[d][i].s] = d[2]
    BY <1>2, <2>2, <2>5
  <2>. QED
    BY <2>1, <2>7, <2>8, <2>9
<1>. QED
  BY <1>3, <1>4, FileKinds DEF Written, Behind, StillBehind
-----------------------------------------------------------------------------
(* The counter.                                                            *)

LEMMA CountedStep ==
    ASSUME TypeOK, Line, Ended, Counted, [Next]_vars
    PROVE  Counted'
<1>. USE DEF client, work, paths, names, disk, upload, history
<1>0. /\ fate \in [Session -> {"pending", "interrupted", "kept", "uploaded"}]
      /\ gPersistentCount \in 0..(MAX_PERSISTENT_COUNT - 1)
      /\ MAX_PERSISTENT_COUNT \in Nat \ {0}
  BY SpeechAssumption DEF TypeOK
<1>1. ASSUME NEW w \in Worker, wpc[w] \in {"remove", "count"}
      PROVE  wtask[w].s \in Session /\ fate[wtask[w].s] = "pending"
  <2>1. wtask[w].s \in Session
    BY <1>1, WorkerTask
  <2>2. Due(wtask[w])
    BY <1>1 DEF Line
  <2>. QED
    BY <2>1, <2>2 DEF Due, Ended
<1>2. ASSUME NEW w \in Worker, Count(w) PROVE Counted'
  <2>. DEFINE s == wtask[w].s
  <2>1. s \in Session /\ fate[s] = "pending" /\ s \notin Kept
    BY <1>1, <1>2 DEF Count, Kept
  <2>2. CASE gPersistentCount = MAX_PERSISTENT_COUNT - 1
    <3>1. Kept' = {}
      BY <1>0, <1>2, <2>1, <2>2 DEF Count, Kept
    <3>2. gPersistentCount' = 0
      <4>1. gPersistentCount' = MAX_PERSISTENT_COUNT % MAX_PERSISTENT_COUNT
        BY <1>0, <1>2, <2>2 DEF Count
      <4>. QED
        BY <1>0, <4>1
    <3>. QED
      BY <3>1, <3>2, FS_EmptySet DEF Counted
  <2>3. CASE gPersistentCount # MAX_PERSISTENT_COUNT - 1
    <3>1. Kept' = Kept \union {s}
      BY <1>0, <1>2, <2>1, <2>3 DEF Count, Kept
    <3>2. gPersistentCount' = gPersistentCount + 1
      <4>1. gPersistentCount' = (gPersistentCount + 1) % MAX_PERSISTENT_COUNT
        BY <1>2 DEF Count
      <4>2. gPersistentCount + 1 \in 0..(MAX_PERSISTENT_COUNT - 1)
        BY <1>0, <2>3
      <4>. QED
        BY <1>0, <4>1, <4>2
    <3>3. IsFiniteSet(Kept') /\ Cardinality(Kept') = Cardinality(Kept) + 1
      BY <2>1, <3>1, FS_AddElement DEF Counted
    <3>. QED
      BY <3>2, <3>3 DEF Counted
  <2>. QED
    BY <2>2, <2>3
<1>3. ASSUME Kept' = Kept, gPersistentCount' = gPersistentCount PROVE Counted'
  BY <1>3 DEF Counted
<1>4. ASSUME NEW w \in Worker, Remove(w) PROVE Counted'
  <2>1. Kept' = Kept
    BY <1>0, <1>1, <1>4 DEF Remove, Kept
  <2>. QED
    BY <1>3, <1>4, <2>1 DEF Remove
<1>5. ASSUME fate' = fate, gPersistentCount' = gPersistentCount PROVE Counted'
  BY <1>3, <1>5 DEF Kept
<1>6. ASSUME NEW w \in Worker, Work(w) PROVE Counted'
  BY <1>2, <1>4, <1>5, <1>6 DEF Work, Take, StartPath, InitPath, MakeLevel, LevelRefused,
     SetName, MakeDir, DirRefused, ReadName, Write, WriteRefused
<1>7. ASSUME NEW u \in Uploader, Upload(u) PROVE Counted'
  BY <1>5, <1>7 DEF Upload, Rotate, Switch, FreeName, ClearName, List, Clear, Cleared,
     RemoveTree, RemoveLevel, UnchangedByUpload
<1>8. CASE Tick \/ UnInit \/ Closed \/ UNCHANGED vars
  BY <1>5, <1>8 DEF Tick, UnInit, Closed, vars
<1>9. ASSUME NEW s \in Session, Calls(s) PROVE Counted'
  BY <1>5, <1>9 DEF Calls, SpeechStart, SpeechProcess, SpeechStop
<1>. QED
  BY <1>6, <1>7, <1>8, <1>9 DEF Next, Calls
-----------------------------------------------------------------------------
(* Theorems.                                                               *)

ServiceInv == TypeOK /\ Line /\ Ended /\ Written /\ Counted

LEMMA ServiceInit == Init => ServiceInv
<1>. SUFFICES ASSUME Init PROVE ServiceInv
  OBVIOUS
<1>1. TypeOK
  <2>1. /\ 0 \in 0..MaxTime /\ 0 \in 0..MaxChunk /\ 0 \in PathIdx /\ 0 \in 0..3
        /\ 0 \in 0..(MAX_PERSISTENT_COUNT - 1) /\ 0 \in Id
    BY SpeechAssumption DEF PathIdx, Id
  <2>2. queue \in Seq(Task) /\ Len(queue) <= QueueMax /\ file \in [Dir -> Seq(Chunk)]
    BY SpeechAssumption DEF Init
  <2>3. /\ habit \in Habit /\ now \in 0..MaxTime /\ id \in [Session -> Id]
        /\ session \in [Session -> {"new", "open", "stopped"}]
        /\ sent \in [Session -> 0..MaxChunk]
        /\ pool \in {"open", "closing", "closed"}
        /\ level \in [PathIdx -> 0..3]
    BY <2>1 DEF Init
  <2>4. /\ wpc \in [Worker -> WorkerPC]
        /\ wtask \in [Worker -> Task \union {NoTask}]
        /\ wpath \in [Worker -> PathIdx \union {NoPath}]
    BY DEF Init, WorkerPC
  <2>5. /\ upc \in [Uploader -> UploadPC]
        /\ upath \in [Uploader -> PathIdx \union {NoPath}]
        /\ todo \in [Uploader -> SUBSET Dir]
    BY DEF Init, UploadPC
  <2>. QED
    BY <2>1, <2>2, <2>3, <2>4, <2>5 DEF Init, TypeOK
<1>2. Line /\ Ended /\ Written
  <2>1. queue = <<>> /\ \A w \in Worker : wpc[w] = "idle" /\ wtask[w] = NoTask
    BY DEF Init
  <2>2. Line
    BY <2>1 DEF Line
  <2>3. Ended
    BY DEF Init, Ended
  <2>4. \A d \in Dir : file[d] = <<>>
    BY DEF Init
  <2>5. Written
    BY <2>4 DEF Written
  <2>. QED
    BY <2>2, <2>3, <2>5
<1>3. Kept = {} /\ gPersistentCount = 0
  BY DEF Init, Kept
<1>. QED
  BY <1>1, <1>2, <1>3, FS_EmptySet DEF ServiceInv, Counted

\* The invariant the theorems rest on: the line of tasks is in order, the data
\* behind it, and the counter counts.
THEOREM Service == Spec => []ServiceInv
<1>1. ServiceInv /\ [Next]_vars => ServiceInv'
  BY TypeStep, LineStep, WrittenStep, CountedStep DEF ServiceInv
<1>. QED
  BY ServiceInit, <1>1, PTL DEF Spec

\* The variables of the service keep their types: the workers have a task while
\* they run, gPersistentCount stays below MAX_PERSISTENT_COUNT and the index of
\* the tree below MAX_PATH_INDEX.
THEOREM ServiceTypes == Spec => []TypeOK
<1>1. ServiceInv => TypeOK
  BY DEF ServiceInv
<1>. QED
  BY Service, <1>1, PTL

\* StopTask frees the id of its session when no task of it is left, for every
\* client, though nothing but the order of the calls keeps them apart.
THEOREM IdOutlives == Spec => []IdOutlivesTasks
<1>1. ServiceInv => IdOutlivesTasks
  BY DEF ServiceInv, IdOutlivesTasks, Line, Due, Suits
<1>. QED
  BY Service, <1>1, PTL

\* The chunks of a session are appended in the order of the calls of
\* speechProcess, for every client and disk, whatever the upload threads do.
THEOREM AppendedInOrder == Spec => []ChunksInOrder
<1>1. ServiceInv => ChunksInOrder
  BY DEF ServiceInv, ChunksInOrder, Written, TypeOK
<1>. QED
  BY Service, <1>1, PTL

\* gPersistentCount is the number of sessions completed since the last upload was
\* started: its arithmetic modulo MAX_PERSISTENT_COUNT never drifts.
THEOREM CountsKept == Spec => []CountMatchesKept
<1>1. ServiceInv => CountMatchesKept
  BY DEF ServiceInv, Counted, Kept, CountMatchesKept
<1>. QED
  BY Service, <1>1, PTL
=============================================================================
