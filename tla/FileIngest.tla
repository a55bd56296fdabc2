----------------------------- MODULE FileIngest -----------------------------
(***************************************************************************)
(* File ingestion: DirWatcher claims delivered files, the feeder of        *)
(* FileIngestor hands them to the ThreadPool, workers read them through    *)
(* FileSource into the sink and move them on.  Processes come and go over  *)
(* the same four directories and the same store; a process stops by stop() *)
(* or is killed at any step.                                               *)
(*                                                                         *)
(* A file is a number of batches with ascending sequences, its place is    *)
(* the directory it is in; a rename is one step.  The pool is the bounded  *)
(* queue that ThreadPool is shown to implement; the store lands a          *)
(* transaction at most once, as RedisStore is shown to, but one that was   *)
(* given up may land long after its caller has gone on, or died.           *)
(***************************************************************************)
EXTENDS Naturals, Sequences, FiniteSets

CONSTANTS Procs,      \* processes that share the directories
          Readers,    \* cfg.file.readers: workers of one process
          Files, NoFile,
          Bad,        \* files that are empty, unreadable or without a header
          NBatches,   \* bound: batches of a file
          MaxStarts,  \* bound: starts of a process; the last one runs on
          MaxLate,    \* bound: transactions of one batch given up and not applied
          Faults      \* what may go wrong outside the process

AllFaults == {"lost",      \* the store fails: nothing of a batch lands
              "unmarked",  \* a batch lands without its mark (RedisStore, DrainBreak)
              "late",      \* a transaction that was given up is applied later on
              "resume",    \* resume_at cannot reach the store and answers 0
              "scan",      \* a directory cannot be listed
              "rename",    \* the rename into done or failed fails
              "claim",     \* the rename of a claim fails, not for ENOENT
              "watcher",   \* poll or read fails
              "overflow"}  \* the kernel drops events, but in the last start

ASSUME IngestAssumption ==
    /\ IsFiniteSet(Readers) /\ Readers # {}
    /\ NoFile \notin Files /\ Bad \in SUBSET Files
    /\ NBatches \in Nat /\ MaxStarts \in Nat /\ MaxLate \in Nat
    /\ Faults \in SUBSET AllFaults

VARIABLES
    dir,       \* per file: absent, ready, process, done, fail
    progress,  \* per file: the batch its mark names, 0 if none
    counted,   \* per file and batch: how often its records were counted
    lost,      \* the <<file, batch>> pairs the store failed to write or to confirm
    late,      \* per file and batch: how many transactions of it were given up
               \*   by a worker or died with a process, and may still be applied
    excused,   \* history, per file and batch: how often the store made it
               \*   possible that the batch is counted once more
    starts,    \* starts so far
    main,      \* per process: down, target and source (sweeps of the constructor),
               \*   running, flagged, joining, draining, exited
    stop,      \* m_stop
    woken,     \* m_event_fd is readable
    todo,      \* what the directory sweep in progress has listed
    events,    \* m_fd: the IN_MOVED_TO events not yet read
    burst,     \* the events of one read() not yet handled
    queue,     \* m_queue: claimed files
    feeder,    \* per process: where feed() is: check, next, submit, ended
    held,      \* the file feed() is submitting
    tasks,     \* the queue of the thread pool
    worker,    \* per worker: idle, resume, open, read, fail
    file,      \* the file it is processing
    next,      \* the batch it reads next
    begun      \* per process: the files its workers began since it started

store   == <<progress, counted, lost, late, excused>>
world   == <<dir, store>>
control == <<starts, main, stop, woken>>
watcher == <<todo, events, burst, queue>>
feed    == <<feeder, held>>
pool    == <<tasks, worker, file, next, begun>>
vars    == <<world, control, watcher, feed, pool>>

Batches == 1 .. NBatches
Workers == Procs \X Readers   \* a worker x is of the process x[1]
PoolCapacity == 2 * Cardinality(Readers)
In(d) == {f \in Files : dir[f] = d}

Init ==
    /\ dir = [f \in Files |-> "absent"]
    /\ progress = [f \in Files |-> 0]
    /\ counted = [f \in Files |-> [b \in Batches |-> 0]]
    /\ lost = {}
    /\ late = [f \in Files |-> [b \in Batches |-> 0]]
    /\ excused = [f \in Files |-> [b \in Batches |-> 0]]
    /\ starts = [p \in Procs |-> 0] /\ main = [p \in Procs |-> "down"]
    /\ stop = [p \in Procs |-> FALSE] /\ woken = [p \in Procs |-> FALSE]
    /\ todo = [p \in Procs |-> {}]
    /\ events = [p \in Procs |-> <<>>] /\ burst = [p \in Procs |-> <<>>]
    /\ queue = [p \in Procs |-> <<>>]
    /\ feeder = [p \in Procs |-> "ended"] /\ held = [p \in Procs |-> NoFile]
    /\ tasks = [p \in Procs |-> <<>>]
    /\ worker = [x \in Workers |-> "idle"]
    /\ file = [x \in Workers |-> NoFile]
    /\ next = [x \in Workers |-> 0]
    /\ begun = [p \in Procs |-> {}]

(* All a process holds in memory and in the kernel goes when it ends. *)
Forget(p) ==
    /\ stop' = [stop EXCEPT ![p] = FALSE] /\ woken' = [woken EXCEPT ![p] = FALSE]
    /\ todo' = [todo EXCEPT ![p] = {}]
    /\ events' = [events EXCEPT ![p] = <<>>] /\ burst' = [burst EXCEPT ![p] = <<>>]
    /\ queue' = [queue EXCEPT ![p] = <<>>]
    /\ feeder' = [feeder EXCEPT ![p] = "ended"] /\ held' = [held EXCEPT ![p] = NoFile]
    /\ tasks' = [tasks EXCEPT ![p] = <<>>]
    /\ worker' = [x \in Workers |-> IF x[1] = p THEN "idle" ELSE worker[x]]
    /\ file' = [x \in Workers |-> IF x[1] = p THEN NoFile ELSE file[x]]
    /\ next' = [x \in Workers |-> IF x[1] = p THEN 0 ELSE next[x]]

-----------------------------------------------------------------------------
(* The constructor of DirWatcher adds the watch before it sweeps. *)
WatchLast(p) == main[p] \in {"running", "flagged", "joining", "draining"}
Watching(p) == main[p] \notin {"down", "exited"}

(* When the queue of m_fd is full the kernel drops what follows, and says   *)
(* so by an event without a name, which read_events() passes over.          *)
Overflows(p) == "overflow" \in Faults /\ starts[p] < MaxStarts

(* The sender renames a whole file into the ready directory. *)
Deliver(f) ==
    /\ dir[f] = "absent"
    /\ dir' = [dir EXCEPT ![f] = "ready"]
    /\ \E told \in SUBSET {p \in Procs : Watching(p)} :
           /\ \A p \in Procs \ told : ~Watching(p) \/ Overflows(p)
           /\ events' = [p \in Procs |-> IF p \in told THEN Append(events[p], f) ELSE events[p]]
    /\ UNCHANGED <<store, control, todo, burst, queue, feed, pool>>

Boot(p) ==
    /\ main[p] \in {"down", "exited"} /\ starts[p] < MaxStarts
    /\ main' = [main EXCEPT ![p] = "target"] /\ starts' = [starts EXCEPT ![p] = @ + 1]
    /\ \/ todo' = [todo EXCEPT ![p] = In("process")]
       \/ "scan" \in Faults /\ todo' = [todo EXCEPT ![p] = {}]
    /\ begun' = [begun EXCEPT ![p] = {}]
    /\ UNCHANGED <<world, stop, woken, events, burst, queue, feed, tasks, worker, file, next>>

(* sweep(m_target_dir, true): claimed by an earlier run. *)
SweepTarget(p, f) ==
    /\ main[p] = "target" /\ f \in todo[p]
    /\ todo' = [todo EXCEPT ![p] = @ \ {f}] /\ queue' = [queue EXCEPT ![p] = Append(@, f)]
    /\ UNCHANGED <<world, control, events, burst, feed, pool>>

(* claim(): the rename into the target directory is won by one caller; who  *)
(* comes late, or meets another error, leaves the file alone.               *)
Claim(p, f) ==
    \/ /\ dir[f] = "ready"
       /\ dir' = [dir EXCEPT ![f] = "process"] /\ queue' = [queue EXCEPT ![p] = Append(@, f)]
    \/ /\ dir[f] # "ready" \/ "claim" \in Faults
       /\ UNCHANGED <<dir, queue>>

(* sweep(m_source_dir, false): what arrives while it lists may be listed. *)
SweepSource(p, f) ==
    /\ main[p] = "source" /\ f \in todo[p] \cup In("ready")
    /\ todo' = [todo EXCEPT ![p] = @ \ {f}]
    /\ Claim(p, f)
    /\ UNCHANGED <<store, control, events, burst, feed, pool>>

(* A sweep that cannot list its directory is over before it began. *)
EndSweep(p) ==
    /\ todo[p] = {}
    /\ \/ /\ main[p] = "target"
          /\ main' = [main EXCEPT ![p] = "source"] /\ todo' = [todo EXCEPT ![p] = In("ready")]
          /\ UNCHANGED feeder
       \/ /\ main[p] = "source" \/ (main[p] = "target" /\ "scan" \in Faults)
          /\ main' = [main EXCEPT ![p] = "running"] /\ feeder' = [feeder EXCEPT ![p] = "check"]
          /\ UNCHANGED todo
    /\ UNCHANGED <<world, starts, stop, woken, events, burst, queue, held, pool>>

-----------------------------------------------------------------------------
(* feed(): the flag is looked at before each file. *)
FeedCheck(p) ==
    /\ feeder[p] = "check"
    /\ feeder' = [feeder EXCEPT ![p] = IF stop[p] THEN "ended" ELSE "next"]
    /\ UNCHANGED <<world, control, watcher, held, pool>>

(* next_file(): the oldest claimed file, once the events read are handled. *)
NextFile(p) ==
    /\ feeder[p] = "next" /\ burst[p] = <<>> /\ queue[p] # <<>>
    /\ held' = [held EXCEPT ![p] = Head(queue[p])] /\ queue' = [queue EXCEPT ![p] = Tail(@)]
    /\ feeder' = [feeder EXCEPT ![p] = "submit"]
    /\ UNCHANGED <<world, control, todo, events, burst, pool>>

Waiting(p) == feeder[p] = "next" /\ burst[p] = <<>> /\ queue[p] = <<>>

(* read_events(): the wake goes before the events; its eventfd is drained. *)
Woken(p) ==
    /\ Waiting(p) /\ woken[p]
    /\ woken' = [woken EXCEPT ![p] = FALSE]
    /\ feeder' = [feeder EXCEPT ![p] = "ended"]
    /\ UNCHANGED <<world, starts, main, stop, watcher, held, pool>>

ReadEvents(p) ==
    /\ Waiting(p) /\ ~woken[p] /\ events[p] # <<>>
    /\ burst' = [burst EXCEPT ![p] = events[p]] /\ events' = [events EXCEPT ![p] = <<>>]
    /\ UNCHANGED <<world, control, todo, queue, feed, pool>>

ClaimEvent(p) ==
    /\ feeder[p] = "next" /\ burst[p] # <<>>
    /\ Claim(p, Head(burst[p]))
    /\ burst' = [burst EXCEPT ![p] = Tail(@)]
    /\ UNCHANGED <<store, control, todo, events, feed, pool>>

(* "watcher stopped, ingestion halted": the process lives on without it. *)
WatcherFails(p) ==
    /\ "watcher" \in Faults /\ Waiting(p)
    /\ feeder' = [feeder EXCEPT ![p] = "ended"]
    /\ UNCHANGED <<world, control, watcher, held, pool>>

Submit(p) ==
    /\ feeder[p] = "submit" /\ Len(tasks[p]) < PoolCapacity
    /\ tasks' = [tasks EXCEPT ![p] = Append(@, held[p])]
    /\ held' = [held EXCEPT ![p] = NoFile] /\ feeder' = [feeder EXCEPT ![p] = "check"]
    /\ UNCHANGED <<world, control, watcher, worker, file, next, begun>>

-----------------------------------------------------------------------------
(* process(): a task that starts after stop() leaves its file claimed. *)
Begin(x) ==
    LET p == x[1]
    IN  /\ worker[x] = "idle" /\ tasks[p] # <<>>
        /\ tasks' = [tasks EXCEPT ![p] = Tail(@)]
        /\ IF stop[p] THEN UNCHANGED <<worker, file, begun>>
           ELSE /\ worker' = [worker EXCEPT ![x] = "resume"]
                /\ file' = [file EXCEPT ![x] = Head(tasks[p])]
                /\ begun' = [begun EXCEPT ![p] = @ \cup {Head(tasks[p])}]
        /\ UNCHANGED <<world, control, watcher, feed, next>>

(* m_sink.resume_at(source): records up to the mark are skipped. *)
FromTheMark(mark) == IF mark = 0 THEN 1 ELSE mark
SkipOne(mark) == mark + 2
FirstUnmarked(mark) == mark + 1

Excuses(f, S) ==
    excused' = [g \in Files |-> [b \in Batches |->
                    excused[g][b] + (IF g = f /\ b \in S THEN 1 ELSE 0)]]

Resume(x) ==
    LET f == file[x]
    IN  /\ worker[x] = "resume"
        /\ \/ next' = [next EXCEPT ![x] = FirstUnmarked(progress[f])] /\ UNCHANGED excused
           \/ /\ "resume" \in Faults
              /\ next' = [next EXCEPT ![x] = FirstUnmarked(0)] /\ Excuses(f, 1 .. progress[f])
        /\ worker' = [worker EXCEPT ![x] = "open"]
        /\ UNCHANGED <<dir, progress, counted, lost, late, control, watcher, feed, tasks, file, begun>>

(* FileSource maps the file; once mapped it can be read wherever it goes. *)
Open(x) ==
    /\ worker[x] = "open"
    /\ worker' = [worker EXCEPT ![x] =
           IF file[x] \in Bad \/ dir[file[x]] # "process" THEN "fail" ELSE "read"]
    /\ UNCHANGED <<world, control, watcher, feed, tasks, file, next, begun>>

Counts(f, b) == counted' = [counted EXCEPT ![f][b] = @ + 1]
Marks(f, b) == progress' = [progress EXCEPT ![f] = b]

(* The reply to EXEC is lost, or who waits for it is killed: the server may *)
(* have it before it yet, and nobody will ask.                              *)
MayLinger(f, b) == "late" \in Faults /\ late[f][b] < MaxLate
Lingers(S) ==
    late' = [f \in Files |-> [b \in Batches |->
                 late[f][b] + (IF <<f, b>> \in S THEN 1 ELSE 0)]]

(* consume() of the next batch; process() does not look at what it did. *)
Consume(x) ==
    LET f == file[x]
        b == next[x]
    IN  /\ worker[x] = "read" /\ b <= NBatches
        /\ \/ Counts(f, b) /\ Marks(f, b) /\ UNCHANGED <<lost, late, excused>>
           \/ /\ "unmarked" \in Faults /\ Counts(f, b) /\ Excuses(f, {b})
              /\ UNCHANGED <<progress, lost, late>>
           \/ /\ "lost" \in Faults /\ lost' = lost \cup {<<f, b>>}
              /\ UNCHANGED <<progress, counted, late, excused>>
           \/ /\ MayLinger(f, b) /\ Lingers({<<f, b>>}) /\ lost' = lost \cup {<<f, b>>}
              /\ UNCHANGED <<progress, counted, excused>>
        /\ next' = [next EXCEPT ![x] = b + 1]
        /\ UNCHANGED <<dir, control, watcher, feed, tasks, worker, file, begun>>

(* The server applies what was given up.  The mark it writes is that of its *)
(* own batch, also when a later one has been written: the mark goes back.   *)
LandsLate(f, b) ==
    /\ late[f][b] > 0 /\ late' = [late EXCEPT ![f][b] = @ - 1]
    /\ Counts(f, b)
    /\ \/ Marks(f, b) /\ Excuses(f, {b} \cup b .. progress[f])
       \/ "unmarked" \in Faults /\ UNCHANGED progress /\ Excuses(f, {b})
    /\ UNCHANGED <<dir, lost, control, watcher, feed, pool>>

(* dispose(): a drained file to done, one that could not be read to failed. *)
LastUnread(x) == worker[x] = "read" /\ next[x] >= NBatches
Drained(x) == worker[x] = "read" /\ next[x] > NBatches

Dispose(x) ==
    LET f == file[x]
    IN  /\ Drained(x) \/ worker[x] = "fail"
        /\ \/ /\ dir[f] = "process"
              /\ dir' = [dir EXCEPT ![f] = IF worker[x] = "read" THEN "done" ELSE "fail"]
           \/ /\ dir[f] # "process" \/ "rename" \in Faults
              /\ UNCHANGED dir
        /\ worker' = [worker EXCEPT ![x] = "idle"]
        /\ file' = [file EXCEPT ![x] = NoFile] /\ next' = [next EXCEPT ![x] = 0]
        /\ UNCHANGED <<store, control, watcher, feed, tasks, begun>>

-----------------------------------------------------------------------------
(* stop(): the flag, the wake, the feeder joined, the pool drained. *)
StopFlag(p) ==
    /\ main[p] = "running" /\ starts[p] < MaxStarts
    /\ main' = [main EXCEPT ![p] = "flagged"] /\ stop' = [stop EXCEPT ![p] = TRUE]
    /\ UNCHANGED <<world, starts, woken, watcher, feed, pool>>

WakeUnsent(p) ==
    /\ main[p] = "flagged" /\ main' = [main EXCEPT ![p] = "joining"]
    /\ UNCHANGED <<world, starts, stop, woken, watcher, feed, pool>>

Wake(p) ==
    /\ main[p] = "flagged"
    /\ main' = [main EXCEPT ![p] = "joining"] /\ woken' = [woken EXCEPT ![p] = TRUE]
    /\ UNCHANGED <<world, starts, stop, watcher, feed, pool>>

JoinFeeder(p) ==
    /\ main[p] = "joining" /\ feeder[p] = "ended"
    /\ main' = [main EXCEPT ![p] = "draining"]
    /\ UNCHANGED <<world, starts, stop, woken, watcher, feed, pool>>

QueueDrained(p) == tasks[p] = <<>>
PoolDrained(p) == tasks[p] = <<>> /\ \A x \in Workers : x[1] = p => worker[x] = "idle"

Exit(p) ==
    /\ main[p] = "draining" /\ PoolDrained(p)
    /\ main' = [main EXCEPT ![p] = "exited"]
    /\ Forget(p)
    /\ UNCHANGED <<world, starts, begun>>

(* kill -9, at any step.  A worker may be in the middle of consume().       *)
Writing(p) == {x \in Workers : x[1] = p /\ worker[x] = "read" /\ next[x] <= NBatches}

Crash(p) ==
    /\ main[p] \notin {"down", "exited"} /\ starts[p] < MaxStarts
    /\ main' = [main EXCEPT ![p] = "down"]
    /\ \E sent \in SUBSET {x \in Writing(p) : MayLinger(file[x], next[x])} :
           Lingers({<<file[x], next[x]>> : x \in sent})
    /\ Forget(p)
    /\ UNCHANGED <<dir, progress, counted, lost, excused, starts, begun>>

(* The last process waits for a delivery that never comes. *)
Idle(p) ==
    /\ main[p] = "running" /\ starts[p] = MaxStarts /\ In("absent") = {}
    /\ (Waiting(p) /\ events[p] = <<>>) \/ feeder[p] = "ended"
    /\ PoolDrained(p)
    /\ UNCHANGED vars

Sweeping(p) == EndSweep(p) \/ \E f \in Files : SweepTarget(p, f) \/ SweepSource(p, f)
Feeding(p) == FeedCheck(p) \/ NextFile(p) \/ Woken(p) \/ ReadEvents(p) \/ ClaimEvent(p) \/ Submit(p)
Working(x) == Begin(x) \/ Resume(x) \/ Open(x) \/ Consume(x) \/ Dispose(x)
Stopping(p) == Wake(p) \/ JoinFeeder(p) \/ Exit(p)

Next ==
    \/ \E f \in Files : Deliver(f)
    \/ \E p \in Procs : Boot(p) \/ Sweeping(p) \/ Feeding(p) \/ WatcherFails(p)
    \/ \E x \in Workers : Working(x)
    \/ \E f \in Files, b \in Batches : LandsLate(f, b)
    \/ \E p \in Procs : StopFlag(p) \/ Stopping(p) \/ Crash(p) \/ Idle(p)

Spec == Init /\ [][Next]_vars

(* A process that is down is started again, every thread of a process goes  *)
(* on.  Nobody has to deliver, to stop or to crash, and what was given up    *)
(* need never land.                                                         *)
Fairness ==
    /\ \A p \in Procs : WF_vars(Boot(p)) /\ WF_vars(Sweeping(p)) /\ WF_vars(Feeding(p)) /\ WF_vars(Stopping(p))
    /\ \A x \in Workers : WF_vars(Working(x))

FairSpec == Spec /\ Fairness
-----------------------------------------------------------------------------
TypeOK ==
    /\ dir \in [Files -> {"absent", "ready", "process", "done", "fail"}]
    /\ progress \in [Files -> 0 .. NBatches]
    /\ counted \in [Files -> [Batches -> Nat]]
    /\ lost \in SUBSET (Files \X Batches)
    /\ late \in [Files -> [Batches -> 0 .. MaxLate]]
    /\ excused \in [Files -> [Batches -> Nat]]
    /\ starts \in [Procs -> 0 .. MaxStarts]
    /\ main \in [Procs -> {"down", "target", "source", "running", "flagged", "joining",
                           "draining", "exited"}]
    /\ stop \in [Procs -> BOOLEAN] /\ woken \in [Procs -> BOOLEAN]
    /\ todo \in [Procs -> SUBSET Files]
    /\ events \in [Procs -> Seq(Files)] /\ burst \in [Procs -> Seq(Files)]
    /\ queue \in [Procs -> Seq(Files)]
    /\ feeder \in [Procs -> {"check", "next", "submit", "ended"}]
    /\ held \in [Procs -> Files \cup {NoFile}]
    /\ tasks \in [Procs -> Seq(Files)] /\ \A p \in Procs : Len(tasks[p]) <= PoolCapacity
    /\ worker \in [Workers -> {"idle", "resume", "open", "read", "fail"}]
    /\ file \in [Workers -> Files \cup {NoFile}]
    /\ next \in [Workers -> 0 .. NBatches + 1]
    /\ begun \in [Procs -> SUBSET Files]

(* A file is read again from its mark, after a kill on whichever step and   *)
(* however often: no batch is counted once more than the store made         *)
(* possible, by landing it without its mark, by not being there for         *)
(* resume_at(), or by applying late what was given up, which counts that    *)
(* batch and exposes those behind the mark that it sets back.               *)
RecountsAreExcused == \A f \in Files, b \in Batches : counted[f][b] <= 1 + excused[f][b]

(* docs/HL_Design.md:171: a run killed mid file resumes without counting    *)
(* anything twice.                                                          *)
CountedAtMostOnce == \A f \in Files, b \in Batches : counted[f][b] <= 1

(* Nothing is silently passed over: a batch behind the mark of its file, or *)
(* of a file in the done directory, was counted or its write was refused.   *)
NothingSkipped ==
    \A f \in Files, b \in Batches :
        b <= progress[f] \/ dir[f] = "done" => counted[f][b] > 0 \/ <<f, b>> \in lost

Occurs(f, s) == {i \in DOMAIN s : s[i] = f}

(* In how many places a process has a claimed file on its way. *)
Places(p, f) ==
    Cardinality(Occurs(f, queue[p])) + Cardinality(Occurs(f, tasks[p]))
      + (IF held[p] = f THEN 1 ELSE 0)
      + Cardinality({x \in Workers : x[1] = p /\ file[x] = f})

(* While a process ingests, it has forgotten no file: one in the ready      *)
(* directory has an event it will read, one it claimed is in exactly one    *)
(* place on its way to a worker.  It rests on the watch being set before    *)
(* the sweeps and on the sweeps covering both directories; where the kernel *)
(* drops events, files wait for the sweep of the next start.                *)
NothingForgotten ==
    \A p \in Procs, f \in Files : main[p] = "running" =>
        /\ dir[f] = "ready" /\ feeder[p] # "ended" /\ ~Overflows(p) =>
               Occurs(f, events[p]) # {} \/ Occurs(f, burst[p]) # {}
        /\ Places(p, f) = (IF dir[f] = "process" THEN 1 ELSE 0)

(* docs/DL_Design.md:138: stop() leaves no file half processed: what the    *)
(* workers of this run began has left the process directory.                *)
NoneHalfProcessed ==
    \A p \in Procs : main[p] = "exited" => \A f \in begun[p] : dir[f] \in {"done", "fail"}

(* docs/DL_Design.md:186: two processes cannot both win a file, and a file  *)
(* being worked on is invisible to a later watcher.                         *)
OneReader ==
    \A x, y \in Workers : x # y /\ file[x] = file[y] => file[x] = NoFile

(* A file that is in the ready directory and of which a process that may    *)
(* run on for ever knows nothing (dir_watcher.cpp:180).                     *)
Overlooked(p, f) ==
    /\ Overflows(p) /\ main[p] \in {"source", "running"}
    /\ f \notin todo[p] /\ Occurs(f, events[p]) = {} /\ Occurs(f, burst[p]) = {}

(* Every delivered file ends in done or failed, across crashes, stops and   *)
(* restarts, whatever moment it is delivered at; one whose event the kernel *)
(* dropped as soon as there is a stop or a crash, by the next start's sweep.*)
Settles == \A f \in Files :
    dir[f] = "ready" /\ (\A p \in Procs : ~Overlooked(p, f)) ~> dir[f] \in {"done", "fail"}

(* stop() returns, also with the feeder blocked on a full pool or on poll.  *)
StopReturns == \A p \in Procs : stop[p] ~> ~stop[p]
=============================================================================
