-------------------------- MODULE FileIngestProofs --------------------------
(***************************************************************************)
(* Theorems about FileIngest: for any number of processes, workers, files  *)
(* and batches, unless a theorem asks for less.                            *)
(***************************************************************************)
EXTENDS FileIngest, FiniteSetTheorems, TLAPS

-----------------------------------------------------------------------------
(* Type correctness. *)

(* Whoever is about to use a file has one. *)
Carrying ==
    /\ \A p \in Procs : feeder[p] = "submit" => held[p] \in Files
    /\ \A x \in Workers : worker[x] # "idle" => file[x] \in Files
    /\ \A x \in Workers : worker[x] \in {"open", "read"} => next[x] >= 1

TInv == TypeOK /\ Carrying

USE IngestAssumption

LEMMA Heads ==
    ASSUME NEW S, NEW s \in Seq(S), s # <<>>
    PROVE  Head(s) \in S /\ Tail(s) \in Seq(S) /\ Len(Tail(s)) = Len(s) - 1 /\ Len(s) \in Nat
OBVIOUS

LEMMA Capacity == PoolCapacity \in Nat /\ PoolCapacity > 0
<1>1. Cardinality(Readers) \in Nat /\ Cardinality(Readers) # 0
  BY FS_CardinalityType, FS_EmptySet
<1> QED
  BY <1>1 DEF PoolCapacity

LEMMA TypeInit == Init => TInv
<1> SUFFICES ASSUME Init PROVE TInv
  OBVIOUS
<1>1. <<>> \in Seq(Files) /\ Len(<<>>) = 0 /\ 0 \in 0 .. NBatches /\ 0 \in 0 .. NBatches + 1 /\ 0 \in 0 .. MaxStarts
  OBVIOUS
<1>2. TypeOK
  BY <1>1, Capacity DEF Init, TypeOK
<1>3. Carrying
  BY DEF Init, Carrying
<1> QED
  BY <1>2, <1>3 DEF TInv

(* What ends with its process. *)
LEMMA TypeForget ==
    ASSUME TInv, NEW p \in Procs, Forget(p)
    PROVE  /\ stop' \in [Procs -> BOOLEAN] /\ woken' \in [Procs -> BOOLEAN]
           /\ todo' \in [Procs -> SUBSET Files]
           /\ events' \in [Procs -> Seq(Files)] /\ burst' \in [Procs -> Seq(Files)]
           /\ queue' \in [Procs -> Seq(Files)]
           /\ feeder' \in [Procs -> {"check", "next", "submit", "ended"}]
           /\ held' \in [Procs -> Files \cup {NoFile}]
           /\ tasks' \in [Procs -> Seq(Files)] /\ (\A q \in Procs : Len(tasks'[q]) <= PoolCapacity)
           /\ worker' \in [Workers -> {"idle", "resume", "open", "read", "fail"}]
           /\ file' \in [Workers -> Files \cup {NoFile}]
           /\ next' \in [Workers -> 0 .. NBatches + 1]
           /\ Carrying'
<1>1. <<>> \in Seq(Files) /\ Len(<<>>) = 0
  OBVIOUS
<1>2. stop' \in [Procs -> BOOLEAN] /\ woken' \in [Procs -> BOOLEAN] /\ todo' \in [Procs -> SUBSET Files]
  BY DEF TInv, TypeOK, Forget
<1>3. /\ events' \in [Procs -> Seq(Files)] /\ burst' \in [Procs -> Seq(Files)] /\ queue' \in [Procs -> Seq(Files)]
  BY <1>1 DEF TInv, TypeOK, Forget
<1>4. /\ tasks' \in [Procs -> Seq(Files)] /\ (\A q \in Procs : Len(tasks'[q]) <= PoolCapacity)
  BY <1>1, Capacity DEF TInv, TypeOK, Forget
<1>5. /\ feeder' \in [Procs -> {"check", "next", "submit", "ended"}] /\ held' \in [Procs -> Files \cup {NoFile}]
      /\ \A q \in Procs : feeder'[q] = "submit" => held'[q] \in Files
  BY DEF TInv, TypeOK, Carrying, Forget
<1>6. /\ worker' \in [Workers -> {"idle", "resume", "open", "read", "fail"}]
      /\ file' \in [Workers -> Files \cup {NoFile}]
      /\ next' \in [Workers -> 0 .. NBatches + 1]
      /\ \A x \in Workers : worker'[x] # "idle" => file'[x] \in Files
      /\ \A x \in Workers : worker'[x] \in {"open", "read"} => next'[x] >= 1
  <2>1. 0 \in 0 .. NBatches + 1
    OBVIOUS
  <2> QED
    BY <2>1 DEF TInv, TypeOK, Carrying, Forget
<1> QED
  BY <1>2, <1>3, <1>4, <1>5, <1>6 DEF Carrying

LEMMA TypeClaim ==
    ASSUME TInv, NEW p \in Procs, NEW f \in Files, Claim(p, f)
    PROVE  /\ dir' \in [Files -> {"absent", "ready", "process", "done", "fail"}]
           /\ queue' \in [Procs -> Seq(Files)]
<1>1. queue[p] \in Seq(Files) /\ Append(queue[p], f) \in Seq(Files)
  <2>1. queue[p] \in Seq(Files)
    BY DEF TInv, TypeOK
  <2> QED
    BY <2>1
<1>2. /\ dir \in [Files -> {"absent", "ready", "process", "done", "fail"}]
      /\ queue \in [Procs -> Seq(Files)]
  BY DEF TInv, TypeOK
<1>3. CASE dir' = [dir EXCEPT ![f] = "process"] /\ queue' = [queue EXCEPT ![p] = Append(@, f)]
  BY <1>1, <1>2, <1>3
<1>4. CASE dir' = dir /\ queue' = queue
  BY <1>2, <1>4
<1> QED
  BY <1>3, <1>4 DEF Claim

(* The books about a transaction that was given up, or may be counted anew. *)
LEMMA TypeExcuses ==
    ASSUME TInv, NEW f, NEW S, Excuses(f, S)
    PROVE  excused' \in [Files -> [Batches -> Nat]]
<1>1. excused \in [Files -> [Batches -> Nat]]
  BY DEF TInv, TypeOK
<1>2. ASSUME NEW g \in Files, NEW b \in Batches
      PROVE  excused[g][b] + (IF g = f /\ b \in S THEN 1 ELSE 0) \in Nat
  BY <1>1
<1> QED
  BY <1>2 DEF Excuses

LEMMA TypeLingers ==
    ASSUME TInv, NEW S, Lingers(S), \A f \in Files, b \in Batches : <<f, b>> \in S => MayLinger(f, b)
    PROVE  late' \in [Files -> [Batches -> 0 .. MaxLate]]
<1>1. late \in [Files -> [Batches -> 0 .. MaxLate]]
  BY DEF TInv, TypeOK
<1>2. ASSUME NEW f \in Files, NEW b \in Batches
      PROVE  late[f][b] + (IF <<f, b>> \in S THEN 1 ELSE 0) \in 0 .. MaxLate
  <2>1. late[f][b] \in 0 .. MaxLate
    BY <1>1
  <2> QED
    BY <2>1 DEF MayLinger
<1> QED
  BY <1>2 DEF Lingers

LEMMA TypeCounts ==
    ASSUME TInv, NEW f \in Files, NEW b \in Batches, Counts(f, b)
    PROVE  counted' \in [Files -> [Batches -> Nat]]
<1>1. counted \in [Files -> [Batches -> Nat]]
  BY DEF TInv, TypeOK
<1>2. counted[f][b] + 1 \in Nat
  BY <1>1
<1> QED
  BY <1>1, <1>2 DEF Counts

LEMMA TypeNext == TInv /\ [Next]_vars => TInv'
<1> SUFFICES ASSUME TInv, [Next]_vars PROVE TInv'
  OBVIOUS
<1> USE DEF TInv, TypeOK, Carrying, world, store, control, watcher, feed, pool
<1>1. ASSUME NEW f \in Files, Deliver(f) PROVE TInv'
  <2>1. PICK told : events' = [p \in Procs |-> IF p \in told THEN Append(events[p], f) ELSE events[p]]
    BY <1>1 DEF Deliver
  <2>2. events' \in [Procs -> Seq(Files)]
    BY <2>1
  <2> QED
    BY <1>1, <2>2 DEF Deliver
<1>2. ASSUME NEW p \in Procs, Boot(p) PROVE TInv'
  <2>1. main' \in [Procs -> {"down", "target", "source", "running", "flagged", "joining", "draining", "exited"}]
    BY <1>2 DEF Boot
  <2>2. starts' \in [Procs -> 0 .. MaxStarts]
    BY <1>2 DEF Boot
  <2>3. todo' \in [Procs -> SUBSET Files] /\ begun' \in [Procs -> SUBSET Files]
    <3>1. In("process") \in SUBSET Files
      BY DEF In
    <3>2. /\ todo' = [todo EXCEPT ![p] = In("process")] \/ todo' = [todo EXCEPT ![p] = {}]
          /\ begun' = [begun EXCEPT ![p] = {}]
      BY <1>2 DEF Boot
    <3>3. todo' \in [Procs -> SUBSET Files]
      BY <3>1, <3>2
    <3> QED
      BY <3>2, <3>3
  <2>4. UNCHANGED <<world, stop, woken, events, burst, queue, feed, tasks, worker, file, next>>
    BY <1>2 DEF Boot
  <2> QED
    BY <2>1, <2>2, <2>3, <2>4
<1>3. ASSUME NEW p \in Procs, EndSweep(p) PROVE TInv'
  <2>1. CASE main[p] = "target" /\ main' = [main EXCEPT ![p] = "source"]
             /\ todo' = [todo EXCEPT ![p] = In("ready")] /\ feeder' = feeder
    <3>1. In("ready") \in SUBSET Files
      BY DEF In
    <3> QED
      BY <1>3, <2>1, <3>1 DEF EndSweep
  <2>2. CASE main' = [main EXCEPT ![p] = "running"]
             /\ feeder' = [feeder EXCEPT ![p] = "check"] /\ todo' = todo
    BY <1>3, <2>2 DEF EndSweep
  <2> QED
    BY <1>3, <2>1, <2>2 DEF EndSweep
<1>4. ASSUME NEW p \in Procs, FeedCheck(p) PROVE TInv'
  BY <1>4 DEF FeedCheck
<1>5. ASSUME NEW p \in Procs, NextFile(p) PROVE TInv'
  <2>1. queue[p] \in Seq(Files) /\ queue[p] # <<>>
    BY <1>5 DEF NextFile
  <2>2. Head(queue[p]) \in Files /\ Tail(queue[p]) \in Seq(Files)
    BY <2>1, Heads
  <2> QED
    BY <1>5, <2>1, <2>2 DEF NextFile
<1>6. ASSUME NEW p \in Procs, Woken(p) PROVE TInv'
  BY <1>6 DEF Woken, Waiting
<1>7. ASSUME NEW p \in Procs, ReadEvents(p) PROVE TInv'
  BY <1>7 DEF ReadEvents, Waiting
<1>8. ASSUME NEW p \in Procs, ClaimEvent(p) PROVE TInv'
  <2>1. burst[p] \in Seq(Files) /\ burst[p] # <<>>
    BY <1>8 DEF ClaimEvent
  <2>2. Head(burst[p]) \in Files /\ Tail(burst[p]) \in Seq(Files)
    BY <2>1, Heads
  <2>3. dir' \in [Files -> {"absent", "ready", "process", "done", "fail"}] /\ queue' \in [Procs -> Seq(Files)]
    BY <1>8, <2>2, TypeClaim DEF ClaimEvent
  <2> QED
    BY <1>8, <2>1, <2>2, <2>3 DEF ClaimEvent
<1>9. ASSUME NEW p \in Procs, WatcherFails(p) PROVE TInv'
  BY <1>9 DEF WatcherFails, Waiting
<1>10. ASSUME NEW p \in Procs, Submit(p) PROVE TInv'
  <2>1. held[p] \in Files /\ tasks[p] \in Seq(Files) /\ Len(tasks[p]) < PoolCapacity
    BY <1>10 DEF Submit
  <2>2. Append(tasks[p], held[p]) \in Seq(Files) /\ Len(Append(tasks[p], held[p])) <= PoolCapacity
    BY <2>1, Capacity
  <2>3. tasks' \in [Procs -> Seq(Files)] /\ \A q \in Procs : Len(tasks'[q]) <= PoolCapacity
    BY <1>10, <2>2 DEF Submit
  <2>4. feeder' \in [Procs -> {"check", "next", "submit", "ended"}] /\ held' \in [Procs -> Files \cup {NoFile}]
           /\ \A q \in Procs : feeder'[q] = "submit" => held'[q] \in Files
    BY <1>10 DEF Submit
  <2> QED
    BY <1>10, <2>1, <2>2, <2>3, <2>4 DEF Submit
<1>11. ASSUME NEW x \in Workers, Begin(x) PROVE TInv'
  <2>1. x[1] \in Procs
    BY DEF Workers
  <2>2. tasks[x[1]] \in Seq(Files) /\ tasks[x[1]] # <<>> /\ Len(tasks[x[1]]) <= PoolCapacity
    BY <1>11, <2>1 DEF Begin
  <2>3. /\ Head(tasks[x[1]]) \in Files /\ Tail(tasks[x[1]]) \in Seq(Files)
        /\ Len(Tail(tasks[x[1]])) <= PoolCapacity
    <3>1. Len(tasks[x[1]]) \in Nat /\ Len(Tail(tasks[x[1]])) = Len(tasks[x[1]]) - 1
      BY <2>2, Heads
    <3> QED
      BY <2>2, <3>1, Heads, Capacity
  <2>4. tasks' \in [Procs -> Seq(Files)] /\ \A q \in Procs : Len(tasks'[q]) <= PoolCapacity
    BY <1>11, <2>1, <2>3 DEF Begin
  <2>5. /\ worker' \in [Workers -> {"idle", "resume", "open", "read", "fail"}] /\ file' \in [Workers -> Files \cup {NoFile}]
        /\ \A y \in Workers : worker'[y] # "idle" => file'[y] \in Files
    <3>1. CASE worker' = worker /\ file' = file
      BY <3>1 DEF TInv, TypeOK, Carrying
    <3>2. CASE worker' = [worker EXCEPT ![x] = "resume"] /\ file' = [file EXCEPT ![x] = Head(tasks[x[1]])]
      BY <2>3, <3>2 DEF TInv, TypeOK, Carrying
    <3> QED
      BY <1>11, <3>1, <3>2 DEF Begin
  <2>6. begun' \in [Procs -> SUBSET Files]
    <3>1. CASE begun' = begun
      BY <3>1 DEF TInv
    <3>2. CASE begun' = [begun EXCEPT ![x[1]] = @ \cup {Head(tasks[x[1]])}]
      BY <2>1, <2>3, <3>2 DEF TInv
    <3> QED
      BY <1>11, <3>1, <3>2 DEF Begin
  <2> QED
    BY <1>11, <2>1, <2>2, <2>3, <2>4, <2>5, <2>6 DEF Begin
<1>12. ASSUME NEW x \in Workers, Resume(x) PROVE TInv'
  <2>1. file[x] \in Files
    BY <1>12 DEF Resume
  <2>2. PICK mark \in 0 .. NBatches : next' = [next EXCEPT ![x] = mark + 1]
    <3>1. progress[file[x]] \in 0 .. NBatches /\ 0 \in 0 .. NBatches
      BY <2>1
    <3> QED
      BY <1>12, <3>1 DEF Resume, FirstUnmarked
  <2>3. mark + 1 \in 0 .. NBatches + 1 /\ mark + 1 >= 1
    OBVIOUS
  <2>4. next' \in [Workers -> 0 .. NBatches + 1] /\ \A y \in Workers : worker'[y] \in {"open", "read"} => next'[y] >= 1
    BY <1>12, <2>2, <2>3 DEF Resume
  <2>5. excused' \in [Files -> [Batches -> Nat]]
    <3> HIDE DEF TInv, TypeOK, Carrying
    <3>1. excused' = excused \/ Excuses(file[x], 1 .. progress[file[x]])
      BY <1>12 DEF Resume
    <3> QED
      BY <3>1, TypeExcuses DEF TInv, TypeOK
  <2>6. worker' = [worker EXCEPT ![x] = "open"] /\ worker[x] = "resume"
    BY <1>12 DEF Resume
  <2>7. /\ dir' = dir /\ progress' = progress /\ counted' = counted /\ lost' = lost /\ late' = late
        /\ UNCHANGED <<control, watcher, feed, tasks, file, begun>>
    BY <1>12 DEF Resume
  <2> QED
    BY <2>4, <2>5, <2>6, <2>7
<1>13. ASSUME NEW x \in Workers, Open(x) PROVE TInv'
  BY <1>13 DEF Open
<1>14. ASSUME NEW x \in Workers, Consume(x) PROVE TInv'
  <2>1. file[x] \in Files /\ next[x] \in Batches /\ next[x] + 1 \in 0 .. NBatches + 1 /\ next[x] \in 0 .. NBatches
    <3>1. file[x] \in Files /\ next[x] <= NBatches
      BY <1>14 DEF Consume
    <3>2. next[x] \in 0 .. NBatches + 1 /\ next[x] >= 1
      BY <1>14 DEF Consume
    <3> QED
      BY <3>1, <3>2 DEF Batches
  <2>2. counted' \in [Files -> [Batches -> Nat]] /\ excused' \in [Files -> [Batches -> Nat]]
    <3> HIDE DEF TInv, TypeOK, Carrying
    <3>1. /\ counted' = counted \/ Counts(file[x], next[x])
          /\ excused' = excused \/ Excuses(file[x], {next[x]})
      BY <1>14 DEF Consume
    <3> QED
      BY <2>1, <3>1, TypeCounts, TypeExcuses DEF TInv, TypeOK
  <2>3. progress' \in [Files -> 0 .. NBatches] /\ lost' \in SUBSET (Files \X Batches)
    <3>1. /\ progress' = progress \/ progress' = [progress EXCEPT ![file[x]] = next[x]]
          /\ lost' = lost \/ lost' = lost \cup {<<file[x], next[x]>>}
      BY <1>14 DEF Consume, Marks
    <3>2. progress' \in [Files -> 0 .. NBatches]
      BY <2>1, <3>1
    <3>3. lost' \in SUBSET (Files \X Batches)
      <4>1. lost \in SUBSET (Files \X Batches) /\ <<file[x], next[x]>> \in Files \X Batches
        BY <2>1
      <4> QED
        BY <3>1, <4>1
    <3> QED
      BY <3>2, <3>3
  <2>5. late' \in [Files -> [Batches -> 0 .. MaxLate]]
    <3> HIDE DEF TInv, TypeOK, Carrying
    <3>1. late' = late \/ (MayLinger(file[x], next[x]) /\ Lingers({<<file[x], next[x]>>}))
      BY <1>14 DEF Consume
    <3>2. \A f, b : <<f, b>> \in {<<file[x], next[x]>>} => f = file[x] /\ b = next[x]
      OBVIOUS
    <3> QED
      BY <3>1, <3>2, TypeLingers DEF TInv, TypeOK
  <2>4. next' \in [Workers -> 0 .. NBatches + 1]
    BY <1>14, <2>1 DEF Consume
  <2>6. /\ UNCHANGED <<dir, control, watcher, feed, tasks, worker, file, begun>>
        /\ worker[x] = "read" /\ next' = [next EXCEPT ![x] = next[x] + 1]
    BY <1>14 DEF Consume
  <2>7. \A y \in Workers : worker'[y] \in {"open", "read"} => next'[y] >= 1
    BY <2>1, <2>6
  <2> QED
    BY <2>2, <2>3, <2>4, <2>5, <2>6, <2>7
<1>15. ASSUME NEW x \in Workers, Dispose(x) PROVE TInv'
  <2>1. file[x] \in Files
    BY <1>15 DEF Dispose, Drained
  <2>2. dir' \in [Files -> {"absent", "ready", "process", "done", "fail"}]
    <3>1. PICK d \in {"done", "fail"} : dir' = dir \/ dir' = [dir EXCEPT ![file[x]] = d]
      <4>1. (IF worker[x] = "read" THEN "done" ELSE "fail") \in {"done", "fail"}
        OBVIOUS
      <4> QED
        BY <1>15, <4>1 DEF Dispose
    <3> QED
      BY <2>1, <3>1 DEF TInv
  <2>3. /\ worker' \in [Workers -> {"idle", "resume", "open", "read", "fail"}] /\ file' \in [Workers -> Files \cup {NoFile}]
        /\ \A y \in Workers : worker'[y] # "idle" => file'[y] \in Files
    BY <1>15 DEF Dispose
  <2>4. next' \in [Workers -> 0 .. NBatches + 1]
    BY <1>15 DEF Dispose
  <2> QED
    BY <1>15, <2>1, <2>2, <2>3, <2>4 DEF Dispose
<1>16. ASSUME NEW p \in Procs, StopFlag(p) PROVE TInv'
  BY <1>16 DEF StopFlag
<1>17. ASSUME NEW p \in Procs, Wake(p) PROVE TInv'
  BY <1>17 DEF Wake
<1>18. ASSUME NEW p \in Procs, JoinFeeder(p) PROVE TInv'
  BY <1>18 DEF JoinFeeder
<1>19. ASSUME NEW p \in Procs, Exit(p) PROVE TInv'
  BY <1>19, TypeForget DEF Exit
<1>20. ASSUME NEW p \in Procs, Crash(p) PROVE TInv'
  <2>1. late' \in [Files -> [Batches -> 0 .. MaxLate]]
    <3> HIDE DEF TInv, TypeOK, Carrying
    <3>1. PICK sent \in SUBSET {x \in Writing(p) : MayLinger(file[x], next[x])} :
              Lingers({<<file[x], next[x]>> : x \in sent})
      BY <1>20 DEF Crash
    <3>2. \A f, b : <<f, b>> \in {<<file[x], next[x]>> : x \in sent} => MayLinger(f, b)
      OBVIOUS
    <3> QED
      BY <3>1, <3>2, TypeLingers
  <2> QED
    BY <1>20, <2>1, TypeForget DEF Crash
<1>26. ASSUME NEW f \in Files, NEW b \in Batches, LandsLate(f, b) PROVE TInv'
  <2>1. counted' \in [Files -> [Batches -> Nat]] /\ excused' \in [Files -> [Batches -> Nat]]
    <3> HIDE DEF TInv, TypeOK, Carrying
    <3>1. PICK S : Counts(f, b) /\ Excuses(f, S)
      BY <1>26 DEF LandsLate
    <3> QED
      BY <3>1, TypeCounts, TypeExcuses
  <2>2. progress' \in [Files -> 0 .. NBatches]
    <3>1. progress' = progress \/ progress' = [progress EXCEPT ![f] = b]
      BY <1>26 DEF LandsLate, Marks
    <3>2. b \in 0 .. NBatches
      BY DEF Batches
    <3>3. progress \in [Files -> 0 .. NBatches]
      BY DEF TInv, TypeOK
    <3> QED
      BY <3>1, <3>2, <3>3
  <2>3. late' \in [Files -> [Batches -> 0 .. MaxLate]]
    <3>1. late[f][b] \in 0 .. MaxLate /\ late[f][b] > 0
      BY <1>26 DEF LandsLate
    <3>2. late[f][b] - 1 \in 0 .. MaxLate
      BY <3>1
    <3> QED
      BY <1>26, <3>2 DEF LandsLate
  <2>4. UNCHANGED <<dir, lost, control, watcher, feed, pool>>
    BY <1>26 DEF LandsLate
  <2>5. UNCHANGED <<dir, lost, starts, main, stop, woken, todo, events, burst, queue, feeder, held,
                    tasks, worker, file, next, begun>>
    BY <2>4
  <2>6. TypeOK'
    BY <2>1, <2>2, <2>3, <2>5
  <2>7. Carrying'
    BY <2>5
  <2> QED
    BY <2>6, <2>7
<1>21. ASSUME NEW p \in Procs, NEW f \in Files, SweepTarget(p, f) PROVE TInv'
  <2>1. queue' \in [Procs -> Seq(Files)] /\ todo' \in [Procs -> SUBSET Files]
    <3>1. queue[p] \in Seq(Files)
      OBVIOUS
    <3>2. Append(queue[p], f) \in Seq(Files)
      BY <3>1
    <3> QED
      BY <1>21, <3>2 DEF SweepTarget
  <2> QED
    BY <1>21, <2>1 DEF SweepTarget
<1>22. ASSUME NEW p \in Procs, NEW f \in Files, SweepSource(p, f) PROVE TInv'
  <2>1. dir' \in [Files -> {"absent", "ready", "process", "done", "fail"}] /\ queue' \in [Procs -> Seq(Files)]
    BY <1>22, TypeClaim DEF SweepSource
  <2>2. todo' \in [Procs -> SUBSET Files]
    BY <1>22 DEF SweepSource
  <2> QED
    BY <1>22, <2>1, <2>2 DEF SweepSource
<1>23. CASE UNCHANGED vars
  BY <1>23 DEF vars
<1> HIDE DEF TInv
<1>24. ASSUME NEW p \in Procs, Sweeping(p) \/ Feeding(p) \/ Stopping(p) PROVE TInv'
  BY <1>3, <1>4, <1>5, <1>6, <1>7, <1>8, <1>10, <1>17, <1>18, <1>19, <1>21, <1>22, <1>24
     DEF Sweeping, Feeding, Stopping
<1>25. ASSUME NEW x \in Workers, Working(x) PROVE TInv'
  BY <1>11, <1>12, <1>13, <1>14, <1>15, <1>25 DEF Working
<1> QED
  BY <1>1, <1>2, <1>9, <1>16, <1>20, <1>23, <1>24, <1>25, <1>26 DEF Next, Idle

LEMMA TypeAlways == Spec => []TInv
BY TypeInit, TypeNext, PTL DEF Spec

(* FileIngestor and DirWatcher: a name is handed on only where there is     *)
(* one, the task queue stays within its slots, and a worker reads on only   *)
(* to the end of its file.                                                  *)
THEOREM FileTypeCorrect == Spec => []TypeOK
<1>1. TInv => TypeOK
  BY DEF TInv
<1> QED
  BY <1>1, TypeAlways, PTL

-----------------------------------------------------------------------------
(* Nothing is passed over. *)

Handled(f, b) == counted[f][b] > 0 \/ <<f, b>> \in lost

(* The same, once the step is done. *)
After(f, b) == counted'[f][b] > 0 \/ <<f, b>> \in lost'

BehindTheMark == \A f \in Files, b \in Batches : b <= progress[f] => Handled(f, b)
AllOfDone == \A f \in Files, b \in Batches : dir[f] = "done" => Handled(f, b)

(* Behind a worker there is nothing left, wherever it started to read.      *)
BehindWorkers ==
    \A x \in Workers, b \in Batches :
        worker[x] \in {"open", "read"} /\ b < next[x] => Handled(file[x], b)

(* What lands late moves the mark to its batch: nothing is left behind it.  *)
BehindLate ==
    \A f \in Files, b, c \in Batches : late[f][b] > 0 /\ c < b => Handled(f, c)

SInv == BehindTheMark /\ AllOfDone /\ BehindWorkers /\ BehindLate

LEMMA SkipInit == Init => SInv
<1> SUFFICES ASSUME Init PROVE SInv
  OBVIOUS
<1>1. /\ \A f \in Files : progress[f] = 0 /\ dir[f] # "done"
      /\ \A x \in Workers : worker[x] = "idle"
  BY DEF Init
<1>2. \A b \in Batches : ~(b <= 0)
  BY DEF Batches
<1>3. \A f \in Files, b \in Batches : late[f][b] = 0
  BY DEF Init
<1> QED
  BY <1>1, <1>2, <1>3 DEF SInv, BehindTheMark, AllOfDone, BehindWorkers, BehindLate

(* The steps that count nothing, finish nothing and start no reading. *)
Apart == UNCHANGED <<progress, counted, lost, excused>>
NoneDone == \A f \in Files : dir'[f] = "done" => dir[f] = "done"
NoneReads ==
    \A x \in Workers : worker'[x] \in {"open", "read"} =>
        worker[x] \in {"open", "read"} /\ file'[x] = file[x] /\ next'[x] = next[x]

(* What is given up is what a worker was about to write.                    *)
GivenUp ==
    \A f \in Files, b \in Batches : late'[f][b] > 0 =>
        late[f][b] > 0 \/ \E x \in Workers : worker[x] = "read" /\ file[x] = f /\ next[x] = b

LEMMA SkipGivenUp ==
    ASSUME SInv, GivenUp, \A f \in Files, b \in Batches : Handled(f, b) => After(f, b)
    PROVE  BehindLate'
<1> SUFFICES ASSUME NEW f \in Files, NEW b \in Batches, NEW c \in Batches, late'[f][b] > 0, c < b
             PROVE  After(f, c)
  BY DEF BehindLate, Handled, After
<1>1. CASE late[f][b] > 0
  BY <1>1 DEF SInv, BehindLate
<1>2. ASSUME NEW x \in Workers, worker[x] = "read", file[x] = f, next[x] = b PROVE After(f, c)
  BY <1>2 DEF SInv, BehindWorkers
<1> QED
  BY <1>1, <1>2 DEF GivenUp

LEMMA SkipApart ==
    ASSUME SInv, Apart, NoneDone, NoneReads, GivenUp
    PROVE  SInv'
<1>1. \A f, b : Handled(f, b)' <=> Handled(f, b)
  BY DEF Apart, Handled
<1>2. BehindTheMark'
  BY <1>1 DEF SInv, BehindTheMark, Apart
<1>3. AllOfDone'
  BY <1>1 DEF SInv, AllOfDone, NoneDone
<1>4. BehindWorkers'
  BY <1>1 DEF SInv, BehindWorkers, NoneReads
<1>5. BehindLate'
  <2>1. \A f \in Files, b \in Batches : Handled(f, b) => After(f, b)
    BY <1>1 DEF Handled, After
  <2> QED
    BY <2>1, SkipGivenUp
<1> QED
  BY <1>2, <1>3, <1>4, <1>5 DEF SInv

LEMMA ClaimIsNoEnd ==
    ASSUME TInv, NEW p \in Procs, NEW f \in Files, Claim(p, f)
    PROVE  NoneDone
BY DEF TInv, TypeOK, Claim, NoneDone

LEMMA ForgetReadsNot ==
    ASSUME TInv, NEW p \in Procs, Forget(p)
    PROVE  NoneReads
BY DEF TInv, TypeOK, Forget, NoneReads

LEMMA OutsideWorkers ==
    ASSUME TInv, [Next]_vars, \A x \in Workers : ~Working(x),
           \A f \in Files, b \in Batches : ~LandsLate(f, b)
    PROVE  Apart /\ NoneDone /\ NoneReads /\ GivenUp
<1> DEFINE Goal == Apart /\ NoneDone /\ NoneReads /\ GivenUp
<1> USE DEF world, store, control, watcher, feed, pool
<1>1. ASSUME NEW f \in Files, Deliver(f) PROVE Goal
  BY <1>1 DEF TInv, TypeOK, Deliver, Apart, NoneDone, NoneReads, GivenUp
<1>2. ASSUME NEW p \in Procs, Boot(p) PROVE Goal
  BY <1>2 DEF Boot, Apart, NoneDone, NoneReads, GivenUp
<1>3. ASSUME NEW p \in Procs, EndSweep(p) PROVE Goal
  BY <1>3 DEF EndSweep, Apart, NoneDone, NoneReads, GivenUp
<1>4. ASSUME NEW p \in Procs, NEW f \in Files, SweepTarget(p, f) PROVE Goal
  BY <1>4 DEF SweepTarget, Apart, NoneDone, NoneReads, GivenUp
<1>5. ASSUME NEW p \in Procs, NEW f \in Files, SweepSource(p, f) PROVE Goal
  BY <1>5, ClaimIsNoEnd DEF SweepSource, Apart, NoneReads, GivenUp
<1>6. ASSUME NEW p \in Procs, FeedCheck(p) \/ NextFile(p) \/ Woken(p) \/ ReadEvents(p) \/ Submit(p) PROVE Goal
  BY <1>6 DEF FeedCheck, NextFile, Woken, ReadEvents, Submit, Apart, NoneDone, NoneReads, GivenUp
<1>7. ASSUME NEW p \in Procs, ClaimEvent(p) PROVE Goal
  <2>1. burst[p] \in Seq(Files) /\ burst[p] # <<>>
    BY <1>7 DEF ClaimEvent, TInv, TypeOK
  <2>2. Head(burst[p]) \in Files
    BY <2>1, Heads
  <2>3. NoneDone
    BY <1>7, <2>2, ClaimIsNoEnd DEF ClaimEvent
  <2> QED
    BY <1>7, <2>3 DEF ClaimEvent, Apart, NoneReads, GivenUp
<1>8. ASSUME NEW p \in Procs, WatcherFails(p) \/ StopFlag(p) \/ Wake(p) \/ JoinFeeder(p) PROVE Goal
  BY <1>8 DEF WatcherFails, StopFlag, Wake, JoinFeeder, Apart, NoneDone, NoneReads, GivenUp
<1>9. ASSUME NEW p \in Procs, Exit(p) \/ Crash(p) PROVE Goal
  <2>1. Apart /\ NoneDone /\ NoneReads
    BY <1>9, ForgetReadsNot DEF Exit, Crash, Apart, NoneDone
  <2>2. CASE Exit(p)
    BY <2>1, <2>2 DEF Exit, GivenUp
  <2>3. CASE Crash(p)
    <3>1. PICK sent \in SUBSET Writing(p) : Lingers({<<file[x], next[x]>> : x \in sent})
      BY <2>3 DEF Crash
    <3>2. \A f, b : <<f, b>> \in {<<file[x], next[x]>> : x \in sent} =>
              \E x \in Workers : worker[x] = "read" /\ file[x] = f /\ next[x] = b
      BY DEF Writing
    <3>3. ASSUME NEW f \in Files, NEW b \in Batches, <<f, b>> \notin {<<file[x], next[x]>> : x \in sent}
          PROVE  late'[f][b] = late[f][b]
      <4>1. late[f][b] \in Nat
        BY DEF TInv, TypeOK
      <4> QED
        BY <3>1, <3>3, <4>1 DEF Lingers
    <3> QED
      BY <2>1, <3>2, <3>3 DEF GivenUp
  <2> QED
    BY <1>9, <2>2, <2>3
<1>10. ASSUME UNCHANGED vars PROVE Goal
  BY <1>10 DEF vars, Apart, NoneDone, NoneReads, GivenUp
<1> HIDE DEF Goal
<1>11. ASSUME NEW p \in Procs, Sweeping(p) \/ Feeding(p) \/ Stopping(p) PROVE Goal
  BY <1>3, <1>4, <1>5, <1>6, <1>7, <1>8, <1>9, <1>11 DEF Sweeping, Feeding, Stopping
<1>12. ASSUME NEW p \in Procs, Idle(p) PROVE Goal
  BY <1>10, <1>12 DEF Idle
<1>13. Goal
  BY <1>1, <1>2, <1>8, <1>9, <1>10, <1>11, <1>12 DEF Next
<1> QED
  BY <1>13 DEF Goal

(* Nobody but a kill gives up what no worker gives up. *)
LEMMA LateStays ==
    ASSUME [Next]_vars, \A x \in Workers : ~Working(x), \A p \in Procs : ~Crash(p),
           \A f \in Files, b \in Batches : ~LandsLate(f, b)
    PROVE  late' = late
BY DEF Next, Deliver, Boot, Sweeping, EndSweep, SweepTarget, SweepSource, Feeding, FeedCheck, NextFile,
       Woken, ReadEvents, ClaimEvent, Submit, WatcherFails, StopFlag, Stopping, Wake, JoinFeeder, Exit,
       Idle, vars, world, store

LEMMA SkipBeginOpen ==
    ASSUME TInv, NEW x \in Workers, Begin(x) \/ Open(x)
    PROVE  Apart /\ NoneDone /\ NoneReads /\ GivenUp
<1>1. CASE Begin(x)
  <2>1. Apart /\ NoneDone /\ GivenUp
    BY <1>1 DEF Begin, Apart, NoneDone, GivenUp, world, store
  <2>2. CASE worker' = worker /\ file' = file
    BY <1>1, <2>1, <2>2 DEF Begin, NoneReads
  <2>3. CASE worker' = [worker EXCEPT ![x] = "resume"] /\ file' = [file EXCEPT ![x] = Head(tasks[x[1]])]
    <3>1. worker \in [Workers -> {"idle", "resume", "open", "read", "fail"}] /\ file \in [Workers -> Files \cup {NoFile}]
      BY DEF TInv, TypeOK
    <3>2. next' = next
      BY <1>1 DEF Begin
    <3>3. NoneReads
      BY <2>3, <3>1, <3>2 DEF NoneReads
    <3> QED
      BY <2>1, <3>3
  <2> QED
    BY <1>1, <2>2, <2>3 DEF Begin
<1>2. CASE Open(x)
  BY <1>2 DEF TInv, TypeOK, Open, Apart, NoneDone, NoneReads, GivenUp, world, store
<1> QED
  BY <1>1, <1>2

LEMMA SkipResume ==
    ASSUME TInv, SInv, NEW x \in Workers, Resume(x)
    PROVE  SInv'
<1>1. /\ dir' = dir /\ progress' = progress /\ counted' = counted /\ lost' = lost /\ file' = file
      /\ late' = late /\ worker' = [worker EXCEPT ![x] = "open"]
  BY DEF Resume
<1>2. PICK mark \in {progress[file[x]], 0} : next' = [next EXCEPT ![x] = mark + 1]
  BY DEF Resume, FirstUnmarked
<1>3. file[x] \in Files /\ progress[file[x]] \in Nat /\ mark \in Nat /\ mark <= progress[file[x]]
  <2>1. file[x] \in Files
    BY DEF Resume, TInv, Carrying
  <2>2. progress[file[x]] \in 0 .. NBatches
    BY <2>1 DEF TInv, TypeOK
  <2> QED
    BY <1>2, <2>1, <2>2
<1>4. \A f, b : After(f, b) <=> Handled(f, b)
  BY <1>1 DEF Handled, After
<1>5. ASSUME NEW y \in Workers, NEW b \in Batches, worker'[y] \in {"open", "read"}, b < next'[y]
      PROVE  After(file'[y], b)
  <2>1. CASE y = x
    <3>1. b \in Nat /\ next'[y] = mark + 1
      BY <1>2, <2>1 DEF TInv, TypeOK, Batches
    <3>2. b <= progress[file[x]]
      BY <1>3, <1>5, <3>1
    <3> QED
      BY <1>1, <1>3, <1>4, <2>1, <3>2 DEF SInv, BehindTheMark
  <2>2. CASE y # x
    <3>1. worker'[y] = worker[y] /\ next'[y] = next[y]
      BY <1>1, <1>2, <2>2 DEF TInv, TypeOK
    <3> QED
      BY <1>1, <1>4, <1>5, <3>1 DEF SInv, BehindWorkers
  <2> QED
    BY <2>1, <2>2
<1>6. BehindTheMark' /\ AllOfDone' /\ BehindLate'
  BY <1>1, <1>4 DEF SInv, BehindTheMark, AllOfDone, BehindLate, Handled, After
<1> QED
  BY <1>5, <1>6 DEF SInv, BehindWorkers, Handled, After

LEMMA SkipConsume ==
    ASSUME TInv, SInv, NEW x \in Workers, Consume(x)
    PROVE  SInv'
<1> DEFINE f == file[x]
           b == next[x]
<1>1. /\ dir' = dir /\ file' = file /\ worker' = worker /\ worker[x] = "read"
      /\ next' = [next EXCEPT ![x] = b + 1] /\ b <= NBatches
  BY DEF Consume
<1>2. f \in Files /\ b \in Batches /\ b \in Nat
  <2>1. b \in 0 .. NBatches + 1 /\ b >= 1 /\ f \in Files
    BY <1>1 DEF TInv, TypeOK, Carrying
  <2> QED
    BY <1>1, <2>1 DEF Batches
<1>3. /\ \/ counted' = [counted EXCEPT ![f][b] = @ + 1] /\ lost' = lost
         \/ counted' = counted /\ lost' = lost \cup {<<f, b>>}
      /\ progress' = [progress EXCEPT ![f] = b] \/ progress' = progress
      /\ late' = late \/ Lingers({<<f, b>>})
  BY DEF Consume, Counts, Marks
<1>4. counted \in [Files -> [Batches -> Nat]] /\ progress \in [Files -> 0 .. NBatches]
  BY DEF TInv, TypeOK
<1> HIDE DEF f, b
<1>5. After(f, b)
  <2>1. CASE counted' = [counted EXCEPT ![f][b] = @ + 1]
    <3>1. counted'[f][b] = counted[f][b] + 1 /\ counted[f][b] \in Nat
      BY <1>2, <1>4, <2>1
    <3> QED
      BY <3>1 DEF After
  <2>2. CASE lost' = lost \cup {<<f, b>>}
    BY <2>2 DEF After
  <2> QED
    BY <1>3, <2>1, <2>2
<1>6. \A g \in Files, c \in Batches : Handled(g, c) => After(g, c)
  <2>1. ASSUME NEW g \in Files, NEW c \in Batches PROVE counted'[g][c] >= counted[g][c] /\ lost \subseteq lost'
    <3>1. CASE counted' = [counted EXCEPT ![f][b] = @ + 1] /\ lost' = lost
      BY <1>2, <1>4, <3>1
    <3>2. CASE counted' = counted /\ lost' = lost \cup {<<f, b>>}
      BY <1>4, <3>2
    <3> QED
      BY <1>3, <3>1, <3>2
  <2>2. \A g \in Files, c \in Batches : counted[g][c] \in Nat /\ counted'[g][c] \in Nat
    BY <1>2, <1>3, <1>4
  <2> QED
    BY <2>1, <2>2 DEF Handled, After
<1>7. \A c \in Batches : c < b => After(f, c)
  BY <1>1, <1>2, <1>6 DEF SInv, BehindWorkers, f, b
<1>8. \A c \in Batches : c <= b => After(f, c)
  <2>1. \A c \in Batches : c \in Nat
    BY DEF Batches
  <2> QED
    BY <1>2, <1>5, <1>7, <2>1
<1>9. BehindTheMark'
  <2> SUFFICES ASSUME NEW g \in Files, NEW c \in Batches, c <= progress'[g] PROVE After(g, c)
    BY DEF BehindTheMark, Handled, After
  <2>1. CASE progress'[g] = progress[g]
    BY <1>6, <2>1 DEF SInv, BehindTheMark
  <2>2. CASE g = f /\ progress'[g] = b
    BY <1>8, <2>2
  <2> QED
    BY <1>2, <1>3, <1>4, <2>1, <2>2
<1>10. AllOfDone'
  BY <1>1, <1>6 DEF SInv, AllOfDone, Handled, After
<1>11. BehindWorkers'
  <2> SUFFICES ASSUME NEW y \in Workers, NEW c \in Batches, worker'[y] \in {"open", "read"}, c < next'[y]
               PROVE  After(file'[y], c)
    BY DEF BehindWorkers, Handled, After
  <2>1. CASE y = x
    <3>1. next'[y] = b + 1 /\ c \in Nat /\ file'[y] = f
      BY <1>1, <2>1 DEF TInv, TypeOK, Batches, f
    <3>2. c <= b
      BY <1>2, <3>1
    <3> QED
      BY <1>8, <3>1, <3>2
  <2>2. CASE y # x
    <3>1. next'[y] = next[y] /\ worker'[y] = worker[y] /\ file'[y] = file[y] /\ file[y] \in Files
      BY <1>1, <2>2 DEF TInv, TypeOK, Carrying
    <3> QED
      BY <1>6, <3>1 DEF SInv, BehindWorkers
  <2> QED
    BY <2>1, <2>2
<1>12. BehindLate'
  <2>1. ASSUME NEW g \in Files, NEW c \in Batches, <<g, c>> # <<f, b>> PROVE late'[g][c] = late[g][c]
    <3>1. late[g][c] \in Nat
      BY DEF TInv, TypeOK
    <3> QED
      BY <1>3, <2>1, <3>1 DEF Lingers
  <2>2. \A g, c : <<g, c>> = <<f, b>> => worker[x] = "read" /\ file[x] = g /\ next[x] = c
    BY <1>1 DEF f, b
  <2>3. GivenUp
    BY <2>1, <2>2 DEF GivenUp
  <2> QED
    BY <1>6, <2>3, SkipGivenUp
<1> QED
  BY <1>9, <1>10, <1>11, <1>12 DEF SInv

LEMMA SkipDispose ==
    ASSUME TInv, SInv, NEW x \in Workers, Dispose(x)
    PROVE  SInv'
<1>1. /\ progress' = progress /\ counted' = counted /\ lost' = lost /\ late' = late
      /\ worker' = [worker EXCEPT ![x] = "idle"] /\ file' = [file EXCEPT ![x] = NoFile]
      /\ next' = [next EXCEPT ![x] = 0]
      /\ Drained(x) \/ worker[x] = "fail"
      /\ \/ dir' = [dir EXCEPT ![file[x]] = IF worker[x] = "read" THEN "done" ELSE "fail"]
         \/ dir' = dir
  BY DEF Dispose, store
<1>2. \A f, b : After(f, b) <=> Handled(f, b)
  BY <1>1 DEF Handled, After
<1>3. \A f \in Files : dir'[f] = "done" => dir[f] = "done" \/ (f = file[x] /\ Drained(x))
  <2>1. CASE dir' = dir
    BY <2>1
  <2>2. CASE worker[x] = "read" /\ dir' = [dir EXCEPT ![file[x]] = "done"]
    BY <1>1, <2>2 DEF TInv, TypeOK, Drained
  <2>3. CASE worker[x] # "read" /\ dir' = [dir EXCEPT ![file[x]] = "fail"]
    BY <2>3 DEF TInv, TypeOK
  <2> QED
    BY <1>1, <2>1, <2>2, <2>3
<1>4. ASSUME Drained(x), NEW b \in Batches PROVE Handled(file[x], b)
  <2>1. next[x] \in 0 .. NBatches + 1 /\ next[x] > NBatches /\ worker[x] = "read" /\ b \in 1 .. NBatches
    BY <1>4 DEF TInv, TypeOK, Drained, Batches
  <2>2. b < next[x]
    BY <2>1
  <2> QED
    BY <2>1, <2>2 DEF SInv, BehindWorkers
<1>5. AllOfDone'
  BY <1>2, <1>3, <1>4 DEF SInv, AllOfDone, Handled, After
<1>6. BehindTheMark' /\ BehindLate'
  BY <1>1, <1>2 DEF SInv, BehindTheMark, BehindLate, Handled, After
<1>7. BehindWorkers'
  <2>1. \A y \in Workers : worker'[y] \in {"open", "read"} =>
            worker'[y] = worker[y] /\ file'[y] = file[y] /\ next'[y] = next[y]
    <3>1. /\ worker \in [Workers -> {"idle", "resume", "open", "read", "fail"}]
          /\ file \in [Workers -> Files \cup {NoFile}] /\ next \in [Workers -> 0 .. NBatches + 1]
      BY DEF TInv, TypeOK
    <3>2. \A y \in Workers : y # x => worker'[y] = worker[y] /\ file'[y] = file[y] /\ next'[y] = next[y]
      <4>1. /\ worker' = [worker EXCEPT ![x] = "idle"] /\ file' = [file EXCEPT ![x] = NoFile]
            /\ next' = [next EXCEPT ![x] = 0]
        BY <1>1
      <4> QED
        BY <3>1, <4>1
    <3>3. worker'[x] = "idle"
      BY <1>1, <3>1
    <3> QED
      BY <3>2, <3>3
  <2> QED
    BY <1>2, <2>1 DEF SInv, BehindWorkers, Handled, After
<1> QED
  BY <1>5, <1>6, <1>7 DEF SInv

LEMMA SkipLandsLate ==
    ASSUME TInv, SInv, NEW f \in Files, NEW b \in Batches, LandsLate(f, b)
    PROVE  SInv'
<1>1. /\ counted' = [counted EXCEPT ![f][b] = @ + 1]
      /\ progress' = [progress EXCEPT ![f] = b] \/ progress' = progress
      /\ late[f][b] > 0 /\ late' = [late EXCEPT ![f][b] = @ - 1]
      /\ dir' = dir /\ lost' = lost /\ worker' = worker /\ file' = file /\ next' = next
  BY DEF LandsLate, Counts, Marks, pool
<1>2. /\ counted \in [Files -> [Batches -> Nat]] /\ progress \in [Files -> 0 .. NBatches]
      /\ late \in [Files -> [Batches -> 0 .. MaxLate]] /\ b \in Nat
  BY DEF TInv, TypeOK, Batches
<1>3. /\ After(f, b)
      /\ \A g \in Files, c \in Batches : Handled(g, c) => After(g, c)
  <2>1. counted'[f][b] = counted[f][b] + 1 /\ counted[f][b] \in Nat
    BY <1>1, <1>2
  <2>2. \A g \in Files, c \in Batches : <<g, c>> # <<f, b>> => counted'[g][c] = counted[g][c]
    BY <1>1, <1>2
  <2> QED
    BY <1>1, <2>1, <2>2 DEF Handled, After
<1>4. BehindTheMark'
  <2> SUFFICES ASSUME NEW g \in Files, NEW c \in Batches, c <= progress'[g] PROVE After(g, c)
    BY DEF BehindTheMark, Handled, After
  <2>1. CASE progress'[g] = progress[g]
    BY <1>3, <2>1 DEF SInv, BehindTheMark
  <2>2. CASE g = f /\ progress'[g] = b
    <3>1. c \in Nat /\ (c = b \/ c < b)
      BY <1>2, <2>2 DEF Batches
    <3> QED
      BY <1>1, <1>3, <2>2, <3>1 DEF SInv, BehindLate
  <2> QED
    BY <1>1, <1>2, <2>1, <2>2
<1>5. AllOfDone' /\ BehindWorkers'
  <2>1. \A x \in Workers : worker[x] \in {"open", "read"} => file[x] \in Files
    BY DEF TInv, Carrying
  <2> QED
    BY <1>1, <1>3, <2>1 DEF SInv, AllOfDone, BehindWorkers, Handled, After
<1>6. BehindLate'
  <2>1. \A g \in Files, c \in Batches : late'[g][c] > 0 => late[g][c] > 0
    BY <1>1, <1>2
  <2> QED
    BY <1>3, <2>1 DEF SInv, BehindLate, Handled, After
<1> QED
  BY <1>4, <1>5, <1>6 DEF SInv

LEMMA SkipNext == TInv /\ SInv /\ [Next]_vars => SInv'
<1> SUFFICES ASSUME TInv, SInv, [Next]_vars PROVE SInv'
  OBVIOUS
<1>1. CASE /\ \A x \in Workers : ~Working(x)
           /\ \A f \in Files, b \in Batches : ~LandsLate(f, b)
  BY <1>1, OutsideWorkers, SkipApart
<1>2. ASSUME NEW x \in Workers, Working(x) PROVE SInv'
  <2>1. CASE Begin(x) \/ Open(x)
    BY <2>1, SkipBeginOpen, SkipApart
  <2> QED
    BY <1>2, <2>1, SkipResume, SkipConsume, SkipDispose DEF Working
<1>3. ASSUME NEW f \in Files, NEW b \in Batches, LandsLate(f, b) PROVE SInv'
  BY <1>3, SkipLandsLate
<1> QED
  BY <1>1, <1>2, <1>3

(* FileIngestor::process() passes nothing over silently: whatever fails,    *)
(* and however many processes are killed over the same directories, a batch *)
(* behind the mark of its file, or of a file in the done directory, was     *)
(* counted, or its write was refused or never confirmed.                     *)
THEOREM NothingIsSkipped == Spec => []NothingSkipped
<1>1. SInv => NothingSkipped
  BY DEF SInv, BehindTheMark, AllOfDone, Handled, NothingSkipped
<1> QED
  BY <1>1, SkipInit, SkipNext, TypeAlways, PTL DEF Spec

-----------------------------------------------------------------------------
(* What a process has on its way. *)

Elems(s) == {s[i] : i \in 1 .. Len(s)}
Same(s) == \A i, j \in 1 .. Len(s) : s[i] = s[j] => i = j

Works(x, f) == worker[x] # "idle" /\ file[x] = f

Has(p, f) ==
    \/ f \in Elems(queue[p]) \/ f \in Elems(tasks[p]) \/ held[p] = f
    \/ \E x \in Workers : x[1] = p /\ Works(x, f)
    \/ main[p] = "target" /\ f \in todo[p]

LEMMA ElemsAppend ==
    ASSUME NEW S, NEW s \in Seq(S), NEW e \in S
    PROVE  /\ Elems(Append(s, e)) = Elems(s) \cup {e}
           /\ Same(s) /\ e \notin Elems(s) => Same(Append(s, e))
<1>1. /\ Len(s) \in Nat /\ Len(Append(s, e)) = Len(s) + 1 /\ Append(s, e)[Len(s) + 1] = e
      /\ \A i \in 1 .. Len(s) : Append(s, e)[i] = s[i]
  OBVIOUS
<1>2. \A i \in 1 .. Len(s) + 1 : i \in 1 .. Len(s) \/ i = Len(s) + 1
  BY <1>1
<1>3. \A i \in 1 .. Len(s) : i \in 1 .. Len(s) + 1
  BY <1>1
<1>4. Len(s) + 1 \in 1 .. Len(s) + 1
  BY <1>1
<1>5. Elems(Append(s, e)) = Elems(s) \cup {e}
  BY <1>1, <1>2, <1>3, <1>4 DEF Elems
<1>6. Same(s) /\ e \notin Elems(s) => Same(Append(s, e))
  BY <1>1, <1>2 DEF Elems, Same
<1> QED
  BY <1>5, <1>6

LEMMA ElemsTail ==
    ASSUME NEW S, NEW s \in Seq(S), s # <<>>
    PROVE  /\ Elems(Tail(s)) \subseteq Elems(s) /\ Head(s) \in Elems(s)
           /\ Elems(s) \subseteq Elems(Tail(s)) \cup {Head(s)}
           /\ Same(s) => Same(Tail(s)) /\ Head(s) \notin Elems(Tail(s))
<1>1. /\ Len(s) \in Nat /\ Len(s) >= 1 /\ Len(Tail(s)) = Len(s) - 1 /\ Head(s) = s[1]
      /\ \A i \in 1 .. Len(s) - 1 : Tail(s)[i] = s[i + 1]
  OBVIOUS
<1>2. 1 \in 1 .. Len(s) /\ \A i \in 1 .. Len(s) - 1 : i + 1 \in 1 .. Len(s) /\ i + 1 # 1
  BY <1>1
<1>3. Elems(Tail(s)) \subseteq Elems(s) /\ Head(s) \in Elems(s)
  BY <1>1, <1>2 DEF Elems
<1>5. Elems(s) \subseteq Elems(Tail(s)) \cup {Head(s)}
  <2>1. ASSUME NEW i \in 1 .. Len(s), i # 1 PROVE i - 1 \in 1 .. Len(s) - 1 /\ s[i] = Tail(s)[i - 1]
    <3>1. i - 1 \in 1 .. Len(s) - 1 /\ (i - 1) + 1 = i
      BY <1>1, <2>1
    <3> QED
      BY <1>1, <3>1
  <2>2. ASSUME NEW i \in 1 .. Len(s) PROVE s[i] \in Elems(Tail(s)) \cup {Head(s)}
    <3>1. CASE i = 1
      BY <1>1, <3>1
    <3>2. CASE i # 1
      BY <1>1, <2>1, <3>2 DEF Elems
    <3> QED
      BY <3>1, <3>2
  <2> QED
    BY <2>2 DEF Elems
<1>4. ASSUME Same(s) PROVE Same(Tail(s)) /\ Head(s) \notin Elems(Tail(s))
  <2>1. Head(s) \notin Elems(Tail(s))
    BY <1>1, <1>2, <1>4 DEF Elems, Same
  <2>2. ASSUME NEW i \in 1 .. Len(s) - 1, NEW j \in 1 .. Len(s) - 1, Tail(s)[i] = Tail(s)[j] PROVE i = j
    <3>1. s[i + 1] = s[j + 1] /\ i + 1 \in 1 .. Len(s) /\ j + 1 \in 1 .. Len(s)
      BY <1>1, <1>2, <2>2
    <3>2. i + 1 = j + 1
      BY <1>4, <3>1 DEF Same
    <3> QED
      BY <3>2
  <2> QED
    BY <1>1, <2>1, <2>2 DEF Same
<1> QED
  BY <1>3, <1>4, <1>5

LEMMA ElemsEmpty == Elems(<<>>) = {} /\ Same(<<>>)
BY DEF Elems, Same

(* The places a process hands a file through keep what they have. *)
Kept ==
    /\ queue' = queue /\ tasks' = tasks /\ held' = held /\ file' = file
    /\ \A x \in Workers : worker'[x] # "idle" => worker[x] # "idle"
Swept == \A p \in Procs : main'[p] = "target" => main[p] = "target" /\ todo'[p] \subseteq todo[p]

(* A process gets hold only of files in the process directory. *)
Gains == \A p \in Procs, f \in Files : Has(p, f)' => Has(p, f) \/ dir'[f] = "process"

LEMMA KeptGains ==
    ASSUME Kept, Swept
    PROVE  Gains
BY DEF Kept, Swept, Gains, Has, Works

Ingesting == {"target", "source", "running"}

(* Steps that move no file, unless it is into the ready directory. *)
Quiet ==
    /\ Kept /\ Swept /\ begun' = begun
    /\ \A x \in Workers : worker[x] # "idle" => worker'[x] # "idle"
    /\ \A p \in Procs : main'[p] \in {"down", "exited"} =>
           main'[p] = main[p] /\ (feeder[p] = "ended" => feeder'[p] = "ended")
    /\ \A p \in Procs : main[p] = "down" => main'[p] = "down"
    /\ \A p \in Procs : main'[p] \in Ingesting => main[p] \in Ingesting
    /\ \A p \in Procs : main[p] = "target" => todo[p] = {} \/ (main'[p] = "target" /\ todo'[p] = todo[p])
    /\ \A f \in Files : dir'[f] = "process" => dir[f] = "process"

LEMMA QuietOfProcess ==
    ASSUME TInv, NEW p \in Procs,
           \/ EndSweep(p) \/ FeedCheck(p) \/ Woken(p) \/ ReadEvents(p) \/ WatcherFails(p)
           \/ StopFlag(p) \/ Wake(p) \/ JoinFeeder(p)
    PROVE  Quiet
<1> USE DEF world, store, control, watcher, feed, pool, TInv, TypeOK, Quiet, Kept, Swept, Ingesting
<1>1. CASE FeedCheck(p) \/ Woken(p) \/ ReadEvents(p) \/ WatcherFails(p)
  BY <1>1 DEF FeedCheck, Woken, ReadEvents, WatcherFails
<1>2. CASE EndSweep(p)
  BY <1>2 DEF EndSweep
<1>3. CASE StopFlag(p) \/ Wake(p) \/ JoinFeeder(p)
  BY <1>3 DEF StopFlag, Wake, JoinFeeder
<1> QED
  BY <1>1, <1>2, <1>3

LEMMA QuietOfStore ==
    ASSUME TInv, NEW f \in Files, NEW b \in Batches, LandsLate(f, b)
    PROVE  Quiet
BY DEF LandsLate, Quiet, Kept, Swept, control, watcher, feed, pool

LEMMA QuietOfWorker ==
    ASSUME TInv, NEW x \in Workers, Resume(x) \/ Open(x) \/ Consume(x)
    PROVE  Quiet
<1> USE DEF world, store, control, watcher, feed, pool, TInv, TypeOK, Quiet, Kept, Swept
<1>1. CASE Resume(x)
  BY <1>1 DEF Resume
<1>2. CASE Open(x)
  BY <1>2 DEF Open
<1>3. CASE Consume(x)
  BY <1>3 DEF Consume
<1> QED
  BY <1>1, <1>2, <1>3

(* What the other steps do to the places of their process. *)
LEMMA QueueGrows ==
    ASSUME TInv, NEW p \in Procs, NEW f \in Files, queue' = [queue EXCEPT ![p] = Append(@, f)]
    PROVE  /\ \A q \in Procs : q # p => queue'[q] = queue[q]
           /\ Elems(queue'[p]) = Elems(queue[p]) \cup {f}
           /\ Same(queue[p]) /\ f \notin Elems(queue[p]) => Same(queue'[p])
<1>1. queue \in [Procs -> Seq(Files)] /\ queue[p] \in Seq(Files)
  BY DEF TInv, TypeOK
<1>2. queue'[p] = Append(queue[p], f)
  BY <1>1
<1> QED
  BY <1>1, <1>2, ElemsAppend

LEMMA QueueGives ==
    ASSUME TInv, NEW p \in Procs, NextFile(p)
    PROVE  /\ \A q \in Procs : q # p => queue'[q] = queue[q] /\ held'[q] = held[q]
           /\ Elems(queue'[p]) \subseteq Elems(queue[p]) /\ held'[p] \in Elems(queue[p])
           /\ Elems(queue[p]) \subseteq Elems(queue'[p]) \cup {held'[p]}
           /\ held'[p] \in Files
           /\ Same(queue[p]) => Same(queue'[p]) /\ held'[p] \notin Elems(queue'[p])
<1>1. /\ queue \in [Procs -> Seq(Files)] /\ held \in [Procs -> Files \cup {NoFile}]
      /\ queue[p] \in Seq(Files) /\ queue[p] # <<>>
      /\ queue' = [queue EXCEPT ![p] = Tail(@)] /\ held' = [held EXCEPT ![p] = Head(queue[p])]
  BY DEF NextFile, TInv, TypeOK
<1>2. queue'[p] = Tail(queue[p]) /\ held'[p] = Head(queue[p])
  BY <1>1
<1>3. Head(queue[p]) \in Files
  BY <1>1, Heads
<1> QED
  BY <1>1, <1>2, <1>3, ElemsTail

LEMMA TasksGrow ==
    ASSUME TInv, NEW p \in Procs, Submit(p)
    PROVE  /\ \A q \in Procs : q # p => tasks'[q] = tasks[q] /\ held'[q] = held[q]
           /\ held[p] \in Files /\ held'[p] = NoFile
           /\ Elems(tasks'[p]) = Elems(tasks[p]) \cup {held[p]}
           /\ Same(tasks[p]) /\ held[p] \notin Elems(tasks[p]) => Same(tasks'[p])
<1>1. /\ tasks \in [Procs -> Seq(Files)] /\ held \in [Procs -> Files \cup {NoFile}]
      /\ tasks[p] \in Seq(Files) /\ held[p] \in Files
      /\ tasks' = [tasks EXCEPT ![p] = Append(@, held[p])] /\ held' = [held EXCEPT ![p] = NoFile]
  BY DEF Submit, TInv, TypeOK, Carrying
<1>2. tasks'[p] = Append(tasks[p], held[p]) /\ held'[p] = NoFile
  BY <1>1
<1> QED
  BY <1>1, <1>2, ElemsAppend

LEMMA TasksGive ==
    ASSUME TInv, NEW x \in Workers, Begin(x)
    PROVE  LET p == x[1] IN
           /\ p \in Procs /\ worker[x] = "idle"
           /\ \A q \in Procs : q # p => tasks'[q] = tasks[q]
           /\ Elems(tasks'[p]) \subseteq Elems(tasks[p])
           /\ Elems(tasks[p]) \subseteq Elems(tasks'[p]) \cup {Head(tasks[p])}
           /\ Head(tasks[p]) \in Elems(tasks[p]) /\ Head(tasks[p]) \in Files
           /\ Same(tasks[p]) => Same(tasks'[p]) /\ Head(tasks[p]) \notin Elems(tasks'[p])
           /\ \A y \in Workers : y # x => worker'[y] = worker[y] /\ file'[y] = file[y]
           /\ \/ worker'[x] = "idle" /\ begun' = begun /\ file' = file /\ stop[p]
              \/ /\ worker'[x] = "resume" /\ file'[x] = Head(tasks[p])
                 /\ begun' = [begun EXCEPT ![p] = @ \cup {Head(tasks[p])}]
<1> DEFINE p == x[1]
<1>1. p \in Procs
  BY DEF Workers
<1> HIDE DEF p
<1>2. /\ tasks \in [Procs -> Seq(Files)] /\ tasks[p] \in Seq(Files) /\ tasks[p] # <<>>
      /\ tasks' = [tasks EXCEPT ![p] = Tail(@)] /\ worker[x] = "idle"
  BY <1>1 DEF Begin, TInv, TypeOK, p
<1>3. tasks'[p] = Tail(tasks[p]) /\ \A q \in Procs : q # p => tasks'[q] = tasks[q]
  BY <1>1, <1>2
<1>4. Head(tasks[p]) \in Files
  BY <1>2, Heads
<1>5. /\ Elems(tasks'[p]) \subseteq Elems(tasks[p]) /\ Head(tasks[p]) \in Elems(tasks[p])
      /\ Elems(tasks[p]) \subseteq Elems(tasks'[p]) \cup {Head(tasks[p])}
      /\ Same(tasks[p]) => Same(tasks'[p]) /\ Head(tasks[p]) \notin Elems(tasks'[p])
  BY <1>2, <1>3, ElemsTail
<1>6. worker \in [Workers -> {"idle", "resume", "open", "read", "fail"}] /\ file \in [Workers -> Files \cup {NoFile}]
  BY DEF TInv, TypeOK
<1>7. CASE worker' = worker /\ file' = file /\ begun' = begun /\ stop[p]
  BY <1>1, <1>2, <1>3, <1>4, <1>5, <1>7 DEF p
<1>8. CASE /\ worker' = [worker EXCEPT ![x] = "resume"] /\ file' = [file EXCEPT ![x] = Head(tasks[p])]
           /\ begun' = [begun EXCEPT ![p] = @ \cup {Head(tasks[p])}]
  <2>1. /\ worker'[x] = "resume" /\ file'[x] = Head(tasks[p])
        /\ \A y \in Workers : y # x => worker'[y] = worker[y] /\ file'[y] = file[y]
    BY <1>6, <1>8
  <2> QED
    BY <1>1, <1>2, <1>3, <1>4, <1>5, <1>8, <2>1 DEF p
<1> QED
  BY <1>7, <1>8 DEF Begin, p

LEMMA WorkerGives ==
    ASSUME TInv, NEW x \in Workers, Dispose(x)
    PROVE  /\ queue' = queue /\ tasks' = tasks /\ held' = held /\ main' = main /\ todo' = todo
           /\ begun' = begun /\ worker[x] # "idle" /\ worker'[x] = "idle" /\ file[x] \in Files
           /\ file'[x] = NoFile
           /\ \A y \in Workers : y # x => worker'[y] = worker[y] /\ file'[y] = file[y] /\ next'[y] = next[y]
           /\ \A g \in Files : g # file[x] => dir'[g] = dir[g]
           /\ \/ dir[file[x]] = "process" /\ dir'[file[x]] \in {"done", "fail"}
              \/ "rename" \in Faults /\ dir' = dir
              \/ dir[file[x]] # "process" /\ dir' = dir
<1>1. /\ worker \in [Workers -> {"idle", "resume", "open", "read", "fail"}]
      /\ file \in [Workers -> Files \cup {NoFile}] /\ next \in [Workers -> 0 .. NBatches + 1]
      /\ dir \in [Files -> {"absent", "ready", "process", "done", "fail"}]
  BY DEF TInv, TypeOK
<1>2. worker[x] # "idle" /\ file[x] \in Files
  BY DEF Dispose, Drained, TInv, Carrying
<1>3. /\ worker' = [worker EXCEPT ![x] = "idle"] /\ file' = [file EXCEPT ![x] = NoFile]
      /\ next' = [next EXCEPT ![x] = 0]
  BY DEF Dispose
<1>4. /\ worker'[x] = "idle" /\ file'[x] = NoFile
      /\ \A y \in Workers : y # x => worker'[y] = worker[y] /\ file'[y] = file[y] /\ next'[y] = next[y]
  BY <1>1, <1>3
<1>5. PICK d \in {"done", "fail"} :
          \/ dir[file[x]] = "process" /\ dir' = [dir EXCEPT ![file[x]] = d]
          \/ "rename" \in Faults /\ dir' = dir
          \/ dir[file[x]] # "process" /\ dir' = dir
  <2>1. (IF worker[x] = "read" THEN "done" ELSE "fail") \in {"done", "fail"}
    OBVIOUS
  <2> QED
    BY <2>1 DEF Dispose
<1>6. /\ \A g \in Files : g # file[x] => dir'[g] = dir[g]
      /\ \/ dir[file[x]] = "process" /\ dir'[file[x]] \in {"done", "fail"}
         \/ "rename" \in Faults /\ dir' = dir
         \/ dir[file[x]] # "process" /\ dir' = dir
  BY <1>1, <1>2, <1>5
<1>7. /\ queue' = queue /\ tasks' = tasks /\ held' = held /\ main' = main /\ todo' = todo /\ begun' = begun
  BY DEF Dispose, control, watcher, feed
<1> QED
  BY <1>2, <1>4, <1>6, <1>7

LEMMA Forgets ==
    ASSUME TInv, NEW p \in Procs, Forget(p)
    PROVE  /\ queue'[p] = <<>> /\ tasks'[p] = <<>> /\ held'[p] = NoFile /\ feeder'[p] = "ended"
           /\ \A x \in Workers : x[1] = p => worker'[x] = "idle" /\ file'[x] = NoFile
           /\ \A q \in Procs : q # p =>
                  /\ queue'[q] = queue[q] /\ tasks'[q] = tasks[q] /\ held'[q] = held[q]
                  /\ feeder'[q] = feeder[q] /\ todo'[q] = todo[q]
           /\ \A x \in Workers : x[1] # p =>
                  worker'[x] = worker[x] /\ file'[x] = file[x] /\ next'[x] = next[x]
BY DEF TInv, TypeOK, Forget

Wins(p, f) ==
    /\ dir[f] = "ready" /\ dir' = [dir EXCEPT ![f] = "process"]
    /\ queue' = [queue EXCEPT ![p] = Append(@, f)]

LEMMA Claims ==
    ASSUME TInv, NEW p \in Procs, NEW f \in Files, Claim(p, f)
    PROVE  \/ /\ Wins(p, f) /\ dir'[f] = "process"
              /\ \A g \in Files : g # f => dir'[g] = dir[g]
           \/ dir' = dir /\ queue' = queue
BY DEF Claim, Wins, TInv, TypeOK

(* A step that claims a file, or takes over a claimed one.                  *)
Takes(p, f) ==
    /\ tasks' = tasks /\ held' = held /\ file' = file /\ worker' = worker /\ main' = main
    /\ next' = next /\ begun' = begun /\ feeder' = feeder
    /\ progress' = progress /\ counted' = counted
    /\ main[p] \in {"target", "source"} \/ feeder[p] # "ended"
    /\ \A q \in Procs : todo'[q] \subseteq todo[q]
    /\ \A q \in Procs, g \in Files : main[q] = "target" /\ g \in todo[q] =>
           g \in todo'[q] \/ (q = p /\ g = f /\ queue' = [queue EXCEPT ![p] = Append(@, f)])
    /\ \/ Wins(p, f)
       \/ /\ main[p] = "target" /\ f \in todo[p] /\ f \notin todo'[p] /\ dir' = dir
          /\ queue' = [queue EXCEPT ![p] = Append(@, f)]
       \/ queue' = queue /\ dir' = dir

LEMMA TakeSteps ==
    ASSUME TInv, NEW p \in Procs, NEW f \in Files,
           SweepTarget(p, f) \/ SweepSource(p, f) \/ ClaimEvent(p)
    PROVE  \E g \in Files : Takes(p, g)
<1> USE DEF world, store, control, watcher, feed, pool
<1>1. CASE SweepTarget(p, f)
  <2>1. Takes(p, f)
    BY <1>1 DEF SweepTarget, Takes, TInv, TypeOK
  <2> QED
    BY <2>1
<1>2. CASE SweepSource(p, f)
  <2>1. \A q \in Procs : todo'[q] \subseteq todo[q] /\ (main[q] = "target" => todo'[q] = todo[q])
    BY <1>2 DEF SweepSource, TInv, TypeOK
  <2>2. Wins(p, f) \/ (dir' = dir /\ queue' = queue)
    BY <1>2, Claims DEF SweepSource
  <2>3. Takes(p, f)
    BY <1>2, <2>1, <2>2 DEF SweepSource, Takes
  <2> QED
    BY <2>3
<1>3. CASE ClaimEvent(p)
  <2>1. burst[p] \in Seq(Files) /\ burst[p] # <<>>
    BY <1>3 DEF ClaimEvent, TInv, TypeOK
  <2>2. PICK g \in Files : Claim(p, g)
    BY <1>3, <2>1, Heads DEF ClaimEvent
  <2>3. Wins(p, g) \/ (dir' = dir /\ queue' = queue)
    BY <2>2, Claims
  <2>4. Takes(p, g)
    BY <1>3, <2>3 DEF ClaimEvent, Takes
  <2> QED
    BY <2>4
<1> QED
  BY <1>1, <1>2, <1>3

LEMMA TakeGains ==
    ASSUME TInv, NEW p \in Procs, NEW f \in Files, Takes(p, f)
    PROVE  Gains
<1>1. /\ tasks' = tasks /\ held' = held /\ file' = file /\ worker' = worker /\ main' = main
      /\ \A q \in Procs : todo'[q] \subseteq todo[q]
  BY DEF Takes
<1>2. CASE queue' = queue
  BY <1>1, <1>2 DEF Gains, Has, Works
<1>3. CASE queue' = [queue EXCEPT ![p] = Append(@, f)] /\ (Has(p, f) \/ dir'[f] = "process")
  <2>1. /\ \A q \in Procs : q # p => queue'[q] = queue[q]
        /\ Elems(queue'[p]) = Elems(queue[p]) \cup {f}
    BY <1>3, QueueGrows
  <2> SUFFICES ASSUME NEW q \in Procs, NEW g \in Files, Has(q, g)' PROVE Has(q, g) \/ dir'[g] = "process"
    BY DEF Gains
  <2>2. CASE g \in Elems(queue'[q])
    <3>1. g \in Elems(queue[q]) \/ (q = p /\ g = f)
      BY <2>1, <2>2
    <3> QED
      BY <1>3, <3>1 DEF Has
  <2>3. CASE g \notin Elems(queue'[q])
    BY <1>1, <2>3 DEF Has, Works
  <2> QED
    BY <2>2, <2>3
<1>4. Wins(p, f) => dir'[f] = "process"
  BY DEF Wins, TInv, TypeOK
<1>5. main[p] = "target" /\ f \in todo[p] => Has(p, f)
  BY DEF Has
<1> QED
  BY <1>2, <1>3, <1>4, <1>5 DEF Takes, Wins

LEMMA BootGains ==
    ASSUME TInv, NEW p \in Procs, Boot(p)
    PROVE  Gains
<1>1. /\ queue' = queue /\ tasks' = tasks /\ held' = held /\ file' = file /\ worker' = worker /\ dir' = dir
      /\ main' = [main EXCEPT ![p] = "target"]
      /\ todo' = [todo EXCEPT ![p] = In("process")] \/ todo' = [todo EXCEPT ![p] = {}]
  BY DEF Boot, world, store, feed
<1>2. \A q \in Procs : main'[q] = "target" =>
          (main[q] = "target" /\ todo'[q] = todo[q]) \/ todo'[q] \in {In("process"), {}}
  BY <1>1 DEF TInv, TypeOK
<1>3. \A f \in In("process") : dir[f] = "process"
  BY DEF In
<1> QED
  BY <1>1, <1>2, <1>3 DEF Gains, Has, Works

LEMMA PassGains ==
    ASSUME TInv, NEW p \in Procs, NextFile(p) \/ Submit(p)
    PROVE  Gains
<1>1. /\ file' = file /\ worker' = worker /\ main' = main /\ todo' = todo
      /\ tasks' = tasks \/ queue' = queue
  BY DEF NextFile, Submit, control, watcher, pool
<1>2. CASE NextFile(p)
  <2>1. tasks' = tasks
    BY <1>2 DEF NextFile, pool
  <2>2. /\ \A q \in Procs : q # p => queue'[q] = queue[q] /\ held'[q] = held[q]
        /\ Elems(queue'[p]) \subseteq Elems(queue[p]) /\ held'[p] \in Elems(queue[p])
    BY <1>2, QueueGives
  <2>3. \A q \in Procs, g \in Files :
            g \in Elems(queue'[q]) \/ held'[q] = g => g \in Elems(queue[q]) \/ held[q] = g
    BY <2>2
  <2> QED
    BY <1>1, <2>1, <2>3 DEF Gains, Has, Works
<1>3. CASE Submit(p)
  <2>1. queue' = queue
    BY <1>3 DEF Submit, watcher
  <2>2. /\ \A q \in Procs : q # p => tasks'[q] = tasks[q] /\ held'[q] = held[q]
        /\ held'[p] = NoFile /\ Elems(tasks'[p]) = Elems(tasks[p]) \cup {held[p]}
    BY <1>3, TasksGrow
  <2>3. \A q \in Procs, g \in Files :
            g \in Elems(tasks'[q]) \/ held'[q] = g => g \in Elems(tasks[q]) \/ held[q] = g
    BY <2>2
  <2> QED
    BY <1>1, <2>1, <2>3 DEF Gains, Has, Works
<1> QED
  BY <1>2, <1>3

LEMMA BeginGains ==
    ASSUME TInv, NEW x \in Workers, Begin(x)
    PROVE  Gains
<1>1. queue' = queue /\ held' = held /\ main' = main /\ todo' = todo
  BY DEF Begin, control, watcher, feed
<1>2. PICK p \in Procs : p = x[1]
  BY DEF Workers
<1>3. /\ \A q \in Procs : q # p => tasks'[q] = tasks[q]
      /\ Elems(tasks'[p]) \subseteq Elems(tasks[p]) /\ Head(tasks[p]) \in Elems(tasks[p])
      /\ \A y \in Workers : y # x => worker'[y] = worker[y] /\ file'[y] = file[y]
      /\ worker'[x] = "idle" \/ file'[x] = Head(tasks[p])
  BY <1>2, TasksGive
<1> SUFFICES ASSUME NEW q \in Procs, NEW g \in Files, Has(q, g)' PROVE Has(q, g)
  BY DEF Gains
<1>4. CASE g \in Elems(tasks'[q])
  BY <1>3, <1>4 DEF Has
<1>5. CASE \E y \in Workers : y[1] = q /\ worker'[y] # "idle" /\ file'[y] = g
  <2>1. PICK y \in Workers : y[1] = q /\ worker'[y] # "idle" /\ file'[y] = g
    BY <1>5
  <2>2. CASE y = x
    BY <1>2, <1>3, <2>1, <2>2 DEF Has
  <2>3. CASE y # x
    BY <1>3, <2>1, <2>3 DEF Has, Works
  <2> QED
    BY <2>2, <2>3
<1> QED
  BY <1>1, <1>4, <1>5 DEF Has, Works

LEMMA DisposeGains ==
    ASSUME TInv, NEW x \in Workers, Dispose(x)
    PROVE  Gains
<1>1. /\ queue' = queue /\ tasks' = tasks /\ held' = held /\ main' = main /\ todo' = todo
      /\ \A y \in Workers : worker'[y] # "idle" => worker[y] # "idle" /\ file'[y] = file[y]
  BY WorkerGives
<1> QED
  BY <1>1 DEF Gains, Has, Works

LEMMA EndGains ==
    ASSUME TInv, NEW p \in Procs, Exit(p) \/ Crash(p)
    PROVE  Gains
<1>1. PICK m \in {"down", "exited"} : Forget(p) /\ main' = [main EXCEPT ![p] = m] /\ dir' = dir
  BY DEF Exit, Crash, world, store
<1>2. main'[p] # "target" /\ \A q \in Procs : q # p => main'[q] = main[q]
  BY <1>1 DEF TInv, TypeOK
<1>3. /\ queue'[p] = <<>> /\ tasks'[p] = <<>> /\ held'[p] = NoFile
      /\ \A x \in Workers : x[1] = p => worker'[x] = "idle"
      /\ \A q \in Procs : q # p =>
             queue'[q] = queue[q] /\ tasks'[q] = tasks[q] /\ held'[q] = held[q] /\ todo'[q] = todo[q]
      /\ \A x \in Workers : x[1] # p => worker'[x] = worker[x] /\ file'[x] = file[x]
  BY <1>1, Forgets
<1>4. \A g \in Files : ~Has(p, g)'
  BY <1>2, <1>3, ElemsEmpty DEF Has, Works
<1>5. \A q \in Procs, g \in Files : q # p /\ Has(q, g)' => Has(q, g)
  BY <1>2, <1>3 DEF Has, Works
<1> QED
  BY <1>4, <1>5 DEF Gains

-----------------------------------------------------------------------------
(* No file is left half processed. *)

Claimed(f) == dir[f] \in {"process", "done", "fail"}
Settled(f) == dir[f] \in {"done", "fail"}

(* A claimed file never becomes one to claim again, a settled one stays.    *)
GoesOn == \A f \in Files :
    /\ Claimed(f) => dir'[f] \in {"process", "done", "fail"}
    /\ Settled(f) => dir'[f] = dir[f]
    /\ dir[f] = "process" => dir'[f] = "process" \/ \E x \in Workers : file[x] = f /\ Dispose(x)

HasClaimed == \A p \in Procs, f \in Files : Has(p, f) => Claimed(f)

(* What the workers of a run began is with one of them, or settled.         *)
BegunStays ==
    \A p \in Procs, f \in Files : main[p] # "down" /\ f \in begun[p] =>
        Settled(f) \/ \E x \in Workers : x[1] = p /\ Works(x, f)

HInv == HasClaimed /\ BegunStays

LEMMA HalfInit == Init => HInv
<1> SUFFICES ASSUME Init PROVE HInv
  OBVIOUS
<1>1. \A p \in Procs : queue[p] = <<>> /\ tasks[p] = <<>> /\ held[p] = NoFile /\ main[p] = "down"
  BY DEF Init
<1>2. \A x \in Workers : worker[x] = "idle"
  BY DEF Init
<1> QED
  BY <1>1, <1>2, ElemsEmpty DEF HInv, HasClaimed, BegunStays, Has, Works

LEMMA DirGoesOn == TInv /\ [Next]_vars => GoesOn
<1> SUFFICES ASSUME TInv, [Next]_vars PROVE GoesOn
  OBVIOUS
<1>1. CASE dir' = dir
  BY <1>1 DEF GoesOn, Claimed, Settled
<1>2. ASSUME NEW f \in Files, Deliver(f) PROVE GoesOn
  BY <1>2 DEF Deliver, TInv, TypeOK, GoesOn, Claimed, Settled
<1>3. ASSUME NEW p \in Procs, NEW f \in Files, Takes(p, f) PROVE GoesOn
  <2>1. dir' = dir \/ (dir[f] = "ready" /\ dir' = [dir EXCEPT ![f] = "process"])
    BY <1>3 DEF Takes, Wins
  <2> QED
    BY <2>1 DEF TInv, TypeOK, GoesOn, Claimed, Settled
<1>4. ASSUME NEW x \in Workers, Dispose(x) PROVE GoesOn
  BY <1>4, WorkerGives DEF GoesOn, Claimed, Settled
<1>5. ASSUME NEW p \in Procs, Boot(p) \/ EndSweep(p) \/ FeedCheck(p) \/ NextFile(p) \/ Woken(p) \/ ReadEvents(p)
                               \/ Submit(p) \/ WatcherFails(p) \/ StopFlag(p) \/ Wake(p) \/ JoinFeeder(p)
                               \/ Exit(p) \/ Crash(p) \/ Idle(p)
      PROVE  dir' = dir
  BY <1>5 DEF Boot, EndSweep, FeedCheck, NextFile, Woken, ReadEvents, Submit, WatcherFails, StopFlag,
              Wake, JoinFeeder, Exit, Crash, Idle, vars, world, store
<1>6. ASSUME NEW x \in Workers, Begin(x) \/ Resume(x) \/ Open(x) \/ Consume(x) PROVE dir' = dir
  BY <1>6 DEF Begin, Resume, Open, Consume, world, store
<1>7. ASSUME NEW p \in Procs, Sweeping(p) PROVE GoesOn
  <2>1. ASSUME NEW f \in Files, SweepTarget(p, f) \/ SweepSource(p, f) PROVE GoesOn
    BY <1>3, <2>1, TakeSteps
  <2> QED
    BY <1>1, <1>5, <1>7, <2>1 DEF Sweeping
<1>8. ASSUME NEW p \in Procs, Feeding(p) PROVE GoesOn
  <2>1. CASE ClaimEvent(p)
    <3>1. burst[p] \in Seq(Files) /\ burst[p] # <<>>
      BY <2>1 DEF ClaimEvent, TInv, TypeOK
    <3>2. \E f \in Files : TRUE
      BY <3>1, Heads
    <3> QED
      BY <1>3, <2>1, <3>2, TakeSteps
  <2> QED
    BY <1>1, <1>5, <1>8, <2>1 DEF Feeding
<1>9. ASSUME NEW x \in Workers, Working(x) PROVE GoesOn
  BY <1>1, <1>4, <1>6, <1>9 DEF Working
<1>10. ASSUME NEW p \in Procs, Stopping(p) PROVE GoesOn
  BY <1>1, <1>5, <1>10 DEF Stopping
<1>11. ASSUME UNCHANGED vars PROVE GoesOn
  BY <1>1, <1>11 DEF vars, world, store
<1>13. ASSUME NEW f \in Files, NEW b \in Batches, LandsLate(f, b) PROVE GoesOn
  BY <1>1, <1>13 DEF LandsLate
<1>12. ASSUME Next PROVE GoesOn
  BY <1>1, <1>2, <1>5, <1>7, <1>8, <1>9, <1>10, <1>12, <1>13 DEF Next
<1> QED
  BY <1>11, <1>12

LEMMA StepKinds ==
    ASSUME TInv, [Next]_vars
    PROVE  \/ Quiet
           \/ \E p \in Procs, f \in Files : Takes(p, f)
           \/ \E p \in Procs : Boot(p) \/ NextFile(p) \/ Submit(p) \/ Exit(p) \/ Crash(p)
           \/ \E x \in Workers : Begin(x) \/ Dispose(x)
<1> DEFINE Kinds == \/ Quiet
                    \/ \E p \in Procs, f \in Files : Takes(p, f)
                    \/ \E p \in Procs : Boot(p) \/ NextFile(p) \/ Submit(p) \/ Exit(p) \/ Crash(p)
                    \/ \E x \in Workers : Begin(x) \/ Dispose(x)
<1>1. ASSUME NEW f \in Files, Deliver(f) PROVE Quiet
  BY <1>1 DEF Deliver, Quiet, Kept, Swept, control, watcher, feed, pool, TInv, TypeOK
<1>2. ASSUME NEW p \in Procs,
             \/ EndSweep(p) \/ FeedCheck(p) \/ Woken(p) \/ ReadEvents(p) \/ WatcherFails(p)
             \/ StopFlag(p) \/ Wake(p) \/ JoinFeeder(p)
      PROVE  Quiet
  BY <1>2, QuietOfProcess
<1>3. ASSUME NEW x \in Workers, Resume(x) \/ Open(x) \/ Consume(x) PROVE Quiet
  BY <1>3, QuietOfWorker
<1>4. ASSUME UNCHANGED vars PROVE Quiet
  BY <1>4 DEF vars, Quiet, Kept, Swept, world, store, control, watcher, feed, pool
<1>5. ASSUME NEW p \in Procs, Sweeping(p) PROVE Kinds
  <2>1. ASSUME NEW f \in Files, SweepTarget(p, f) \/ SweepSource(p, f) PROVE Kinds
    BY <2>1, TakeSteps
  <2> QED
    BY <1>2, <1>5, <2>1 DEF Sweeping
<1>6. ASSUME NEW p \in Procs, Feeding(p) PROVE Kinds
  <2>1. CASE ClaimEvent(p)
    <3>1. burst[p] \in Seq(Files) /\ burst[p] # <<>>
      BY <2>1 DEF ClaimEvent, TInv, TypeOK
    <3>2. \E f \in Files : TRUE
      BY <3>1, Heads
    <3> QED
      BY <2>1, <3>2, TakeSteps
  <2> QED
    BY <1>2, <1>6, <2>1 DEF Feeding
<1>7. ASSUME NEW x \in Workers, Working(x) PROVE Kinds
  BY <1>3, <1>7 DEF Working
<1>8. ASSUME NEW p \in Procs, Stopping(p) PROVE Kinds
  BY <1>2, <1>8 DEF Stopping
<1>9. ASSUME NEW p \in Procs, Idle(p) PROVE Quiet
  BY <1>4, <1>9 DEF Idle
<1>10. ASSUME NEW p \in Procs, Boot(p) \/ Crash(p) PROVE Kinds
  BY <1>10
<1>14. ASSUME NEW f \in Files, NEW b \in Batches, LandsLate(f, b) PROVE Quiet
  BY <1>14, QuietOfStore
<1>11. Quiet => Kinds
  OBVIOUS
<1> HIDE DEF Kinds
<1>12. ASSUME Next PROVE Kinds
  BY <1>1, <1>2, <1>5, <1>6, <1>7, <1>8, <1>9, <1>10, <1>11, <1>12, <1>14 DEF Next
<1>13. Kinds
  BY <1>4, <1>11, <1>12
<1> QED
  BY <1>13 DEF Kinds

LEMMA AllGain == TInv /\ [Next]_vars => Gains
<1> SUFFICES ASSUME TInv, [Next]_vars PROVE Gains
  OBVIOUS
<1>1. CASE Quiet
  BY <1>1, KeptGains DEF Quiet
<1>2. ASSUME NEW p \in Procs, NEW f \in Files, Takes(p, f) PROVE Gains
  BY <1>2, TakeGains
<1>3. ASSUME NEW p \in Procs, Boot(p) \/ NextFile(p) \/ Submit(p) \/ Exit(p) \/ Crash(p) PROVE Gains
  BY <1>3, BootGains, PassGains, EndGains
<1>4. ASSUME NEW x \in Workers, Begin(x) \/ Dispose(x) PROVE Gains
  BY <1>4, BeginGains, DisposeGains
<1> QED
  BY <1>1, <1>2, <1>3, <1>4, StepKinds

(* Of a process that ended nothing goes on. *)
Gone ==
    \A p \in Procs : main[p] \in {"down", "exited"} =>
        /\ feeder[p] = "ended" /\ queue[p] = <<>> /\ tasks[p] = <<>> /\ held[p] = NoFile
        /\ \A x \in Workers : x[1] = p => worker[x] = "idle"

LEMMA GoneNext == TInv /\ Gone /\ [Next]_vars => Gone'
<1> SUFFICES ASSUME TInv, Gone, [Next]_vars, NEW p \in Procs, main'[p] \in {"down", "exited"}
             PROVE  /\ feeder'[p] = "ended" /\ queue'[p] = <<>> /\ tasks'[p] = <<>> /\ held'[p] = NoFile
                    /\ \A x \in Workers : x[1] = p => worker'[x] = "idle"
  BY DEF Gone
<1> DEFINE Nothing == /\ feeder'[p] = "ended" /\ queue'[p] = <<>> /\ tasks'[p] = <<>> /\ held'[p] = NoFile
                      /\ \A x \in Workers : x[1] = p => worker'[x] = "idle"
<1>1. ASSUME Quiet PROVE Nothing
  BY <1>1 DEF Gone, Quiet, Kept
<1>2. ASSUME NEW q \in Procs, NEW f \in Files, Takes(q, f) PROVE Nothing
  <2>1. /\ main' = main /\ feeder' = feeder /\ tasks' = tasks /\ held' = held /\ worker' = worker
        /\ main[q] \in {"target", "source"} \/ feeder[q] # "ended"
        /\ queue' = queue \/ queue' = [queue EXCEPT ![q] = Append(@, f)]
    BY <1>2 DEF Takes, Wins
  <2>2. p # q /\ queue'[p] = queue[p]
    <3>1. p # q
      BY <2>1 DEF Gone
    <3> QED
      BY <2>1, <3>1 DEF TInv, TypeOK
  <2> QED
    BY <2>1, <2>2 DEF Gone
<1>3. ASSUME NEW q \in Procs, Boot(q) PROVE Nothing
  <2>1. main'[q] = "target" /\ (p # q => main'[p] = main[p])
    BY <1>3 DEF Boot, TInv, TypeOK
  <2>2. feeder' = feeder /\ queue' = queue /\ tasks' = tasks /\ held' = held /\ worker' = worker
    BY <1>3 DEF Boot, feed
  <2> QED
    BY <2>1, <2>2 DEF Gone
<1>4. ASSUME NEW q \in Procs, NextFile(q) \/ Submit(q) PROVE Nothing
  <2>1. /\ main' = main /\ worker' = worker /\ feeder[q] # "ended"
    BY <1>4 DEF NextFile, Submit, control, pool
  <2>2. p # q
    BY <2>1 DEF Gone
  <2>3. feeder'[p] = feeder[p] /\ queue'[p] = queue[p] /\ tasks'[p] = tasks[p] /\ held'[p] = held[p]
    BY <1>4, <2>2 DEF NextFile, Submit, watcher, pool, TInv, TypeOK
  <2> QED
    BY <2>1, <2>3 DEF Gone
<1>5. ASSUME NEW q \in Procs, Exit(q) \/ Crash(q) PROVE Nothing
  <2>1. Forget(q) /\ (p # q => main'[p] = main[p])
    BY <1>5 DEF Exit, Crash, TInv, TypeOK
  <2>2. CASE p = q
    BY <2>1, <2>2, Forgets
  <2>3. CASE p # q
    <3>1. /\ queue'[p] = queue[p] /\ tasks'[p] = tasks[p] /\ held'[p] = held[p] /\ feeder'[p] = feeder[p]
          /\ \A x \in Workers : x[1] = p => worker'[x] = worker[x]
      BY <2>1, <2>3, Forgets
    <3> QED
      BY <2>1, <2>3, <3>1 DEF Gone
  <2> QED
    BY <2>2, <2>3
<1>6. ASSUME NEW y \in Workers, Begin(y) PROVE Nothing
  <2>1. main' = main /\ feeder' = feeder /\ queue' = queue /\ held' = held
    BY <1>6 DEF Begin, control, watcher, feed
  <2>2. PICK q \in Procs : q = y[1]
    BY DEF Workers
  <2>3. tasks[q] # <<>> /\ (p # q => tasks'[p] = tasks[p]) /\ \A x \in Workers : x # y => worker'[x] = worker[x]
    BY <1>6, <2>2, TasksGive DEF Begin
  <2>4. p # q
    BY <2>1, <2>3 DEF Gone
  <2> QED
    BY <2>1, <2>2, <2>3, <2>4 DEF Gone
<1>7. ASSUME NEW y \in Workers, Dispose(y) PROVE Nothing
  <2>1. /\ main' = main /\ queue' = queue /\ held' = held /\ tasks' = tasks /\ worker'[y] = "idle"
        /\ \A x \in Workers : x # y => worker'[x] = worker[x]
    BY <1>7, WorkerGives
  <2>2. feeder' = feeder
    BY <1>7 DEF Dispose, feed
  <2> QED
    BY <2>1, <2>2 DEF Gone
<1>8. Nothing
  <2> HIDE DEF Nothing
  <2> QED
    BY <1>1, <1>2, <1>3, <1>4, <1>5, <1>6, <1>7, StepKinds
<1> QED
  BY <1>8

LEMMA GoneAlways == Spec => []Gone
<1>1. Init => Gone
  BY DEF Init, Gone
<1> QED
  BY <1>1, GoneNext, TypeAlways, PTL DEF Spec

LEMMA StaysClaimed ==
    ASSUME HInv, Gains, GoesOn
    PROVE  HasClaimed'
<1> SUFFICES ASSUME NEW p \in Procs, NEW f \in Files, Has(p, f)'
             PROVE  dir'[f] \in {"process", "done", "fail"}
  BY DEF HasClaimed, Claimed
<1> QED
  BY DEF HInv, HasClaimed, Gains, GoesOn

(* Steps of which no worker of the process ends its file. *)
LEMMA BegunOf ==
    ASSUME HInv, GoesOn, NEW p \in Procs, main'[p] # "down" => main[p] # "down",
           begun'[p] \subseteq Files,
           \A f \in begun'[p] : f \in begun[p] \/ \E x \in Workers : x[1] = p /\ Works(x, f)',
           \A x \in Workers : x[1] = p /\ worker[x] # "idle" => worker'[x] # "idle" /\ file'[x] = file[x]
    PROVE  \A f \in Files : main'[p] # "down" /\ f \in begun'[p] =>
               dir'[f] \in {"done", "fail"} \/ \E x \in Workers : x[1] = p /\ Works(x, f)'
<1> SUFFICES ASSUME NEW f \in Files, main'[p] # "down", f \in begun'[p]
             PROVE  dir'[f] \in {"done", "fail"} \/ \E x \in Workers : x[1] = p /\ Works(x, f)'
  OBVIOUS
<1>1. CASE f \in begun[p]
  <2>1. Settled(f) \/ \E x \in Workers : x[1] = p /\ Works(x, f)
    BY <1>1 DEF HInv, BegunStays
  <2> QED
    BY <2>1 DEF GoesOn, Settled, Works
<1>2. CASE \E x \in Workers : x[1] = p /\ Works(x, f)'
  BY <1>2
<1> QED
  BY <1>1, <1>2

LEMMA HalfNext ==
    ASSUME "rename" \notin Faults, TInv, HInv, [Next]_vars, TInv'
    PROVE  HInv'
<1> DEFINE Stays(p) == \A f \in Files : main'[p] # "down" /\ f \in begun'[p] =>
               dir'[f] \in {"done", "fail"} \/ \E x \in Workers : x[1] = p /\ Works(x, f)'
<1>1. Gains /\ GoesOn
  BY AllGain, DirGoesOn
<1>2. HasClaimed'
  BY <1>1, StaysClaimed
<1>3. \A p \in Procs : begun'[p] \subseteq Files
  BY DEF TInv, TypeOK
<1>4. ASSUME Quiet, NEW p \in Procs PROVE Stays(p)
  BY <1>1, <1>3, <1>4, BegunOf DEF Quiet, Kept
<1>5. ASSUME NEW q \in Procs, NEW g \in Files, Takes(q, g), NEW p \in Procs PROVE Stays(p)
  BY <1>1, <1>3, <1>5, BegunOf DEF Takes
<1>6. ASSUME NEW q \in Procs, NextFile(q) \/ Submit(q), NEW p \in Procs PROVE Stays(p)
  <2>1. main' = main /\ begun' = begun /\ worker' = worker /\ file' = file
    BY <1>6 DEF NextFile, Submit, control, pool
  <2> QED
    BY <1>1, <1>3, <2>1, BegunOf
<1>7. ASSUME NEW q \in Procs, Boot(q), NEW p \in Procs PROVE Stays(p)
  <2>1. /\ worker' = worker /\ file' = file
        /\ p = q => begun'[p] = {}
        /\ p # q => begun'[p] = begun[p] /\ main'[p] = main[p]
    BY <1>7 DEF Boot, TInv, TypeOK
  <2>2. CASE p = q
    BY <2>1, <2>2
  <2>3. CASE p # q
    BY <1>1, <1>3, <2>1, <2>3, BegunOf
  <2> QED
    BY <2>2, <2>3
<1>8. ASSUME NEW q \in Procs, Exit(q) \/ Crash(q), NEW p \in Procs PROVE Stays(p)
  <2>1. /\ begun' = begun /\ Forget(q) /\ (p # q => main'[p] = main[p])
        /\ dir' = dir
    BY <1>8 DEF Exit, Crash, TInv, TypeOK, world, store
  <2>2. CASE p # q
    <3>1. \A x \in Workers : x[1] = p => worker'[x] = worker[x] /\ file'[x] = file[x]
      BY <2>1, <2>2, Forgets
    <3>2. main'[p] = main[p] /\ begun'[p] = begun[p]
      BY <2>1, <2>2
    <3> QED
      BY <1>1, <1>3, <3>1, <3>2, BegunOf
  <2>3. CASE p = q /\ Crash(q)
    BY <2>3 DEF Crash, TInv, TypeOK
  <2>4. CASE p = q /\ Exit(q)
    <3>1. main[p] # "down" /\ \A x \in Workers : x[1] = p => worker[x] = "idle"
      BY <2>4 DEF Exit, PoolDrained
    <3>2. \A f \in Files : f \in begun[p] => Settled(f)
      BY <3>1 DEF HInv, BegunStays, Works
    <3>3. \A f \in Files : f \in begun'[p] => dir'[f] \in {"done", "fail"}
      BY <2>1, <3>2 DEF Settled
    <3> QED
      BY <3>3
  <2> QED
    BY <1>8, <2>2, <2>3, <2>4
<1>9. ASSUME NEW y \in Workers, Begin(y), NEW p \in Procs PROVE Stays(p)
  <2>1. main' = main
    BY <1>9 DEF Begin, control
  <2>2. PICK q \in Procs : q = y[1]
    BY DEF Workers
  <2>3. /\ worker[y] = "idle"
        /\ \A x \in Workers : x # y => worker'[x] = worker[x] /\ file'[x] = file[x]
        /\ \/ worker'[y] = "idle" /\ begun' = begun
           \/ /\ worker'[y] = "resume" /\ file'[y] = Head(tasks[q])
              /\ begun' = [begun EXCEPT ![q] = @ \cup {Head(tasks[q])}]
    BY <1>9, <2>2, TasksGive
  <2>4. \A f \in begun'[p] : f \in begun[p] \/ \E x \in Workers : x[1] = p /\ Works(x, f)'
    <3>1. CASE begun' = begun
      BY <3>1
    <3>2. CASE /\ worker'[y] = "resume" /\ file'[y] = Head(tasks[q])
               /\ begun' = [begun EXCEPT ![q] = @ \cup {Head(tasks[q])}]
      <4>1. PICK h : h = Head(tasks[q])
        OBVIOUS
      <4>2. \A f \in begun'[p] : f \in begun[p] \/ (p = q /\ f = h)
        BY <3>2, <4>1 DEF TInv, TypeOK
      <4>3. Works(y, h)'
        BY <3>2, <4>1 DEF Works
      <4> QED
        BY <2>2, <4>2, <4>3
    <3> QED
      BY <2>3, <3>1, <3>2
  <2> QED
    BY <1>1, <1>3, <2>1, <2>3, <2>4, BegunOf
<1>10. ASSUME NEW y \in Workers, Dispose(y), NEW p \in Procs PROVE Stays(p)
  <2>1. /\ main' = main /\ begun' = begun /\ worker[y] # "idle" /\ file[y] \in Files
        /\ \A x \in Workers : x # y => worker'[x] = worker[x] /\ file'[x] = file[x]
        /\ \/ dir[file[y]] = "process" /\ dir'[file[y]] \in {"done", "fail"}
           \/ dir[file[y]] # "process" /\ dir' = dir
    BY <1>10, WorkerGives
  <2>2. Claimed(file[y])
    <3>1. PICK q \in Procs : q = y[1]
      BY DEF Workers
    <3>2. Has(q, file[y])
      BY <2>1, <3>1 DEF Has, Works
    <3> QED
      BY <2>1, <3>2 DEF HInv, HasClaimed
  <2>3. dir'[file[y]] \in {"done", "fail"}
    BY <2>1, <2>2 DEF Claimed
  <2> SUFFICES ASSUME NEW f \in Files, main'[p] # "down", f \in begun'[p]
               PROVE  dir'[f] \in {"done", "fail"} \/ \E x \in Workers : x[1] = p /\ Works(x, f)'
    OBVIOUS
  <2>4. Settled(f) \/ \E x \in Workers : x[1] = p /\ Works(x, f)
    BY <2>1 DEF HInv, BegunStays
  <2>5. CASE Settled(f)
    BY <1>1, <2>5 DEF GoesOn, Settled
  <2>6. CASE \E x \in Workers : x[1] = p /\ Works(x, f)
    <3>1. PICK x \in Workers : x[1] = p /\ Works(x, f)
      BY <2>6
    <3>2. CASE x = y
      BY <2>3, <3>1, <3>2 DEF Works
    <3>3. CASE x # y
      BY <2>1, <3>1, <3>3 DEF Works
    <3> QED
      BY <3>2, <3>3
  <2> QED
    BY <2>4, <2>5, <2>6
<1>11. \A p \in Procs : Stays(p)
  <2> TAKE p \in Procs
  <2> HIDE DEF Stays
  <2> QED
    BY <1>4, <1>5, <1>6, <1>7, <1>8, <1>9, <1>10, StepKinds
<1>12. BegunStays'
  BY <1>11 DEF BegunStays, Settled
<1> QED
  BY <1>2, <1>12 DEF HInv

(* FileIngestor::stop() leaves no file half processed: what the workers of  *)
(* a run began has left the process directory when stop() has returned, for *)
(* any number of processes, if no rename fails (docs/DL_Design.md:138).     *)
THEOREM NothingHalfProcessed ==
    ASSUME "rename" \notin Faults
    PROVE  Spec => []NoneHalfProcessed
<1>1. TInv /\ Gone /\ HInv => NoneHalfProcessed
  <2> SUFFICES ASSUME TInv, Gone, HInv, NEW p \in Procs, main[p] = "exited", NEW f \in begun[p]
               PROVE  dir[f] \in {"done", "fail"}
    BY DEF NoneHalfProcessed
  <2>1. f \in Files
    BY DEF TInv, TypeOK
  <2>2. \A x \in Workers : x[1] = p => worker[x] = "idle"
    BY DEF Gone
  <2> QED
    BY <2>1, <2>2 DEF HInv, BegunStays, Settled, Works
<1>2. HInv /\ TInv /\ TInv' /\ [Next]_vars => HInv'
  BY HalfNext
<1> QED
  BY <1>1, <1>2, HalfInit, TypeAlways, GoneAlways, PTL DEF Spec

-----------------------------------------------------------------------------
(* Nothing is counted twice. *)

InPlace(p, f) == f \in Elems(queue[p]) \/ f \in Elems(tasks[p]) \/ held[p] = f

(* A file is in one place of a process at most, and there only once.        *)
OneEach(p) ==
    /\ Same(queue[p]) /\ Same(tasks[p])
    /\ \A f \in Elems(queue[p]) : f \notin Elems(tasks[p]) /\ f # held[p]
    /\ \A f \in Elems(tasks[p]) : f # held[p]
    /\ \A x \in Workers : x[1] = p /\ worker[x] # "idle" => ~InPlace(p, file[x])
    /\ \A x, y \in Workers :
           x[1] = p /\ y[1] = p /\ worker[x] # "idle" /\ worker[y] # "idle" /\ file[x] = file[y] => x = y
    /\ \A f \in Files : main[p] = "target" /\ f \in todo[p] =>
           ~InPlace(p, f) /\ \A x \in Workers : x[1] = p => ~Works(x, f)

HasProcess == \A p \in Procs, f \in Files : Has(p, f) => dir[f] = "process"

EInv == HasProcess /\ \A p \in Procs : OneEach(p)

LEMMA OneInit == Init => EInv
<1> SUFFICES ASSUME Init PROVE EInv
  OBVIOUS
<1>1. \A p \in Procs : queue[p] = <<>> /\ tasks[p] = <<>> /\ held[p] = NoFile /\ main[p] = "down"
  BY DEF Init
<1>2. \A x \in Workers : worker[x] = "idle"
  BY DEF Init
<1> QED
  BY <1>1, <1>2, ElemsEmpty DEF EInv, HasProcess, OneEach, InPlace, Has, Works

(* Steps that leave the places of a process as they are, or empty one. *)
LEMMA OneKept ==
    ASSUME NEW p \in Procs, OneEach(p),
           queue'[p] = queue[p], tasks'[p] = tasks[p], held'[p] = held[p],
           \A x \in Workers : x[1] = p /\ worker'[x] # "idle" => worker[x] # "idle" /\ file'[x] = file[x],
           main'[p] = "target" => main[p] = "target" /\ todo'[p] \subseteq todo[p]
    PROVE  OneEach(p)'
BY DEF OneEach, InPlace, Works

LEMMA OneTakes ==
    ASSUME TInv, EInv, NEW p \in Procs, NEW f \in Files, Takes(p, f), NEW q \in Procs
    PROVE  OneEach(q)'
<1>1. /\ tasks' = tasks /\ held' = held /\ file' = file /\ worker' = worker /\ main' = main
      /\ \A r \in Procs : todo'[r] \subseteq todo[r]
  BY DEF Takes
<1>2. CASE queue' = queue
  BY <1>1, <1>2, OneKept DEF EInv
<1>3. CASE queue' = [queue EXCEPT ![p] = Append(@, f)]
  <2>1. /\ \A r \in Procs : r # p => queue'[r] = queue[r]
        /\ Elems(queue'[p]) = Elems(queue[p]) \cup {f}
        /\ Same(queue[p]) /\ f \notin Elems(queue[p]) => Same(queue'[p])
    BY <1>3, QueueGrows
  <2>2. CASE q # p
    BY <1>1, <2>1, <2>2, OneKept DEF EInv
  <2>3. ~InPlace(p, f) /\ (\A x \in Workers : x[1] = p => ~Works(x, f)) /\ (main[p] = "target" => f \notin todo'[p])
    <3>1. CASE Wins(p, f)
      <4>1. dir[f] # "process"
        BY <3>1 DEF Wins
      <4>2. ~Has(p, f)
        BY <4>1 DEF EInv, HasProcess
      <4> QED
        BY <1>1, <4>2 DEF Has, InPlace
    <3>2. CASE main[p] = "target" /\ f \in todo[p] /\ f \notin todo'[p]
      BY <3>2 DEF EInv, OneEach
    <3>3. CASE queue' = queue
      <4>1. Elems(queue'[p]) = Elems(queue[p]) /\ Len(queue'[p]) = Len(queue[p])
        BY <3>3
      <4>2. queue[p] \in Seq(Files) /\ queue'[p] = Append(queue[p], f)
        BY <1>3 DEF TInv, TypeOK
      <4>3. Len(queue'[p]) = Len(queue[p]) + 1 /\ Len(queue[p]) \in Nat
        BY <4>2
      <4> QED
        BY <4>1, <4>3
    <3> QED
      BY <3>1, <3>2, <3>3 DEF Takes
  <2>4. CASE q = p
    <3>1. OneEach(p)
      BY DEF EInv
    <3> QED
      BY <1>1, <2>1, <2>3, <2>4, <3>1 DEF OneEach, InPlace, Works
  <2> QED
    BY <2>2, <2>4
<1> QED
  BY <1>2, <1>3 DEF Takes, Wins

LEMMA OneBoot ==
    ASSUME TInv, EInv, Gone, NEW p \in Procs, Boot(p), NEW q \in Procs
    PROVE  OneEach(q)'
<1>1. /\ queue' = queue /\ tasks' = tasks /\ held' = held /\ file' = file /\ worker' = worker
      /\ q # p => main'[q] = main[q] /\ todo'[q] = todo[q]
  BY DEF Boot, feed, TInv, TypeOK
<1>2. CASE q # p
  BY <1>1, <1>2, OneKept DEF EInv
<1>3. CASE q = p
  <2>1. queue[p] = <<>> /\ tasks[p] = <<>> /\ held[p] = NoFile /\ \A x \in Workers : x[1] = p => worker[x] = "idle"
    BY DEF Boot, Gone
  <2> QED
    BY <1>1, <1>3, <2>1, ElemsEmpty DEF OneEach, InPlace, Works
<1> QED
  BY <1>2, <1>3

LEMMA OnePass ==
    ASSUME TInv, EInv, NEW p \in Procs, NextFile(p) \/ Submit(p), NEW q \in Procs
    PROVE  OneEach(q)'
<1>1. file' = file /\ worker' = worker /\ main' = main /\ todo' = todo
  BY DEF NextFile, Submit, control, watcher, pool
<1>2. OneEach(q) /\ OneEach(p)
  BY DEF EInv
<1>3. CASE NextFile(p)
  <2>1. tasks' = tasks
    BY <1>3 DEF NextFile, pool
  <2>2. /\ q # p => queue'[q] = queue[q] /\ held'[q] = held[q]
        /\ Elems(queue'[p]) \subseteq Elems(queue[p]) /\ held'[p] \in Elems(queue[p])
        /\ Same(queue[p]) => Same(queue'[p]) /\ held'[p] \notin Elems(queue'[p])
    BY <1>3, QueueGives
  <2>3. CASE q # p
    BY <1>1, <1>2, <2>1, <2>2, <2>3, OneKept
  <2>4. CASE q = p
    BY <1>1, <1>2, <2>1, <2>2, <2>4 DEF OneEach, InPlace, Works
  <2> QED
    BY <2>3, <2>4
<1>4. CASE Submit(p)
  <2>1. queue' = queue
    BY <1>4 DEF Submit, watcher
  <2>2. /\ q # p => tasks'[q] = tasks[q] /\ held'[q] = held[q]
        /\ held[p] \in Files /\ held'[p] = NoFile
        /\ Elems(tasks'[p]) = Elems(tasks[p]) \cup {held[p]}
        /\ Same(tasks[p]) /\ held[p] \notin Elems(tasks[p]) => Same(tasks'[p])
    BY <1>4, TasksGrow
  <2>3. CASE q # p
    BY <1>1, <1>2, <2>1, <2>2, <2>3, OneKept
  <2>4. CASE q = p
    <3>1. NoFile \notin Elems(queue[p]) /\ NoFile \notin Elems(tasks[p]) /\ NoFile # held[p]
      <4>1. queue[p] \in Seq(Files) /\ tasks[p] \in Seq(Files)
        BY DEF TInv, TypeOK
      <4> QED
        BY <2>2, <4>1 DEF Elems
    <3>2. \A x \in Workers : worker[x] # "idle" => file[x] \in Files
      BY DEF TInv, Carrying
    <3>3. held[p] \notin Elems(queue[p]) /\ held[p] \notin Elems(tasks[p])
      BY <1>2 DEF OneEach
    <3> QED
      BY <1>1, <1>2, <2>1, <2>2, <2>4, <3>1, <3>2, <3>3 DEF OneEach, InPlace, Works
  <2> QED
    BY <2>3, <2>4
<1> QED
  BY <1>3, <1>4

LEMMA OneEnd ==
    ASSUME TInv, EInv, NEW p \in Procs, Exit(p) \/ Crash(p), NEW q \in Procs
    PROVE  OneEach(q)'
<1>1. /\ Forget(p) /\ main'[p] # "target"
      /\ q # p => main'[q] = main[q]
  BY DEF Exit, Crash, TInv, TypeOK
<1>2. CASE q # p
  <2>1. /\ queue'[q] = queue[q] /\ tasks'[q] = tasks[q] /\ held'[q] = held[q] /\ todo'[q] = todo[q]
        /\ \A x \in Workers : x[1] = q => worker'[x] = worker[x] /\ file'[x] = file[x]
    BY <1>1, <1>2, Forgets
  <2> QED
    BY <1>1, <1>2, <2>1, OneKept DEF EInv
<1>3. CASE q = p
  <2>1. /\ queue'[p] = <<>> /\ tasks'[p] = <<>> /\ held'[p] = NoFile
        /\ \A x \in Workers : x[1] = p => worker'[x] = "idle"
    BY <1>1, Forgets
  <2> QED
    BY <1>1, <1>3, <2>1, ElemsEmpty DEF OneEach, InPlace, Works
<1> QED
  BY <1>2, <1>3

LEMMA OneBegin ==
    ASSUME TInv, EInv, NEW x \in Workers, Begin(x), NEW q \in Procs
    PROVE  OneEach(q)'
<1>1. queue' = queue /\ held' = held /\ main' = main /\ todo' = todo
  BY DEF Begin, control, watcher, feed
<1>2. PICK p \in Procs : p = x[1]
  BY DEF Workers
<1>3. PICK h \in Files : h = Head(tasks[p])
  BY <1>2, TasksGive
<1>4. /\ q # p => tasks'[q] = tasks[q]
      /\ Elems(tasks'[p]) \subseteq Elems(tasks[p]) /\ h \in Elems(tasks[p])
      /\ Same(tasks[p]) => Same(tasks'[p]) /\ h \notin Elems(tasks'[p])
      /\ \A y \in Workers : y # x => worker'[y] = worker[y] /\ file'[y] = file[y]
      /\ worker'[x] = "idle" \/ file'[x] = h
  BY <1>2, <1>3, TasksGive
<1>5. OneEach(q) /\ OneEach(p)
  BY DEF EInv
<1>6. CASE q # p
  <2>1. \A y \in Workers : y[1] = q => worker'[y] = worker[y] /\ file'[y] = file[y]
    BY <1>2, <1>4, <1>6
  <2> QED
    BY <1>1, <1>4, <1>5, <1>6, <2>1, OneKept
<1>7. CASE q = p
  <2>1. Same(queue'[p]) /\ Same(tasks'[p])
    BY <1>1, <1>4, <1>5 DEF OneEach
  <2>2. /\ \A f \in Elems(queue'[p]) : f \notin Elems(tasks'[p]) /\ f # held'[p]
        /\ \A f \in Elems(tasks'[p]) : f # held'[p]
    BY <1>1, <1>4, <1>5 DEF OneEach
  <2>3. \A f \in Files : InPlace(p, f)' => InPlace(p, f) /\ f # h
    BY <1>1, <1>4, <1>5 DEF OneEach, InPlace
  <2>4. \A y \in Workers, f \in Files : y[1] = p /\ worker'[y] # "idle" /\ file'[y] = f =>
            (worker[y] # "idle" /\ file[y] = f /\ f # h) \/ (y = x /\ f = h)
    <3>1. \A y \in Workers : y[1] = p /\ worker[y] # "idle" => file[y] # h
      BY <1>4, <1>5 DEF OneEach, InPlace
    <3> QED
      BY <1>4, <3>1
  <2>5. \A y \in Workers : worker'[y] # "idle" => file'[y] \in Files
    BY <1>3, <1>4 DEF TInv, Carrying
  <2>6. ASSUME NEW y \in Workers, y[1] = p, worker'[y] # "idle", NEW f \in Files, file'[y] = f
        PROVE  ~(InPlace(p, f)')
    BY <1>5, <2>3, <2>4, <2>6 DEF OneEach
  <2>7. \A y, z \in Workers :
           y[1] = p /\ z[1] = p /\ worker'[y] # "idle" /\ worker'[z] # "idle" /\ file'[y] = file'[z] => y = z
    BY <1>5, <2>4, <2>5 DEF OneEach
  <2>8. \A f \in Files : main'[p] = "target" /\ f \in todo'[p] =>
           ~(InPlace(p, f)') /\ \A y \in Workers : y[1] = p => ~(Works(y, f)')
    <3>1. \A f \in Files : main[p] = "target" /\ f \in todo[p] =>
              f # h /\ ~InPlace(p, f) /\ \A y \in Workers : y[1] = p => ~Works(y, f)
      BY <1>4, <1>5 DEF OneEach, InPlace
    <3> QED
      BY <1>1, <2>3, <2>4, <3>1 DEF Works
  <2> QED
    BY <1>7, <2>1, <2>2, <2>5, <2>6, <2>7, <2>8 DEF OneEach, InPlace
<1> QED
  BY <1>6, <1>7

LEMMA OneNext ==
    ASSUME TInv, EInv, Gone, [Next]_vars, NEW q \in Procs
    PROVE  OneEach(q)'
<1>1. CASE Quiet
  BY <1>1, OneKept DEF EInv, Quiet, Kept, Swept
<1>2. ASSUME NEW x \in Workers, Dispose(x) PROVE OneEach(q)'
  <2>1. /\ queue' = queue /\ tasks' = tasks /\ held' = held /\ main' = main /\ todo' = todo
        /\ \A y \in Workers : worker'[y] # "idle" => worker[y] # "idle" /\ file'[y] = file[y]
    BY <1>2, WorkerGives
  <2> QED
    BY <2>1, OneKept DEF EInv
<1> QED
  BY <1>1, <1>2, OneTakes, OneBoot, OnePass, OneEnd, OneBegin, StepKinds

(* One process over its directories, as the design has it.                  *)
Alone == \A p, q \in Procs : p = q

LEMMA ProcessNext ==
    ASSUME Alone, TInv, EInv, Gone, [Next]_vars
    PROVE  EInv'
<1>1. Gains /\ GoesOn
  BY AllGain, DirGoesOn
<1>2. \A p \in Procs : OneEach(p)'
  BY OneNext
<1>3. ASSUME NEW p \in Procs, NEW f \in Files, Has(p, f)', dir'[f] # "process" PROVE FALSE
  <2>1. dir[f] = "process" /\ Has(p, f)
    BY <1>1, <1>3 DEF Gains, EInv, HasProcess
  <2>2. PICK x \in Workers : file[x] = f /\ Dispose(x)
    BY <1>1, <1>3, <2>1 DEF GoesOn
  <2>3. x[1] = p
    <3>1. x[1] \in Procs
      BY DEF Workers
    <3> QED
      BY <3>1 DEF Alone
  <2>4. /\ queue' = queue /\ tasks' = tasks /\ held' = held /\ main' = main /\ todo' = todo
        /\ worker[x] # "idle" /\ worker'[x] = "idle"
        /\ \A y \in Workers : y # x => worker'[y] = worker[y] /\ file'[y] = file[y]
    BY <2>2, WorkerGives
  <2>5. OneEach(p)
    BY DEF EInv
  <2>6. ~InPlace(p, f)
    BY <2>2, <2>3, <2>4, <2>5 DEF OneEach
  <2>7. \A y \in Workers : y[1] = p /\ Works(y, f) => y = x
    BY <2>2, <2>3, <2>4, <2>5 DEF OneEach, Works
  <2>8. ~(main[p] = "target" /\ f \in todo[p])
    BY <2>2, <2>3, <2>4, <2>5 DEF OneEach, Works
  <2> QED
    BY <1>3, <2>4, <2>6, <2>7, <2>8 DEF Has, InPlace, Works
<1> QED
  BY <1>2, <1>3 DEF EInv, HasProcess

(* What was counted no more often than it was excused may be counted once   *)
(* more: behind its mark a file has nothing else, and neither has a worker  *)
(* before it.                                                               *)
Spare(f, b) == counted[f][b] <= excused[f][b]
SpareThen(f, b) == counted'[f][b] <= excused'[f][b]

Within == \A f \in Files, b \in Batches :
    counted[f][b] <= 1 + excused[f][b] /\ (b > progress[f] => Spare(f, b))
Ahead == \A x \in Workers, b \in Batches :
    worker[x] \in {"open", "read"} /\ b >= next[x] => Spare(file[x], b)

NInv == Within /\ Ahead

LEMMA CountInit == Init => NInv
<1> SUFFICES ASSUME Init PROVE NInv
  OBVIOUS
<1>1. \A f \in Files, b \in Batches : counted[f][b] = 0 /\ excused[f][b] = 0
  BY DEF Init
<1>2. \A x \in Workers : worker[x] = "idle"
  BY DEF Init
<1> QED
  BY <1>1, <1>2 DEF NInv, Within, Ahead, Spare

LEMMA CountApart ==
    ASSUME NInv, Apart, NoneReads
    PROVE  NInv'
<1>1. \A f, b : Spare(f, b)' <=> Spare(f, b)
  BY DEF Apart, Spare
<1> QED
  BY <1>1 DEF NInv, Within, Ahead, Apart, NoneReads

(* What the two books look like after a step.                               *)
LEMMA BookKeeping ==
    ASSUME TInv, NEW f \in Files, NEW b \in Batches, NEW S, NEW g \in Files, NEW c \in Batches
    PROVE  /\ counted[g][c] \in Nat /\ excused[g][c] \in Nat /\ progress[g] \in Nat
           /\ c \in Nat /\ c >= 1
           /\ Counts(f, b) => counted'[g][c] = counted[g][c] + (IF g = f /\ c = b THEN 1 ELSE 0)
           /\ Excuses(f, S) => excused'[g][c] = excused[g][c] + (IF g = f /\ c \in S THEN 1 ELSE 0)
           /\ Marks(f, b) => progress'[g] = IF g = f THEN b ELSE progress[g]
<1>1. /\ counted \in [Files -> [Batches -> Nat]] /\ excused \in [Files -> [Batches -> Nat]]
      /\ progress \in [Files -> 0 .. NBatches]
  BY DEF TInv, TypeOK
<1>2. counted[g][c] \in Nat /\ excused[g][c] \in Nat /\ progress[g] \in Nat
  BY <1>1
<1>3. c \in Nat /\ c >= 1
  BY DEF Batches
<1>4. ASSUME Counts(f, b) PROVE counted'[g][c] = counted[g][c] + (IF g = f /\ c = b THEN 1 ELSE 0)
  <2>1. counted' = [counted EXCEPT ![f] = [counted[f] EXCEPT ![b] = counted[f][b] + 1]]
    BY <1>4 DEF Counts
  <2>2. counted'[g] = IF g = f THEN [counted[f] EXCEPT ![b] = counted[f][b] + 1] ELSE counted[g]
    BY <1>1, <2>1
  <2>3. counted[f] \in [Batches -> Nat]
    BY <1>1
  <2> QED
    BY <1>2, <2>2, <2>3
<1>5. Excuses(f, S) => excused'[g][c] = excused[g][c] + (IF g = f /\ c \in S THEN 1 ELSE 0)
  BY DEF Excuses
<1>6. Marks(f, b) => progress'[g] = IF g = f THEN b ELSE progress[g]
  BY <1>1 DEF Marks
<1> QED
  BY <1>2, <1>3, <1>4, <1>5, <1>6

(* A step that leaves all that is spare so, and sets no mark back.          *)
LEMMA CountKept ==
    ASSUME NInv,
           \A g \in Files, c \in Batches : Spare(g, c) => SpareThen(g, c),
           \A g \in Files, c \in Batches : counted'[g][c] <= 1 + excused'[g][c],
           \A g \in Files, c \in Batches : c > progress'[g] => SpareThen(g, c),
           \A y \in Workers, c \in Batches :
               worker'[y] \in {"open", "read"} /\ c >= next'[y] => SpareThen(file'[y], c)
    PROVE  NInv'
BY DEF NInv, Within, Ahead, Spare, SpareThen

LEMMA CountResume ==
    ASSUME TInv, NInv, NEW x \in Workers, Resume(x)
    PROVE  NInv'
<1>1. /\ progress' = progress /\ counted' = counted /\ file' = file
      /\ worker' = [worker EXCEPT ![x] = "open"]
  BY DEF Resume
<1>2. file[x] \in Files
  BY DEF Resume, TInv, Carrying
<1>3. \A g \in Files, c \in Batches :
          /\ counted[g][c] \in Nat /\ excused[g][c] \in Nat /\ progress[g] \in Nat /\ c \in Nat /\ c >= 1
          /\ excused'[g][c] \in Nat /\ excused'[g][c] >= excused[g][c]
  <2> SUFFICES ASSUME NEW g \in Files, NEW c \in Batches
               PROVE  /\ counted[g][c] \in Nat /\ excused[g][c] \in Nat /\ progress[g] \in Nat
                      /\ c \in Nat /\ c >= 1
                      /\ excused'[g][c] \in Nat /\ excused'[g][c] >= excused[g][c]
    OBVIOUS
  <2>1. excused' = excused \/ Excuses(file[x], 1 .. progress[file[x]])
    BY DEF Resume
  <2> QED
    BY <1>2, <2>1, BookKeeping
<1>4. ASSUME NEW c \in Batches, c >= next'[x] PROVE SpareThen(file[x], c)
  <2>1. CASE next' = [next EXCEPT ![x] = progress[file[x]] + 1]
    <3>1. c > progress[file[x]]
      BY <1>2, <1>3, <1>4, <2>1 DEF TInv, TypeOK
    <3>2. Spare(file[x], c)
      BY <1>2, <3>1 DEF NInv, Within
    <3> QED
      BY <1>1, <1>2, <1>3, <3>2 DEF Spare, SpareThen
  <2>2. CASE Excuses(file[x], 1 .. progress[file[x]])
    <3>1. CASE c > progress[file[x]]
      <4>1. Spare(file[x], c)
        BY <1>2, <3>1 DEF NInv, Within
      <4> QED
        BY <1>1, <1>2, <1>3, <4>1 DEF Spare, SpareThen
    <3>2. CASE ~(c > progress[file[x]])
      <4>1. c \in 1 .. progress[file[x]]
        BY <1>2, <1>3, <3>2
      <4>2. excused'[file[x]][c] = excused[file[x]][c] + 1
        BY <1>2, <2>2, <4>1, BookKeeping
      <4>3. counted[file[x]][c] <= 1 + excused[file[x]][c]
        BY <1>2 DEF NInv, Within
      <4> QED
        BY <1>1, <1>2, <1>3, <4>2, <4>3 DEF SpareThen
    <3> QED
      BY <3>1, <3>2
  <2> QED
    BY <2>1, <2>2 DEF Resume, FirstUnmarked
<1>5. \A y \in Workers : y # x => worker'[y] = worker[y] /\ next'[y] = next[y]
  BY DEF Resume, TInv, TypeOK
<1>6. \A g \in Files, c \in Batches : Spare(g, c) => SpareThen(g, c)
  BY <1>1, <1>3 DEF Spare, SpareThen
<1>7. \A g \in Files, c \in Batches : counted'[g][c] <= 1 + excused'[g][c]
  <2>1. \A g \in Files, c \in Batches : counted[g][c] <= 1 + excused[g][c]
    BY DEF NInv, Within
  <2> QED
    BY <1>1, <1>3, <2>1
<1>8. \A g \in Files, c \in Batches : c > progress'[g] => SpareThen(g, c)
  BY <1>1, <1>6 DEF NInv, Within
<1>9. ASSUME NEW y \in Workers, NEW c \in Batches, worker'[y] \in {"open", "read"}, c >= next'[y]
      PROVE  SpareThen(file'[y], c)
  <2>1. CASE y = x
    BY <1>1, <1>4, <1>9, <2>1
  <2>2. CASE y # x
    <3>1. file[y] \in Files /\ Spare(file[y], c)
      BY <1>5, <1>9, <2>2 DEF NInv, Ahead, TInv, Carrying
    <3> QED
      BY <1>1, <1>6, <3>1
  <2> QED
    BY <2>1, <2>2
<1> QED
  BY <1>6, <1>7, <1>8, <1>9, CountKept

LEMMA CountConsume ==
    ASSUME Alone, TInv, EInv, NInv, NEW x \in Workers, Consume(x)
    PROVE  NInv'
<1>1. /\ file' = file /\ worker' = worker /\ worker[x] = "read" /\ next[x] <= NBatches
      /\ next' = [next EXCEPT ![x] = next[x] + 1]
  BY DEF Consume
<1>2. PICK f \in Files, b \in Batches : f = file[x] /\ b = next[x]
  <2>1. next[x] \in 0 .. NBatches + 1 /\ next[x] >= 1 /\ file[x] \in Files
    BY <1>1 DEF TInv, TypeOK, Carrying
  <2>2. next[x] \in Batches
    BY <1>1, <2>1 DEF Batches
  <2> QED
    BY <2>1, <2>2
<1>3. /\ b \in Nat /\ next'[x] = b + 1 /\ \A y \in Workers : y # x => next'[y] = next[y]
  BY <1>1, <1>2 DEF TInv, TypeOK, Batches
<1>4. /\ \A c \in Batches : c \in Nat /\ (c >= b => Spare(f, c))
      /\ \A g \in Files, c \in Batches : counted[g][c] <= 1 + excused[g][c]
  BY <1>1, <1>2 DEF NInv, Ahead, Within, Batches
<1>5. \/ counted' = counted /\ excused' = excused /\ progress' = progress
      \/ Counts(f, b) /\ excused' = excused /\ Marks(f, b)
      \/ Counts(f, b) /\ Excuses(f, {b}) /\ progress' = progress
  BY <1>2 DEF Consume
<1>6. \A g \in Files, c \in Batches : Spare(g, c) /\ ~(g = f /\ c = b) => SpareThen(g, c)
  <2> SUFFICES ASSUME NEW g \in Files, NEW c \in Batches, Spare(g, c), ~(g = f /\ c = b)
               PROVE  SpareThen(g, c)
    OBVIOUS
  <2>1. /\ counted[g][c] \in Nat /\ excused[g][c] \in Nat
        /\ counted' = counted \/ counted'[g][c] = counted[g][c]
        /\ excused' = excused \/ excused'[g][c] = excused[g][c]
    BY <1>5, BookKeeping
  <2> QED
    BY <2>1 DEF Spare, SpareThen
<1>7. Spare(f, b) /\ counted[f][b] \in Nat /\ excused[f][b] \in Nat
  BY <1>3, <1>4, BookKeeping
<1>8. ASSUME NEW y \in Workers, y # x, worker[y] \in {"open", "read"} PROVE file[y] \in Files /\ file[y] # f
  <2>1. PICK p \in Procs : p = x[1] /\ p = y[1]
    BY DEF Workers, Alone
  <2>2. OneEach(p)
    BY DEF EInv
  <2> QED
    BY <1>1, <1>2, <1>8, <2>1, <2>2 DEF OneEach, TInv, Carrying
<1>9. CASE SpareThen(f, b) /\ progress' = progress
  <2>1. \A g \in Files, c \in Batches : Spare(g, c) => SpareThen(g, c)
    BY <1>6, <1>9
  <2>2. \A g \in Files, c \in Batches : c > progress'[g] => SpareThen(g, c)
    BY <1>9, <2>1 DEF NInv, Within
  <2>3. ASSUME NEW y \in Workers, NEW c \in Batches, worker'[y] \in {"open", "read"}, c >= next'[y]
        PROVE  SpareThen(file'[y], c)
    <3>1. CASE y = x
      <4>1. c >= b
        BY <1>3, <1>4, <2>3, <3>1
      <4> QED
        BY <1>1, <1>2, <1>4, <2>1, <3>1, <4>1
    <3>2. CASE y # x
      BY <1>1, <1>3, <1>8, <2>1, <2>3, <3>2 DEF NInv, Ahead
    <3> QED
      BY <3>1, <3>2
  <2>4. ASSUME NEW g \in Files, NEW c \in Batches PROVE counted'[g][c] <= 1 + excused'[g][c]
    <3>1. CASE g = f /\ c = b
      <4>1. counted'[f][b] \in Nat /\ excused'[f][b] \in Nat
        BY <1>5, <1>7, BookKeeping
      <4> QED
        BY <1>9, <3>1, <4>1 DEF SpareThen
    <3>2. CASE ~(g = f /\ c = b)
      <4>1. /\ counted' = counted \/ counted'[g][c] = counted[g][c]
            /\ excused' = excused \/ excused'[g][c] = excused[g][c]
        BY <1>5, <3>2, BookKeeping
      <4> QED
        BY <1>4, <4>1
    <3> QED
      BY <3>1, <3>2
  <2> QED
    BY <2>1, <2>2, <2>3, <2>4, CountKept
<1>10. CASE Counts(f, b) /\ excused' = excused /\ Marks(f, b)
  <2>1. \A g \in Files, c \in Batches :
            /\ counted'[g][c] = counted[g][c] + (IF g = f /\ c = b THEN 1 ELSE 0)
            /\ progress'[g] = IF g = f THEN b ELSE progress[g]
    BY <1>10, BookKeeping
  <2>2. ASSUME NEW g \in Files, NEW c \in Batches PROVE counted'[g][c] <= 1 + excused'[g][c]
    <3>1. counted[g][c] \in Nat /\ excused[g][c] \in Nat
      BY BookKeeping
    <3>2. CASE g = f /\ c = b
      BY <1>7, <1>10, <2>1, <3>2 DEF Spare
    <3>3. CASE ~(g = f /\ c = b)
      BY <1>4, <1>10, <2>1, <3>1, <3>3
    <3> QED
      BY <3>2, <3>3
  <2>3. ASSUME NEW g \in Files, NEW c \in Batches, c > progress'[g] PROVE SpareThen(g, c)
    <3>1. CASE g = f
      BY <1>3, <1>4, <1>6, <2>1, <2>3, <3>1
    <3>2. CASE g # f
      BY <1>6, <2>1, <2>3, <3>2 DEF NInv, Within
    <3> QED
      BY <3>1, <3>2
  <2>4. ASSUME NEW y \in Workers, NEW c \in Batches, worker'[y] \in {"open", "read"}, c >= next'[y]
        PROVE  SpareThen(file'[y], c)
    <3>1. CASE y = x
      <4>1. c >= b /\ c # b
        BY <1>3, <1>4, <2>4, <3>1
      <4> QED
        BY <1>1, <1>2, <1>4, <1>6, <3>1, <4>1
    <3>2. CASE y # x
      BY <1>1, <1>3, <1>6, <1>8, <2>4, <3>2 DEF NInv, Ahead
    <3> QED
      BY <3>1, <3>2
  <2> QED
    BY <2>2, <2>3, <2>4 DEF NInv, Within, Ahead, Spare, SpareThen
<1>11. CASE counted' = counted /\ excused' = excused /\ progress' = progress
  BY <1>7, <1>9, <1>11 DEF Spare, SpareThen
<1>12. CASE Counts(f, b) /\ Excuses(f, {b}) /\ progress' = progress
  <2>1. counted'[f][b] = counted[f][b] + 1 /\ excused'[f][b] = excused[f][b] + 1
    BY <1>12, BookKeeping
  <2> QED
    BY <1>7, <1>9, <1>12, <2>1 DEF Spare, SpareThen
<1> QED
  BY <1>5, <1>10, <1>11, <1>12

(* Landing late counts a batch that is excused, and excuses what its mark   *)
(* no longer covers.                                                        *)
LEMMA CountLandsLate ==
    ASSUME TInv, NInv, NEW f \in Files, NEW b \in Batches, LandsLate(f, b)
    PROVE  NInv'
<1>1. PICK S : /\ Counts(f, b) /\ Excuses(f, S) /\ b \in S
               /\ progress' = progress \/ (Marks(f, b) /\ b .. progress[f] \subseteq S)
  BY DEF LandsLate
<1>2. \A g \in Files, c \in Batches :
          /\ counted[g][c] \in Nat /\ excused[g][c] \in Nat /\ progress[g] \in Nat /\ c \in Nat
          /\ counted'[g][c] = counted[g][c] + (IF g = f /\ c = b THEN 1 ELSE 0)
          /\ excused'[g][c] = excused[g][c] + (IF g = f /\ c \in S THEN 1 ELSE 0)
  BY <1>1, BookKeeping
<1>3. \A g \in Files, c \in Batches : Spare(g, c) => SpareThen(g, c)
  BY <1>1, <1>2 DEF Spare, SpareThen
<1>4. \A g \in Files, c \in Batches : counted[g][c] <= 1 + excused[g][c]
  BY DEF NInv, Within
<1>5. \A g \in Files, c \in Batches : counted'[g][c] <= 1 + excused'[g][c]
  BY <1>1, <1>2, <1>4
<1>6. ASSUME NEW g \in Files, NEW c \in Batches, c > progress'[g] PROVE SpareThen(g, c)
  <2>1. CASE c > progress[g]
    BY <1>3, <2>1 DEF NInv, Within
  <2>2. CASE g = f /\ progress'[f] = b /\ b .. progress[f] \subseteq S /\ ~(c > progress[f])
    <3>1. c \in b .. progress[f] /\ c # b
      BY <1>2, <1>6, <2>2
    <3>2. counted'[f][c] = counted[f][c] /\ excused'[f][c] = excused[f][c] + 1
      BY <1>2, <2>2, <3>1
    <3> QED
      BY <1>2, <1>4, <2>2, <3>2 DEF SpareThen
  <2>3. progress'[g] = progress[g] \/ (g = f /\ progress'[f] = b /\ b .. progress[f] \subseteq S)
    BY <1>1, BookKeeping
  <2> QED
    BY <1>6, <2>1, <2>2, <2>3
<1>7. file' = file /\ worker' = worker /\ next' = next
  BY DEF LandsLate, pool
<1>8. ASSUME NEW y \in Workers, NEW c \in Batches, worker'[y] \in {"open", "read"}, c >= next'[y]
      PROVE  SpareThen(file'[y], c)
  <2>1. file[y] \in Files /\ Spare(file[y], c)
    BY <1>7, <1>8 DEF NInv, Ahead, TInv, Carrying
  <2> QED
    BY <1>3, <1>7, <2>1
<1> QED
  BY <1>3, <1>5, <1>6, <1>8, CountKept

LEMMA CountNext ==
    ASSUME Alone, TInv, EInv, NInv, [Next]_vars
    PROVE  NInv'
<1>1. CASE /\ \A x \in Workers : ~Working(x)
           /\ \A f \in Files, b \in Batches : ~LandsLate(f, b)
  BY <1>1, OutsideWorkers, CountApart
<1>2. ASSUME NEW x \in Workers, Working(x) PROVE NInv'
  <2>1. CASE Begin(x) \/ Open(x)
    BY <2>1, SkipBeginOpen, CountApart
  <2>2. CASE Dispose(x)
    <3>1. Apart
      BY <2>2 DEF Dispose, Apart, store
    <3>2. NoneReads
      BY <2>2, WorkerGives DEF NoneReads
    <3> QED
      BY <3>1, <3>2, CountApart
  <2>3. CASE Resume(x)
    BY <2>3, CountResume
  <2>4. CASE Consume(x)
    BY <2>4, CountConsume
  <2> QED
    BY <1>2, <2>1, <2>2, <2>3, <2>4 DEF Working
<1>3. ASSUME NEW f \in Files, NEW b \in Batches, LandsLate(f, b) PROVE NInv'
  BY <1>3, CountLandsLate
<1> QED
  BY <1>1, <1>2, <1>3

(* Over one process's directories no kill, stop or restart makes DirWatcher *)
(* and FileIngestor count a batch again, for any number of workers, files   *)
(* and batches, and whatever fails: each time a batch is counted once more  *)
(* than once goes back to a transaction that landed late or without its     *)
(* mark, or to a resume_at() that did not reach the store.                  *)
THEOREM RecountsExcused ==
    ASSUME Alone
    PROVE  Spec => []RecountsAreExcused
<1>1. NInv => RecountsAreExcused
  BY DEF NInv, Within, RecountsAreExcused
<1>2. EInv /\ TInv /\ Gone /\ [Next]_vars => EInv'
  BY ProcessNext
<1>3. NInv /\ EInv /\ TInv /\ [Next]_vars => NInv'
  BY CountNext
<1> QED
  BY <1>1, <1>2, <1>3, OneInit, CountInit, TypeAlways, GoneAlways, PTL DEF Spec

(* Where none of the three happens, nothing is ever excused. *)
NoExcuse ==
    /\ \A f \in Files, b \in Batches : late[f][b] = 0
    /\ \A f \in Files, b \in Batches : excused[f][b] = 0

LEMMA ExcuseNext ==
    ASSUME Faults \cap {"late", "unmarked", "resume"} = {}, TInv, NoExcuse, [Next]_vars
    PROVE  NoExcuse'
<1>1. ASSUME NEW f \in Files, NEW b \in Batches PROVE ~LandsLate(f, b)
  BY DEF LandsLate, NoExcuse
<1>2. CASE \A x \in Workers : ~Working(x)
  <2>1. Apart /\ GivenUp
    BY <1>1, <1>2, OutsideWorkers
  <2>2. \A f \in Files, b \in Batches : late'[f][b] = 0
    <3>1. CASE late' = late
      BY <3>1 DEF NoExcuse
    <3>2. ASSUME NEW p \in Procs, Crash(p) PROVE \A f \in Files, b \in Batches : late'[f][b] = 0
      <4>1. Lingers({<<file[x], next[x]>> : x \in {}})
        BY <3>2 DEF Crash, MayLinger
      <4> QED
        BY <4>1 DEF Lingers, NoExcuse
    <3> QED
      BY <1>1, <1>2, <3>1, <3>2, LateStays
  <2> QED
    BY <2>1, <2>2 DEF NoExcuse, Apart
<1>3. ASSUME NEW x \in Workers, Working(x) PROVE late' = late /\ excused' = excused
  BY <1>3 DEF Working, Begin, Resume, Open, Consume, Dispose, MayLinger, world, store
<1> QED
  BY <1>2, <1>3 DEF NoExcuse

(* docs/HL_Design.md:171 holds, for one process, of a store that lands what *)
(* it lands with its mark and before its reply, and that a restarted run    *)
(* can reach: nothing else makes DirWatcher and FileIngestor count a batch  *)
(* twice.                                                                   *)
COROLLARY KilledCountsOnce ==
    ASSUME Alone, Faults \cap {"late", "unmarked", "resume"} = {}
    PROVE  Spec => []CountedAtMostOnce
<1>1. Init => NoExcuse
  BY DEF Init, NoExcuse
<1>2. TInv /\ NoExcuse /\ [Next]_vars => NoExcuse'
  BY ExcuseNext
<1>3. RecountsAreExcused /\ NoExcuse => CountedAtMostOnce
  <2> SUFFICES ASSUME RecountsAreExcused, NoExcuse, NEW f \in Files, NEW b \in Batches PROVE counted[f][b] <= 1
    BY DEF CountedAtMostOnce
  <2>1. excused[f][b] = 0 /\ counted[f][b] <= 1 + excused[f][b]
    BY DEF RecountsAreExcused, NoExcuse
  <2> QED
    BY <2>1
<1> QED
  BY <1>1, <1>2, <1>3, RecountsExcused, TypeAlways, PTL DEF Spec

-----------------------------------------------------------------------------
(* Nothing is forgotten. *)

(* Nobody holds a file but to work on it, and nothing is fed before the     *)
(* sweeps are over.                                                         *)
Hands ==
    /\ \A x \in Workers : worker[x] = "idle" => file[x] = NoFile
    /\ \A p \in Procs : feeder[p] # "submit" => held[p] = NoFile
    /\ \A p \in Procs : main[p] \in {"target", "source"} => feeder[p] = "ended"

(* The flag is up only while stop() runs. *)
FlaggedStops == \A p \in Procs : stop[p] => main[p] \in {"flagged", "joining", "draining"}

(* A process that ingests has every file of the process directory.          *)
HasAll == \A p \in Procs, f \in Files : main[p] \in Ingesting /\ dir[f] = "process" => Has(p, f)

(* It will hear of every file that is still to be claimed: from the sweep   *)
(* or from the watch first, from the watch alone once it has swept.         *)
Hears(p) ==
    \A f \in Files : dir[f] = "ready" /\ ~Overflows(p) =>
        /\ main[p] = "source" => f \in todo[p] \/ f \in Elems(events[p])
        /\ main[p] = "running" /\ feeder[p] # "ended" => f \in Elems(events[p]) \/ f \in Elems(burst[p])

FInv == Hands /\ FlaggedStops /\ HasAll /\ \A p \in Procs : Hears(p)

LEMMA ForgottenInit == Init => FInv
BY DEF Init, FInv, Hands, FlaggedStops, HasAll, Hears, Ingesting

LEMMA Steps ==
    ASSUME [Next]_vars
    PROVE  \/ UNCHANGED vars
           \/ \E f \in Files : Deliver(f)
           \/ \E p \in Procs, f \in Files : SweepTarget(p, f) \/ SweepSource(p, f)
           \/ \E p \in Procs : \/ Boot(p) \/ EndSweep(p) \/ StopFlag(p) \/ Wake(p) \/ JoinFeeder(p)
                               \/ Exit(p) \/ Crash(p)
           \/ \E p \in Procs : \/ FeedCheck(p) \/ NextFile(p) \/ Woken(p) \/ ReadEvents(p) \/ ClaimEvent(p)
                               \/ Submit(p) \/ WatcherFails(p)
           \/ \E x \in Workers : Working(x)
           \/ \E f \in Files, b \in Batches : LandsLate(f, b)
BY DEF Next, Sweeping, Feeding, Stopping, Idle

LEMMA HandsNext ==
    ASSUME TInv, Gone, Hands, FlaggedStops, [Next]_vars
    PROVE  Hands' /\ FlaggedStops'
<1> DEFINE Goal == Hands' /\ FlaggedStops'
<1> USE DEF Hands, FlaggedStops, world, store, control, watcher, feed, pool
<1>1. ASSUME UNCHANGED <<control, feed, worker, file>> PROVE Goal
  BY <1>1
<1>2. ASSUME NEW p \in Procs, Boot(p) PROVE Goal
  <2>1. main'[p] = "target" /\ (\A q \in Procs : q # p => main'[q] = main[q]) /\ main[p] \in {"down", "exited"}
    BY <1>2 DEF Boot, TInv, TypeOK
  <2>2. feeder[p] = "ended" /\ UNCHANGED <<stop, feeder, held, worker, file>>
    BY <1>2, <2>1 DEF Boot, Gone
  <2> QED
    BY <2>1, <2>2
<1>3. ASSUME NEW p \in Procs, EndSweep(p) PROVE Goal
  <2>1. /\ \A q \in Procs : q # p => main'[q] = main[q] /\ feeder'[q] = feeder[q]
        /\ feeder[p] = "ended" /\ ~stop[p] /\ UNCHANGED <<stop, held, worker, file>>
        /\ \/ main'[p] = "source" /\ feeder'[p] = feeder[p]
           \/ main'[p] = "running" /\ feeder'[p] = "check"
    BY <1>3 DEF EndSweep, TInv, TypeOK
  <2> QED
    BY <2>1
<1>4. ASSUME NEW p \in Procs, StopFlag(p) \/ Wake(p) \/ JoinFeeder(p) PROVE Goal
  <2>1. /\ \A q \in Procs : q # p => main'[q] = main[q] /\ stop'[q] = stop[q]
        /\ main'[p] \in {"flagged", "joining", "draining"} /\ UNCHANGED <<feeder, held, worker, file>>
    BY <1>4 DEF StopFlag, Wake, JoinFeeder, TInv, TypeOK
  <2> QED
    BY <2>1
<1>5. ASSUME NEW p \in Procs, Exit(p) \/ Crash(p) PROVE Goal
  <2>1. /\ \A q \in Procs : q # p => main'[q] = main[q] /\ stop'[q] = stop[q]
        /\ Forget(p) /\ main'[p] \in {"down", "exited"} /\ ~stop'[p]
    BY <1>5 DEF Exit, Crash, Forget, TInv, TypeOK
  <2>2. /\ held'[p] = NoFile /\ \A q \in Procs : q # p => held'[q] = held[q] /\ feeder'[q] = feeder[q]
        /\ \A x \in Workers : x[1] = p => file'[x] = NoFile
        /\ \A x \in Workers : x[1] # p => worker'[x] = worker[x] /\ file'[x] = file[x]
    BY <2>1, Forgets
  <2> QED
    BY <2>1, <2>2
<1>6. ASSUME NEW p \in Procs, FeedCheck(p) \/ NextFile(p) \/ Woken(p) \/ Submit(p) \/ WatcherFails(p) PROVE Goal
  <2>1. /\ \A q \in Procs : q # p => feeder'[q] = feeder[q] /\ held'[q] = held[q]
        /\ feeder[p] # "ended" /\ UNCHANGED <<main, stop, worker, file>>
        /\ feeder'[p] = "submit" \/ held'[p] = NoFile
    <3>1. CASE FeedCheck(p) \/ Woken(p) \/ WatcherFails(p)
      BY <3>1 DEF FeedCheck, Woken, WatcherFails, Waiting, TInv, TypeOK
    <3>2. CASE NextFile(p)
      BY <3>2 DEF NextFile, TInv, TypeOK
    <3>3. CASE Submit(p)
      BY <3>3 DEF Submit, TInv, TypeOK
    <3> QED
      BY <1>6, <3>1, <3>2, <3>3
  <2> QED
    BY <2>1
<1>7. ASSUME NEW p \in Procs, ReadEvents(p) \/ ClaimEvent(p) PROVE Goal
  BY <1>1, <1>7 DEF ReadEvents, ClaimEvent
<1>8. ASSUME NEW x \in Workers, Begin(x) PROVE Goal
  <2>1. UNCHANGED <<control, feed>> /\ \A y \in Workers : worker'[y] = "idle" => file'[y] = file[y] /\ worker[y] = "idle"
    BY <1>8, TasksGive DEF Begin
  <2> QED
    BY <2>1
<1>9. ASSUME NEW x \in Workers, Dispose(x) PROVE Goal
  <2>1. UNCHANGED <<control, feed>>
    BY <1>9 DEF Dispose
  <2>2. \A y \in Workers : worker'[y] = "idle" => file'[y] = NoFile
    BY <1>9, WorkerGives
  <2> QED
    BY <2>1, <2>2
<1>10. ASSUME NEW x \in Workers, Resume(x) \/ Open(x) \/ Consume(x) PROVE Goal
  <2>1. Quiet /\ UNCHANGED <<control, feed>>
    BY <1>10, QuietOfWorker DEF Resume, Open, Consume
  <2> QED
    BY <2>1 DEF Quiet, Kept
<1>11. ASSUME NEW f \in Files, NEW p \in Procs, Deliver(f) \/ SweepTarget(p, f) \/ SweepSource(p, f) PROVE Goal
  BY <1>1, <1>11 DEF Deliver, SweepTarget, SweepSource
<1>12. ASSUME NEW f \in Files, Deliver(f) PROVE Goal
  BY <1>1, <1>12 DEF Deliver
<1>13. ASSUME UNCHANGED vars PROVE Goal
  BY <1>1, <1>13 DEF vars
<1>14. ASSUME NEW f \in Files, NEW b \in Batches, LandsLate(f, b) PROVE Goal
  BY <1>1, <1>14 DEF LandsLate
<1> HIDE DEF Goal
<1>15. Goal
  BY <1>2, <1>3, <1>4, <1>5, <1>6, <1>7, <1>8, <1>9, <1>10, <1>11, <1>12, <1>13, <1>14, Steps DEF Working
<1> QED
  BY <1>15 DEF Goal

(* While its process ingests, no step makes it let go of a file that stays  *)
(* in the process directory.                                                *)
Holds(p, f) == Has(p, f) /\ dir'[f] = "process" /\ main'[p] \in Ingesting => Has(p, f)'

LEMMA QuietHolds ==
    ASSUME Quiet, NEW p \in Procs, NEW f \in Files
    PROVE  Holds(p, f)
BY DEF Quiet, Kept, Holds, Has, Works

LEMMA TakesHold ==
    ASSUME TInv, NEW q \in Procs, NEW g \in Files, Takes(q, g), NEW p \in Procs, NEW f \in Files
    PROVE  Holds(p, f)
<1>1. /\ tasks' = tasks /\ held' = held /\ file' = file /\ worker' = worker /\ main' = main
      /\ main[p] = "target" /\ f \in todo[p] =>
             f \in todo'[p] \/ (p = q /\ f = g /\ queue' = [queue EXCEPT ![q] = Append(@, g)])
      /\ queue' = queue \/ queue' = [queue EXCEPT ![q] = Append(@, g)]
  BY DEF Takes, Wins
<1>2. Elems(queue[p]) \subseteq Elems(queue'[p])
  BY <1>1, QueueGrows
<1>3. ASSUME queue' = [queue EXCEPT ![q] = Append(@, g)] PROVE g \in Elems(queue'[q])
  <2>1. Elems(queue'[q]) = Elems(queue[q]) \cup {g}
    BY <1>3, QueueGrows
  <2> QED
    BY <2>1
<1> QED
  BY <1>1, <1>2, <1>3 DEF Holds, Has, Works

LEMMA PassHolds ==
    ASSUME TInv, Hands, NEW q \in Procs, NextFile(q) \/ Submit(q), NEW p \in Procs, NEW f \in Files
    PROVE  Holds(p, f)
<1>1. file' = file /\ worker' = worker /\ main' = main /\ todo' = todo
  BY DEF NextFile, Submit, control, watcher, pool
<1>2. CASE NextFile(q)
  <2>1. tasks' = tasks /\ held[q] = NoFile
    BY <1>2 DEF NextFile, pool, Hands
  <2>2. /\ \A r \in Procs : r # q => queue'[r] = queue[r] /\ held'[r] = held[r]
        /\ Elems(queue[q]) \subseteq Elems(queue'[q]) \cup {held'[q]}
    BY <1>2, QueueGives
  <2>3. f # NoFile
    OBVIOUS
  <2>4. f \in Elems(queue[p]) \/ held[p] = f => f \in Elems(queue'[p]) \/ held'[p] = f
    BY <2>1, <2>2, <2>3
  <2> QED
    BY <1>1, <2>1, <2>4 DEF Holds, Has, Works
<1>3. CASE Submit(q)
  <2>1. queue' = queue
    BY <1>3 DEF Submit, watcher
  <2>2. /\ \A r \in Procs : r # q => tasks'[r] = tasks[r] /\ held'[r] = held[r]
        /\ Elems(tasks'[q]) = Elems(tasks[q]) \cup {held[q]}
    BY <1>3, TasksGrow
  <2>3. f \in Elems(tasks[p]) \/ held[p] = f => f \in Elems(tasks'[p]) \/ held'[p] = f
    BY <2>2
  <2> QED
    BY <1>1, <2>1, <2>3 DEF Holds, Has, Works
<1> QED
  BY <1>2, <1>3

LEMMA BeginHolds ==
    ASSUME TInv, FlaggedStops, NEW x \in Workers, Begin(x), NEW p \in Procs, NEW f \in Files
    PROVE  Holds(p, f)
<1>1. queue' = queue /\ held' = held /\ main' = main /\ todo' = todo
  BY DEF Begin, control, watcher, feed
<1>2. PICK q \in Procs : q = x[1]
  BY DEF Workers
<1>3. /\ \A r \in Procs : r # q => tasks'[r] = tasks[r]
      /\ Elems(tasks[q]) \subseteq Elems(tasks'[q]) \cup {Head(tasks[q])}
      /\ worker[x] = "idle"
      /\ \A y \in Workers : y # x => worker'[y] = worker[y] /\ file'[y] = file[y]
      /\ stop[q] \/ (worker'[x] = "resume" /\ file'[x] = Head(tasks[q]))
  BY <1>2, TasksGive
<1>4. CASE f \in Elems(tasks[p]) /\ f \notin Elems(tasks'[p])
  <2>1. p = q /\ f = Head(tasks[q])
    BY <1>3, <1>4
  <2>2. main[p] \in Ingesting => ~stop[p]
    BY DEF FlaggedStops, Ingesting
  <2> QED
    BY <1>1, <1>2, <1>3, <2>1, <2>2 DEF Holds, Has, Works
<1>5. \A y \in Workers : worker[y] # "idle" => worker'[y] = worker[y] /\ file'[y] = file[y]
  BY <1>3
<1> QED
  BY <1>1, <1>4, <1>5 DEF Holds, Has, Works

LEMMA DisposeHolds ==
    ASSUME "rename" \notin Faults, TInv, NEW x \in Workers, Dispose(x), NEW p \in Procs, NEW f \in Files
    PROVE  Holds(p, f)
<1>1. /\ queue' = queue /\ tasks' = tasks /\ held' = held /\ main' = main /\ todo' = todo
      /\ \A y \in Workers : y # x => worker'[y] = worker[y] /\ file'[y] = file[y]
      /\ dir'[file[x]] # "process"
  BY WorkerGives
<1> QED
  BY <1>1 DEF Holds, Has, Works

LEMMA HasAllNext ==
    ASSUME Alone, Faults \cap {"rename", "scan"} = {}, TInv, Hands, FlaggedStops, HasAll, [Next]_vars
    PROVE  HasAll'
<1> SUFFICES ASSUME NEW p \in Procs, NEW f \in Files, main'[p] \in Ingesting, dir'[f] = "process"
             PROVE  Has(p, f)'
  BY DEF HasAll
<1>1. main[p] \in Ingesting /\ dir[f] = "process" => Has(p, f)
  BY DEF HasAll
<1>2. CASE Quiet
  BY <1>1, <1>2, QuietHolds DEF Quiet, Holds
<1>3. ASSUME NEW q \in Procs, NEW g \in Files, Takes(q, g) PROVE Has(p, f)'
  <2>1. p = q /\ main' = main /\ Holds(p, f)
    BY <1>3, TakesHold DEF Alone, Takes
  <2>2. dir[f] = "process" \/ (Wins(q, g) /\ f = g)
    BY <1>3 DEF Takes, Wins, TInv, TypeOK
  <2>3. CASE Wins(q, g) /\ f = g
    <3>1. queue' = [queue EXCEPT ![q] = Append(@, g)]
      BY <2>3 DEF Wins
    <3>2. Elems(queue'[q]) = Elems(queue[q]) \cup {g}
      BY <3>1, QueueGrows
    <3> QED
      BY <2>1, <2>3, <3>2 DEF Has
  <2> QED
    BY <1>1, <2>1, <2>2, <2>3 DEF Holds
<1>4. ASSUME NEW q \in Procs, Boot(q) PROVE Has(p, f)'
  <2>1. main'[p] = "target" /\ todo'[p] = In("process") /\ dir' = dir
    BY <1>4 DEF Alone, Boot, world, store, TInv, TypeOK
  <2> QED
    BY <2>1 DEF Has, In
<1>5. ASSUME NEW q \in Procs, NextFile(q) \/ Submit(q) PROVE Has(p, f)'
  BY <1>1, <1>5, PassHolds DEF Holds, NextFile, Submit, world, store, control
<1>6. ASSUME NEW q \in Procs, Exit(q) \/ Crash(q) PROVE Has(p, f)'
  <2>1. main'[p] \in {"down", "exited"}
    BY <1>6 DEF Alone, Exit, Crash, TInv, TypeOK
  <2> QED
    BY <2>1 DEF Ingesting
<1>7. ASSUME NEW x \in Workers, Begin(x) PROVE Has(p, f)'
  BY <1>1, <1>7, BeginHolds DEF Holds, Begin, world, store, control
<1>8. ASSUME NEW x \in Workers, Dispose(x) PROVE Has(p, f)'
  <2>1. main' = main /\ dir[f] = "process"
    BY <1>8, WorkerGives
  <2> QED
    BY <1>1, <1>8, <2>1, DisposeHolds DEF Holds
<1> QED
  BY <1>2, <1>3, <1>4, <1>5, <1>6, <1>7, <1>8, StepKinds

(* Steps that take no news from a process.                                  *)
LEMMA StillHears ==
    ASSUME NEW p \in Procs, Hears(p), starts'[p] = starts[p],
           \A f \in Files : dir'[f] = "ready" => dir[f] = "ready",
           main'[p] \in {"source", "running"} => main'[p] = main[p] /\ events'[p] = events[p],
           main'[p] = "source" => \A f \in Files : dir'[f] = "ready" /\ f \in todo[p] => f \in todo'[p],
           main'[p] = "running" /\ feeder'[p] # "ended" => feeder[p] # "ended" /\ burst'[p] = burst[p]
    PROVE  Hears(p)'
BY DEF Hears, Overflows

LEMMA HearsDelivery ==
    ASSUME TInv, NEW f \in Files, Deliver(f), NEW p \in Procs, Hears(p)
    PROVE  Hears(p)'
<1> SUFFICES ASSUME NEW g \in Files, dir'[g] = "ready", ~Overflows(p), main[p] \in {"source", "running"}
             PROVE  /\ main[p] = "source" => g \in todo[p] \/ g \in Elems(events'[p])
                    /\ main[p] = "running" /\ feeder[p] # "ended" =>
                           g \in Elems(events'[p]) \/ g \in Elems(burst[p])
  BY DEF Deliver, Hears, Overflows, control, feed
<1>1. events'[p] = Append(events[p], f)
  BY DEF Deliver, Watching
<1>2. Elems(events'[p]) = Elems(events[p]) \cup {f}
  <2>1. events[p] \in Seq(Files)
    BY DEF TInv, TypeOK
  <2> QED
    BY <1>1, <2>1, ElemsAppend
<1>3. g = f \/ dir[g] = "ready"
  BY DEF Deliver, TInv, TypeOK
<1> QED
  BY <1>2, <1>3 DEF Hears

(* A claim that is not refused leaves nothing to claim.                     *)
LEMMA ClaimEmpties ==
    ASSUME "claim" \notin Faults, TInv, NEW p \in Procs, NEW f \in Files, Claim(p, f)
    PROVE  dir'[f] # "ready" /\ \A g \in Files : dir'[g] = "ready" => dir[g] = "ready"
BY DEF Claim, TInv, TypeOK

LEMMA HearsSweep ==
    ASSUME "claim" \notin Faults, TInv, NEW q \in Procs, NEW f \in Files,
           SweepTarget(q, f) \/ SweepSource(q, f), NEW p \in Procs, Hears(p)
    PROVE  Hears(p)'
<1>1. UNCHANGED <<starts, main, events, burst, feeder>>
  BY DEF SweepTarget, SweepSource, control, feed
<1>2. CASE SweepTarget(q, f)
  <2>1. dir' = dir /\ (main[p] = "source" => todo'[p] = todo[p])
    BY <1>2 DEF SweepTarget, world, store, TInv, TypeOK
  <2> QED
    BY <1>1, <2>1, StillHears
<1>3. CASE SweepSource(q, f)
  <2>1. dir'[f] # "ready" /\ \A g \in Files : dir'[g] = "ready" => dir[g] = "ready"
    BY <1>3, ClaimEmpties DEF SweepSource
  <2>2. \A g \in Files : g # f /\ g \in todo[p] => g \in todo'[p]
    BY <1>3 DEF SweepSource, TInv, TypeOK
  <2> QED
    BY <1>1, <2>1, <2>2, StillHears
<1> QED
  BY <1>2, <1>3

LEMMA HearsEvents ==
    ASSUME "claim" \notin Faults, TInv, Hands, NEW q \in Procs, ReadEvents(q) \/ ClaimEvent(q), NEW p \in Procs, Hears(p)
    PROVE  Hears(p)'
<1>1. UNCHANGED <<starts, main, todo, feeder>>
  BY DEF ReadEvents, ClaimEvent, control, feed
<1>2. CASE ReadEvents(q)
  <2>1. dir' = dir
    BY <1>2 DEF ReadEvents, world, store
  <2>2. CASE p # q
    <3>1. events'[p] = events[p] /\ burst'[p] = burst[p]
      BY <1>2, <2>2 DEF ReadEvents, TInv, TypeOK
    <3> QED
      BY <1>1, <2>1, <3>1, StillHears
  <2>3. CASE p = q
    <3>1. burst[p] = <<>> /\ burst'[p] = events[p] /\ feeder[p] = "next"
      BY <1>2, <2>3 DEF ReadEvents, Waiting, TInv, TypeOK
    <3>2. main[p] # "source"
      BY <3>1 DEF Hands
    <3> QED
      BY <1>1, <2>1, <3>1, <3>2, ElemsEmpty DEF Hears, Overflows
  <2> QED
    BY <2>2, <2>3
<1>3. CASE ClaimEvent(q)
  <2>1. burst[q] \in Seq(Files) /\ burst[q] # <<>> /\ burst' = [burst EXCEPT ![q] = Tail(@)] /\ Claim(q, Head(burst[q]))
    BY <1>3 DEF ClaimEvent, TInv, TypeOK
  <2>2. Head(burst[q]) \in Files
    BY <2>1, Heads
  <2>3. dir'[Head(burst[q])] # "ready" /\ \A g \in Files : dir'[g] = "ready" => dir[g] = "ready"
    BY <2>1, <2>2, ClaimEmpties
  <2>4. Elems(burst[q]) \subseteq Elems(Tail(burst[q])) \cup {Head(burst[q])}
    BY <2>1, ElemsTail
  <2>5. \A g \in Files : dir'[g] = "ready" /\ g \in Elems(burst[p]) => g \in Elems(burst'[p])
    BY <2>1, <2>3, <2>4 DEF TInv, TypeOK
  <2>6. events' = events
    BY <1>3 DEF ClaimEvent
  <2> QED
    BY <1>1, <2>3, <2>5, <2>6 DEF Hears, Overflows
<1> QED
  BY <1>2, <1>3

LEMMA HearsControl ==
    ASSUME TInv, NEW q \in Procs,
           \/ Boot(q) \/ EndSweep(q) \/ StopFlag(q) \/ Wake(q) \/ JoinFeeder(q) \/ Exit(q) \/ Crash(q),
           "scan" \notin Faults, NEW p \in Procs, Hears(p)
    PROVE  Hears(p)'
<1> USE DEF world, store, control, watcher, feed, pool
<1>1. dir' = dir
  BY DEF Boot, EndSweep, StopFlag, Wake, JoinFeeder, Exit, Crash
<1>2. CASE p # q
  <2>1. CASE ~(Exit(q) \/ Crash(q))
    <3>1. UNCHANGED <<starts[p], main[p], todo[p], events[p], burst[p], feeder[p]>>
      BY <1>2, <2>1 DEF Boot, EndSweep, StopFlag, Wake, JoinFeeder, TInv, TypeOK
    <3> QED
      BY <1>1, <3>1, StillHears
  <2>2. CASE Exit(q) \/ Crash(q)
    <3>1. UNCHANGED <<starts[p], main[p], todo[p], events[p], burst[p], feeder[p]>>
      BY <1>2, <2>2 DEF Exit, Crash, Forget, TInv, TypeOK
    <3> QED
      BY <1>1, <3>1, StillHears
  <2> QED
    BY <2>1, <2>2
<1>3. CASE p = q /\ ~EndSweep(q)
  <2>1. main'[p] \notin {"source", "running"}
    BY <1>3 DEF Boot, StopFlag, Wake, JoinFeeder, Exit, Crash, TInv, TypeOK
  <2> QED
    BY <2>1 DEF Hears
<1>4. CASE p = q /\ EndSweep(q)
  <2>1. /\ UNCHANGED <<starts, events>> /\ todo[p] = {}
        /\ \/ main'[p] = "source" /\ todo'[p] = In("ready")
           \/ main[p] = "source" /\ main'[p] = "running"
    BY <1>4 DEF EndSweep, TInv, TypeOK
  <2> QED
    BY <1>1, <2>1 DEF Hears, Overflows, In
<1> QED
  BY <1>2, <1>3, <1>4

LEMMA HearsFeed ==
    ASSUME TInv, NEW q \in Procs, FeedCheck(q) \/ NextFile(q) \/ Woken(q) \/ Submit(q) \/ WatcherFails(q),
           NEW p \in Procs, Hears(p)
    PROVE  Hears(p)'
<1> USE DEF world, store, control, watcher, feed, pool
<1>1. UNCHANGED <<dir, starts, main, todo, events, burst>>
  BY DEF FeedCheck, NextFile, Woken, Submit, WatcherFails
<1>2. feeder[p] = "ended" => feeder'[p] = "ended"
  BY DEF FeedCheck, NextFile, Woken, Submit, WatcherFails, Waiting, TInv, TypeOK
<1> QED
  BY <1>1, <1>2, StillHears

LEMMA HearsWorker ==
    ASSUME TInv, NEW x \in Workers, Working(x), NEW p \in Procs, Hears(p)
    PROVE  Hears(p)'
<1> USE DEF world, store, control, watcher, feed, pool
<1>1. UNCHANGED <<starts, main, todo, events, burst, feeder>>
  BY DEF Working, Begin, Resume, Open, Consume, Dispose
<1>2. \A f \in Files : dir'[f] = "ready" => dir[f] = "ready"
  <2>1. CASE Dispose(x)
    BY <2>1, WorkerGives
  <2>2. CASE ~Dispose(x)
    BY <2>2 DEF Working, Begin, Resume, Open, Consume
  <2> QED
    BY <2>1, <2>2
<1> QED
  BY <1>1, <1>2, StillHears

LEMMA HearsNext ==
    ASSUME Faults \cap {"claim", "scan"} = {}, TInv, Hands, [Next]_vars, NEW p \in Procs, Hears(p)
    PROVE  Hears(p)'
<1>1. CASE UNCHANGED vars
  BY <1>1, StillHears DEF vars, world, store, control, watcher, feed
<1>2. ASSUME NEW f \in Files, NEW b \in Batches, LandsLate(f, b) PROVE Hears(p)'
  BY <1>2, StillHears DEF LandsLate, control, watcher, feed
<1> QED
  BY <1>1, <1>2, Steps, HearsDelivery, HearsSweep, HearsEvents, HearsControl, HearsFeed, HearsWorker

LEMMA ForgottenNext ==
    ASSUME Alone, Faults \cap {"rename", "claim", "scan"} = {}, TInv, Gone, FInv, [Next]_vars
    PROVE  FInv'
<1>1. Hands' /\ FlaggedStops'
  BY HandsNext DEF FInv
<1>2. HasAll'
  BY HasAllNext DEF FInv
<1>3. \A p \in Procs : Hears(p)'
  BY HearsNext DEF FInv
<1> QED
  BY <1>1, <1>2, <1>3 DEF FInv

(* How often a file is in a sequence, and with how many workers.            *)
LEMMA OccursOnce ==
    ASSUME NEW S, NEW s \in Seq(S), NEW f
    PROVE  /\ f \in Elems(s) <=> Occurs(f, s) # {}
           /\ Same(s) => Cardinality(Occurs(f, s)) = (IF f \in Elems(s) THEN 1 ELSE 0)
<1>1. DOMAIN s = 1 .. Len(s)
  OBVIOUS
<1>2. f \in Elems(s) <=> Occurs(f, s) # {}
  BY <1>1 DEF Elems, Occurs
<1>3. ASSUME Same(s), f \in Elems(s) PROVE Cardinality(Occurs(f, s)) = 1
  <2>1. PICK i \in 1 .. Len(s) : s[i] = f
    BY <1>3 DEF Elems
  <2>2. Occurs(f, s) = {i}
    BY <1>1, <1>3, <2>1 DEF Occurs, Same
  <2> QED
    BY <2>2, FS_Singleton
<1>4. ASSUME f \notin Elems(s) PROVE Cardinality(Occurs(f, s)) = 0
  BY <1>2, <1>4, FS_EmptySet
<1> QED
  BY <1>2, <1>3, <1>4

LEMMA OneWorker ==
    ASSUME NEW p \in Procs, NEW f \in Files, OneEach(p), Hands
    PROVE  Cardinality({x \in Workers : x[1] = p /\ file[x] = f}) =
               IF \E x \in Workers : x[1] = p /\ Works(x, f) THEN 1 ELSE 0
<1> DEFINE Mine == {x \in Workers : x[1] = p /\ file[x] = f}
<1>1. \A x \in Mine : Works(x, f)
  BY DEF Hands, Works
<1>2. CASE \E x \in Workers : x[1] = p /\ Works(x, f)
  <2>1. PICK x \in Workers : x[1] = p /\ Works(x, f)
    BY <1>2
  <2>2. Mine = {x}
    BY <1>1, <2>1 DEF OneEach, Works
  <2> QED
    BY <1>2, <2>2, FS_Singleton
<1>3. CASE ~ \E x \in Workers : x[1] = p /\ Works(x, f)
  <2>1. Mine = {}
    BY <1>1, <1>3
  <2> QED
    BY <1>3, <2>1, FS_EmptySet
<1> QED
  BY <1>2, <1>3

LEMMA PlaceOfEach ==
    ASSUME TInv, EInv, FInv, NEW p \in Procs, NEW f \in Files, main[p] = "running"
    PROVE  Places(p, f) = IF dir[f] = "process" THEN 1 ELSE 0
<1> DEFINE Q == f \in Elems(queue[p])
           T == f \in Elems(tasks[p])
           H == held[p] = f
           W == \E x \in Workers : x[1] = p /\ Works(x, f)
<1>1. OneEach(p) /\ Hands
  BY DEF EInv, FInv
<1>2. /\ Cardinality(Occurs(f, queue[p])) = (IF Q THEN 1 ELSE 0)
      /\ Cardinality(Occurs(f, tasks[p])) = (IF T THEN 1 ELSE 0)
  <2>1. queue[p] \in Seq(Files) /\ tasks[p] \in Seq(Files) /\ Same(queue[p]) /\ Same(tasks[p])
    BY <1>1 DEF TInv, TypeOK, OneEach
  <2> QED
    BY <2>1, OccursOnce
<1>3. Cardinality({x \in Workers : x[1] = p /\ file[x] = f}) = IF W THEN 1 ELSE 0
  BY <1>1, OneWorker
<1>4. /\ ~(Q /\ T) /\ ~(Q /\ H) /\ ~(T /\ H)
      /\ W => ~Q /\ ~T /\ ~H
  BY <1>1 DEF OneEach, InPlace, Works
<1>5. dir[f] = "process" <=> Q \/ T \/ H \/ W
  <2>1. Has(p, f) <=> Q \/ T \/ H \/ W
    BY DEF Has
  <2>2. dir[f] = "process" <=> Has(p, f)
    BY DEF EInv, HasProcess, FInv, HasAll, Ingesting
  <2> QED
    BY <2>1, <2>2
<1>6. Places(p, f) = (IF Q THEN 1 ELSE 0) + (IF T THEN 1 ELSE 0) + (IF H THEN 1 ELSE 0) + (IF W THEN 1 ELSE 0)
  BY <1>2, <1>3 DEF Places
<1> HIDE DEF Q, T, H, W
<1> QED
  BY <1>4, <1>5, <1>6

(* While a single process ingests, DirWatcher and FileIngestor have lost    *)
(* sight of no file, for any number of workers, files, stops and kills and  *)
(* whatever the store does: what waits in the ready directory has been      *)
(* announced, what was claimed is in exactly one place (dir_watcher.cpp:56, *)
(* :57), unless renames fail or a directory cannot be listed.               *)
THEOREM NothingIsForgotten ==
    ASSUME Alone, Faults \cap {"rename", "claim", "scan"} = {}
    PROVE  Spec => []NothingForgotten
<1>1. ASSUME TInv, EInv, FInv PROVE NothingForgotten
  <2>1. ASSUME NEW p \in Procs, NEW f \in Files, main[p] = "running", dir[f] = "ready", feeder[p] # "ended", ~Overflows(p)
        PROVE  Occurs(f, events[p]) # {} \/ Occurs(f, burst[p]) # {}
    <3>1. events[p] \in Seq(Files) /\ burst[p] \in Seq(Files)
      BY <1>1 DEF TInv, TypeOK
    <3>2. f \in Elems(events[p]) \/ f \in Elems(burst[p])
      BY <1>1, <2>1 DEF FInv, Hears
    <3> QED
      BY <3>1, <3>2, OccursOnce
  <2> QED
    BY <1>1, <2>1, PlaceOfEach DEF NothingForgotten
<1>2. EInv /\ TInv /\ Gone /\ [Next]_vars => EInv'
  BY ProcessNext
<1>3. FInv /\ TInv /\ Gone /\ [Next]_vars => FInv'
  BY ForgottenNext
<1> QED
  BY <1>1, <1>2, <1>3, OneInit, ForgottenInit, TypeAlways, GoneAlways, PTL DEF Spec

=============================================================================
