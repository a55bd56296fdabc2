----------------------------- MODULE ThreadPool -----------------------------
(***************************************************************************)
(* ThreadPool: workers and submitting threads over one bounded queue, one  *)
(* mutex and two condition variables.  A step is what a thread does in one *)
(* hold of the mutex, or one notify, which the code issues after it has    *)
(* let the mutex go.                                                       *)
(***************************************************************************)
EXTENDS Naturals, Sequences, FiniteSets

CONSTANTS Producers,   \* threads outside the pool that call submit()
          Workers,     \* the pool's own threads
          Tasks,       \* bound: the tasks of one behaviour, each submitted at most once
          NoTask,
          Child,       \* the task a running task submits, or NoTask
          Capacity     \* m_capacity

ASSUME PoolAssumption ==
    /\ Producers \cap Workers = {}
    /\ IsFiniteSet(Producers)
    /\ IsFiniteSet(Workers) /\ Workers # {}   \* the constructor refuses none,
    /\ Capacity \in Nat \ {0}                 \* and an empty queue
    /\ NoTask \notin Tasks
    /\ Child \in [Tasks -> Tasks \cup {NoTask}]

VARIABLES
    queue,    \* m_queue
    stop,     \* m_stop
    pc,       \* per thread, what it does next or which condition it sleeps on
    arg,      \* per thread, the task it is submitting
    running,  \* per worker, the task it has popped and not finished
    fresh,    \* tasks nobody has submitted yet
    done,     \* tasks that have returned
    closer    \* how far the destructor is

vars == <<queue, stop, pc, arg, running, fresh, done, closer>>

Threads == Producers \cup Workers

Submitting == {"submit", "wait_full", "pushed"}

Init ==
    /\ queue = <<>> /\ stop = FALSE
    /\ pc = [x \in Threads |-> IF x \in Workers THEN "take" ELSE "idle"]
    /\ arg = [x \in Threads |-> NoTask]
    /\ running = [w \in Workers |-> NoTask]
    /\ fresh = Tasks /\ done = {}
    /\ closer = "live"

-----------------------------------------------------------------------------
(* notify_one: any one thread asleep on the condition wakes and will look   *)
(* again at its predicate; with none asleep the call is lost.               *)
NotifyNobody(asleep, awake, base) == pc' = base
NotifyOne(asleep, awake, base) ==
    IF \E y \in Threads : base[y] = asleep
    THEN \E y \in Threads : base[y] = asleep /\ pc' = [base EXCEPT ![y] = awake]
    ELSE pc' = base

NotifyAll(asleep, awake) ==
    pc' = [y \in Threads |-> IF pc[y] = asleep THEN awake ELSE pc[y]]

(* A task that no other task submits comes from a thread outside. *)
Roots == {t \in Tasks : \A u \in Tasks : Child[u] # t}

(* submit() is called: by a producer, or by the task a worker is running. *)
Call(x, t) ==
    /\ t \in fresh
    /\ \/ x \in Producers /\ closer = "live" /\ pc[x] = "idle" /\ t \in Roots
       \/ x \in Workers /\ pc[x] = "run" /\ Child[running[x]] = t
    /\ pc' = [pc EXCEPT ![x] = "submit"] /\ arg' = [arg EXCEPT ![x] = t]
    /\ fresh' = fresh \ {t}
    /\ UNCHANGED <<queue, stop, running, done, closer>>

Back(x) == IF x \in Workers THEN "run" ELSE "idle"

OneTooMany == Len(queue) <= Capacity
Room == Len(queue) < Capacity

(* submit() with the mutex held: refused once the pool stops, queued when   *)
(* there is room, else asleep on m_cv_full.                                 *)
Submit(x) ==
    /\ pc[x] = "submit"
    /\ \/ /\ stop
          /\ pc' = [pc EXCEPT ![x] = Back(x)] /\ arg' = [arg EXCEPT ![x] = NoTask]
          /\ UNCHANGED queue
       \/ /\ ~stop /\ Room
          /\ queue' = Append(queue, arg[x])
          /\ pc' = [pc EXCEPT ![x] = "pushed"] /\ arg' = [arg EXCEPT ![x] = NoTask]
       \/ /\ ~stop /\ ~Room
          /\ pc' = [pc EXCEPT ![x] = "wait_full"]
          /\ UNCHANGED <<queue, arg>>
    /\ UNCHANGED <<stop, running, fresh, done, closer>>

(* m_cv_empty.notify_one(), the mutex released; submit() returns true. *)
Pushed(x) ==
    /\ pc[x] = "pushed"
    /\ NotifyOne("wait_empty", "take", [pc EXCEPT ![x] = Back(x)])
    /\ UNCHANGED <<queue, stop, arg, running, fresh, done, closer>>

(* run() with the mutex held: leave only when stopped and drained, take the *)
(* oldest task, or sleep on m_cv_empty.                                     *)
LeaveOnStop == stop
Drained == stop /\ queue = <<>>

Newest == queue[Len(queue)]
Oldest == Head(queue)

Take(w) ==
    /\ pc[w] = "take"
    /\ \/ /\ Drained
          /\ pc' = [pc EXCEPT ![w] = "gone"]
          /\ UNCHANGED <<queue, running>>
       \/ /\ ~Drained /\ queue # <<>>
          /\ running' = [running EXCEPT ![w] = Oldest] /\ queue' = Tail(queue)
          /\ pc' = [pc EXCEPT ![w] = "popped"]
       \/ /\ ~stop /\ queue = <<>>
          /\ pc' = [pc EXCEPT ![w] = "wait_empty"]
          /\ UNCHANGED <<queue, running>>
    /\ UNCHANGED <<stop, arg, fresh, done, closer>>

(* m_cv_full.notify_one(), then the task is entered. *)
Popped(w) ==
    /\ pc[w] = "popped"
    /\ NotifyOne("wait_full", "submit", [pc EXCEPT ![w] = "run"])
    /\ UNCHANGED <<queue, stop, arg, running, fresh, done, closer>>

(* The task returns, or throws and is caught: the worker goes on alike. *)
Finish(w) ==
    /\ pc[w] = "run" /\ Child[running[w]] \notin fresh
    /\ pc' = [pc EXCEPT ![w] = "take"]
    /\ done' = done \cup {running[w]} /\ running' = [running EXCEPT ![w] = NoTask]
    /\ UNCHANGED <<queue, stop, arg, fresh, closer>>

(* A wait may end without a notify. *)
SpuriousWake(x) ==
    /\ pc[x] \in {"wait_full", "wait_empty"}
    /\ pc' = [pc EXCEPT ![x] = IF @ = "wait_full" THEN "submit" ELSE "take"]
    /\ UNCHANGED <<queue, stop, arg, running, fresh, done, closer>>

-----------------------------------------------------------------------------
(* The destructor.  Its caller has made sure that no thread of its own is   *)
(* still inside submit(): FileIngestor::stop joins its feeder first.        *)
Stop ==
    /\ closer = "live" /\ \A x \in Producers : pc[x] \notin Submitting
    /\ stop' = TRUE /\ closer' = "flagged"
    /\ UNCHANGED <<queue, pc, arg, running, fresh, done>>

WakeWorkers == NotifyAll("wait_empty", "take")

NotifyAllEmpty ==
    /\ closer = "flagged" /\ closer' = "told_workers"
    /\ WakeWorkers
    /\ UNCHANGED <<queue, stop, arg, running, fresh, done>>

NotifyAllFull ==
    /\ closer = "told_workers" /\ closer' = "joining"
    /\ NotifyAll("wait_full", "submit")
    /\ UNCHANGED <<queue, stop, arg, running, fresh, done>>

Join ==
    /\ closer = "joining" /\ \A w \in Workers : pc[w] = "gone"
    /\ closer' = "closed"
    /\ UNCHANGED <<queue, stop, pc, arg, running, fresh, done>>

(* The pool is gone and nothing is left to do. *)
Ended == closer = "closed" /\ UNCHANGED vars

Step(x) == Submit(x) \/ Pushed(x) \/ \E t \in Tasks : x \in Workers /\ Call(x, t)
WorkerStep(w) == Take(w) \/ Popped(w) \/ Finish(w)
Destroy == NotifyAllEmpty \/ NotifyAllFull \/ Join

Next ==
    \/ \E x \in Threads, t \in Tasks : Call(x, t)
    \/ \E x \in Threads : Submit(x) \/ Pushed(x) \/ SpuriousWake(x)
    \/ \E w \in Workers : Take(w) \/ Popped(w) \/ Finish(w)
    \/ Stop
    \/ NotifyAllEmpty
    \/ NotifyAllFull
    \/ Join
    \/ Ended

Spec == Init /\ [][Next]_vars

(* Every thread gets the mutex in the end, a task returns, a destructor     *)
(* that began goes on.  Nobody has to submit, to wake up unasked or to      *)
(* destroy the pool.                                                        *)
Fairness ==
    /\ \A x \in Threads : WF_vars(Step(x))
    /\ \A w \in Workers : WF_vars(WorkerStep(w))
    /\ WF_vars(Destroy)

FairSpec == Spec /\ Fairness

-----------------------------------------------------------------------------
(* The types, and the bound of the queue (thread_pool.cpp:50). *)
TypeOK ==
    /\ queue \in Seq(Tasks) /\ Len(queue) <= Capacity
    /\ stop \in BOOLEAN
    /\ pc \in [Threads -> Submitting \cup {"idle", "take", "wait_empty", "popped", "run", "gone"}]
    /\ arg \in [Threads -> Tasks \cup {NoTask}]
    /\ running \in [Workers -> Tasks \cup {NoTask}]
    /\ fresh \in SUBSET Tasks /\ done \in SUBSET Tasks
    /\ closer \in {"live", "flagged", "told_workers", "joining", "closed"}

At(where) == {x \in Threads : pc[x] = where}

(* No wakeup of a worker is lost, though submit() notifies after it has let *)
(* the mutex go: while a worker sleeps, every queued task has a notify on   *)
(* its way or a worker awake to find it; and once the pool stops, none      *)
(* sleeps but until the destructor's notify_all (thread_pool.cpp:56, :37).  *)
WorkersWake ==
    At("wait_empty") # {} =>
        \/ /\ closer = "live"
           /\ Len(queue) <= Cardinality(At("pushed")) + Cardinality(At("take"))
        \/ closer = "flagged"

(* No wakeup of a submitter is lost: while one sleeps on a full queue,      *)
(* every free slot has a notify on its way or a submitter awake to take it, *)
(* or the destructor is about to wake them all (thread_pool.cpp:74, :38).   *)
SubmittersWake ==
    At("wait_full") # {} =>
        \/ /\ closer = "live"
           /\ Capacity - Len(queue) <= Cardinality(At("popped")) + Cardinality(At("submit"))
        \/ closer \in {"flagged", "told_workers"}

(* The destructor drains: once it has joined, every task submit() accepted  *)
(* has been run and no thread of the pool is inside it (thread_pool.cpp:68, *)
(* "only reachable if stopped and drained").                                *)
DrainedWhenClosed ==
    closer = "closed" =>
        /\ queue = <<>> /\ \A w \in Workers : running[w] = NoTask
        /\ \A x \in Threads : pc[x] \notin Submitting \cup {"wait_empty"}

(* A submit() that blocks on a full queue returns in the end, and so does a *)
(* destructor that starts: stop() of the ingestor relies on it to drain and *)
(* join (file_ingestor.cpp:78).                                             *)
CallsReturn ==
    /\ \A x \in Threads : pc[x] \in Submitting ~> pc[x] \notin Submitting
    /\ stop ~> closer = "closed"

Promise == INSTANCE TaskPool WITH
    NWorkers <- Cardinality(Workers),
    running <- {running[w] : w \in Workers} \ {NoTask},
    closed <- closer = "closed"

(* The pool keeps the abstract promise: bounded, first in first out, each   *)
(* accepted task exactly once, closed only when drained, and nothing        *)
(* accepted is left waiting for ever.                                       *)
KeepsPromise == Promise!Spec
=============================================================================
