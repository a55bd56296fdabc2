-------------------------- MODULE ThreadPoolProofs --------------------------
(***************************************************************************)
(* Proofs about ThreadPool, for any set of producers and tasks, any number *)
(* of workers and any capacity.                                            *)
(***************************************************************************)
EXTENDS ThreadPool, FiniteSetTheorems, TLAPS

Places == Submitting \cup {"idle", "take", "wait_empty", "popped", "run", "gone"}

(* What a thread is doing tells what it has in hand. *)
Roles ==
    /\ \A x \in Producers : pc[x] \in Submitting \cup {"idle"}
    /\ \A w \in Workers :
        /\ pc[w] # "idle"
        /\ running[w] = NoTask <=> pc[w] \in {"take", "wait_empty", "gone"}
    /\ \A x \in Threads : arg[x] = NoTask <=> pc[x] \notin {"submit", "wait_full"}

(* Once the flag is up no producer is inside submit(), and a worker has     *)
(* left only over an empty queue.                                           *)
Stages ==
    /\ stop <=> closer # "live"
    /\ stop => \A x \in Producers : pc[x] = "idle"
    /\ (\E w \in Workers : pc[w] = "gone") => stop /\ queue = <<>>
    /\ closer = "closed" => \A w \in Workers : pc[w] = "gone"

(* A task is in one place: new, in a submit(), queued, running or done. *)
OnePlace ==
    /\ fresh \cap done = {}
    /\ \A x \in Threads : arg[x] \notin fresh \cup done
    /\ \A x \in Threads : \A i \in DOMAIN queue : arg[x] # queue[i]
    /\ \A x \in Threads : \A w \in Workers : arg[x] = running[w] => arg[x] = NoTask
    /\ \A x, y \in Threads : x # y /\ arg[x] = arg[y] => arg[x] = NoTask
    /\ \A i \in DOMAIN queue : queue[i] \notin fresh \cup done
    /\ \A i \in DOMAIN queue : \A w \in Workers : running[w] # queue[i]
    /\ \A i, j \in DOMAIN queue : queue[i] = queue[j] => i = j
    /\ \A w \in Workers : running[w] \notin fresh \cup done
    /\ \A v, w \in Workers : v # w /\ running[v] = running[w] => running[v] = NoTask

(* The inductive invariant. *)
IInv == TypeOK /\ Roles /\ Stages /\ OnePlace

-----------------------------------------------------------------------------
(* notify_one moves at most one thread, from asleep to awake. *)
LEMMA OneWoken ==
  ASSUME NEW asleep, NEW awake \in Places, NEW base \in [Threads -> Places],
         NotifyOne(asleep, awake, base)
  PROVE  /\ pc' \in [Threads -> Places]
         /\ \A y \in Threads : pc'[y] = base[y] \/ (base[y] = asleep /\ pc'[y] = awake)
  BY DEF NotifyOne

(* A step that only moves threads, each to where it may go with the same in *)
(* hand, keeps the invariant.                                               *)
LEMMA MovesOnly ==
  ASSUME IInv, UNCHANGED <<queue, stop, arg, running, fresh, done, closer>>,
         pc' \in [Threads -> Places],
         \A y \in Threads :
            \/ pc'[y] = pc[y]
            \/ pc[y] = "wait_empty" /\ pc'[y] = "take"
            \/ pc[y] = "wait_full" /\ pc'[y] = "submit"
            \/ pc[y] = "pushed" /\ pc'[y] = Back(y)
            \/ pc[y] = "popped" /\ pc'[y] = "run"
  PROVE  IInv'
<1>1. TypeOK'
  BY DEF IInv, TypeOK, Places
<1>2. Roles'
  BY PoolAssumption DEF IInv, TypeOK, Roles, Back, Submitting, Threads
<1>3. Stages'
  <2>1. (stop => \A x \in Producers : pc[x] = "idle")'
    BY DEF IInv, Stages, Threads
  <2>2. \A w \in Workers : pc'[w] = "gone" <=> pc[w] = "gone"
    BY PoolAssumption DEF IInv, Roles, Back, Submitting, Threads
  <2>. QED  BY <2>1, <2>2 DEF IInv, Stages
<1>4. OnePlace'
  BY DEF IInv, OnePlace
<1>. QED  BY <1>1, <1>2, <1>3, <1>4 DEF IInv

LEMMA InitIInv == Init => IInv
<1>. SUFFICES ASSUME Init PROVE IInv
  OBVIOUS
<1>1. TypeOK
  <2>1. queue \in Seq(Tasks) /\ Len(queue) <= Capacity
    BY PoolAssumption DEF Init
  <2>2. pc \in [Threads -> Places]
    BY DEF Init, Submitting, Threads, Places
  <2>3. arg \in [Threads -> Tasks \cup {NoTask}] /\ running \in [Workers -> Tasks \cup {NoTask}]
    BY DEF Init
  <2>. QED  BY <2>1, <2>2, <2>3 DEF Init, TypeOK, Places
<1>2. Roles
  BY PoolAssumption DEF Init, Roles, Submitting, Threads
<1>3. Stages
  BY PoolAssumption DEF Init, Stages, Threads
<1>4. OnePlace
  BY PoolAssumption DEF Init, OnePlace, Threads
<1>. QED  BY <1>1, <1>2, <1>3, <1>4 DEF IInv

LEMMA CallKeeps ==
  ASSUME IInv, NEW x \in Threads, NEW t \in Tasks, Call(x, t)
  PROVE  IInv'
<1>. USE DEF Call
<1>0. /\ pc[x] \in {"idle", "run"} /\ arg[x] = NoTask /\ t \in fresh /\ t # NoTask
      /\ pc'[x] = "submit" /\ arg'[x] = t
      /\ \A y \in Threads : y # x => pc'[y] = pc[y] /\ arg'[y] = arg[y]
  BY PoolAssumption DEF IInv, TypeOK, Roles
<1>1. TypeOK'
  BY DEF IInv, TypeOK, Submitting
<1>2. Roles'
  BY <1>0, PoolAssumption DEF IInv, Roles, Submitting, Threads
<1>3. Stages'
  BY <1>0, PoolAssumption DEF IInv, Stages, Threads
<1>4. OnePlace'
  BY <1>0, PoolAssumption DEF IInv, TypeOK, OnePlace
<1>. QED  BY <1>1, <1>2, <1>3, <1>4 DEF IInv

LEMMA SubmitKeeps ==
  ASSUME IInv, NEW x \in Threads, Submit(x)
  PROVE  IInv'
<1>0. /\ pc[x] = "submit" /\ arg[x] # NoTask /\ arg[x] \in Tasks
      /\ UNCHANGED <<stop, running, fresh, done, closer>>
      /\ \A y \in Threads : y # x => pc'[y] = pc[y] /\ arg'[y] = arg[y]
  BY DEF Submit, IInv, TypeOK, Roles
<1>1. CASE /\ stop
           /\ pc' = [pc EXCEPT ![x] = Back(x)] /\ arg' = [arg EXCEPT ![x] = NoTask]
           /\ UNCHANGED queue
  <2>1. TypeOK'
    BY <1>0, <1>1 DEF IInv, TypeOK, Back, Submitting
  <2>2. Roles'
    BY <1>0, <1>1, PoolAssumption DEF IInv, TypeOK, Roles, Back, Submitting, Threads
  <2>3. Stages'
    BY <1>0, <1>1, PoolAssumption DEF IInv, TypeOK, Stages, Back, Threads
  <2>4. OnePlace'
    BY <1>0, <1>1, PoolAssumption DEF IInv, TypeOK, OnePlace
  <2>. QED  BY <2>1, <2>2, <2>3, <2>4 DEF IInv
<1>2. CASE /\ ~stop /\ Room
           /\ queue' = Append(queue, arg[x])
           /\ pc' = [pc EXCEPT ![x] = "pushed"] /\ arg' = [arg EXCEPT ![x] = NoTask]
  <2>0. /\ queue \in Seq(Tasks) /\ Len(queue) \in Nat
        /\ Len(queue') = Len(queue) + 1 /\ queue' \in Seq(Tasks)
        /\ DOMAIN queue' = DOMAIN queue \cup {Len(queue) + 1} /\ Len(queue) + 1 \notin DOMAIN queue
        /\ \A i \in DOMAIN queue : queue'[i] = queue[i]
        /\ queue'[Len(queue) + 1] = arg[x]
    BY <1>0, <1>2 DEF IInv, TypeOK
  <2>1. TypeOK'
    BY <1>0, <1>2, <2>0, PoolAssumption DEF IInv, TypeOK, Room, Submitting
  <2>2. Roles'
    BY <1>0, <1>2, PoolAssumption DEF IInv, TypeOK, Roles, Submitting, Threads
  <2>3. Stages'
    BY <1>0, <1>2, PoolAssumption DEF IInv, TypeOK, Stages, Threads
  <2>4. OnePlace'
    BY <1>0, <1>2, <2>0, PoolAssumption DEF IInv, TypeOK, OnePlace
  <2>. QED  BY <2>1, <2>2, <2>3, <2>4 DEF IInv
<1>3. CASE /\ ~stop /\ ~Room
           /\ pc' = [pc EXCEPT ![x] = "wait_full"]
           /\ UNCHANGED <<queue, arg>>
  <2>1. TypeOK'
    BY <1>0, <1>3 DEF IInv, TypeOK, Submitting
  <2>2. Roles'
    BY <1>0, <1>3, PoolAssumption DEF IInv, TypeOK, Roles, Submitting, Threads
  <2>3. Stages'
    BY <1>0, <1>3, PoolAssumption DEF IInv, TypeOK, Stages, Threads
  <2>4. OnePlace'
    BY <1>0, <1>3 DEF IInv, OnePlace
  <2>. QED  BY <2>1, <2>2, <2>3, <2>4 DEF IInv
<1>. QED  BY <1>1, <1>2, <1>3 DEF Submit

LEMMA TakeKeeps ==
  ASSUME IInv, NEW w \in Workers, Take(w)
  PROVE  IInv'
<1>0. /\ pc[w] = "take" /\ running[w] = NoTask /\ w \in Threads
      /\ UNCHANGED <<stop, arg, fresh, done, closer>>
      /\ \A y \in Threads : y # w => pc'[y] = pc[y]
  BY DEF Take, IInv, TypeOK, Roles, Threads
<1>1. CASE /\ Drained
           /\ pc' = [pc EXCEPT ![w] = "gone"]
           /\ UNCHANGED <<queue, running>>
  <2>1. TypeOK'
    BY <1>0, <1>1 DEF IInv, TypeOK
  <2>2. Roles'
    BY <1>0, <1>1, PoolAssumption DEF IInv, TypeOK, Roles, Submitting, Threads
  <2>3. Stages'
    BY <1>0, <1>1, PoolAssumption DEF IInv, TypeOK, Stages, Drained, Threads
  <2>4. OnePlace'
    BY <1>0, <1>1 DEF IInv, OnePlace
  <2>. QED  BY <2>1, <2>2, <2>3, <2>4 DEF IInv
<1>2. CASE /\ ~Drained /\ queue # <<>>
           /\ running' = [running EXCEPT ![w] = Oldest] /\ queue' = Tail(queue)
           /\ pc' = [pc EXCEPT ![w] = "popped"]
  <2>0. /\ queue \in Seq(Tasks) /\ queue' \in Seq(Tasks) /\ Len(queue') <= Capacity
        /\ Oldest = queue[1] /\ 1 \in DOMAIN queue /\ Oldest \in Tasks
        /\ \A i \in DOMAIN queue' : i \in Nat /\ i + 1 \in DOMAIN queue /\ i + 1 # 1 /\ queue'[i] = queue[i + 1]
    BY <1>0, <1>2, PoolAssumption DEF IInv, TypeOK, Oldest
  <2>1. TypeOK'
    BY <1>0, <1>2, <2>0 DEF IInv, TypeOK
  <2>2. Roles'
    BY <1>0, <1>2, <2>0, PoolAssumption DEF IInv, TypeOK, Roles, Submitting, Threads
  <2>3. Stages'
    BY <1>0, <1>2, <2>0, PoolAssumption DEF IInv, TypeOK, Stages, Drained, Threads
  <2>4. OnePlace'
    <3>1. \A v \in Workers : v # w => running'[v] = running[v]
      BY <1>2 DEF IInv, TypeOK
    <3>2. running'[w] = Oldest
      BY <1>2 DEF IInv, TypeOK
    <3>3. /\ \A x \in Threads : \A i \in DOMAIN queue' : arg'[x] # queue'[i]
          /\ \A i \in DOMAIN queue' : queue'[i] \notin fresh' \cup done'
          /\ \A i \in DOMAIN queue' : queue'[i] # Oldest
          /\ \A i \in DOMAIN queue' : \A v \in Workers : running[v] # queue'[i]
          /\ \A i, j \in DOMAIN queue' : queue'[i] = queue'[j] => i = j
      BY <1>0, <2>0 DEF IInv, OnePlace
    <3>4. /\ \A x \in Threads : arg[x] # Oldest
          /\ \A v \in Workers : running[v] # Oldest
          /\ Oldest \notin fresh \cup done
      BY <2>0 DEF IInv, OnePlace
    <3>. QED  BY <1>0, <3>1, <3>2, <3>3, <3>4 DEF IInv, OnePlace
  <2>. QED  BY <2>1, <2>2, <2>3, <2>4 DEF IInv
<1>3. CASE /\ ~stop /\ queue = <<>>
           /\ pc' = [pc EXCEPT ![w] = "wait_empty"]
           /\ UNCHANGED <<queue, running>>
  <2>1. TypeOK'
    BY <1>0, <1>3 DEF IInv, TypeOK
  <2>2. Roles'
    BY <1>0, <1>3, PoolAssumption DEF IInv, TypeOK, Roles, Submitting, Threads
  <2>3. Stages'
    BY <1>0, <1>3, PoolAssumption DEF IInv, TypeOK, Stages, Threads
  <2>4. OnePlace'
    BY <1>0, <1>3 DEF IInv, OnePlace
  <2>. QED  BY <2>1, <2>2, <2>3, <2>4 DEF IInv
<1>. QED  BY <1>1, <1>2, <1>3 DEF Take

LEMMA FinishKeeps ==
  ASSUME IInv, NEW w \in Workers, Finish(w)
  PROVE  IInv'
<1>. USE DEF Finish
<1>0. /\ w \in Threads /\ running[w] \in Tasks /\ running[w] # NoTask
      /\ running'[w] = NoTask /\ pc'[w] = "take"
      /\ \A y \in Threads : y # w => pc'[y] = pc[y]
      /\ \A v \in Workers : v # w => running'[v] = running[v]
  BY PoolAssumption DEF IInv, TypeOK, Roles, Threads
<1>1. TypeOK'
  BY <1>0 DEF IInv, TypeOK
<1>2. Roles'
  BY <1>0, PoolAssumption DEF IInv, Roles, Submitting, Threads
<1>3. Stages'
  BY <1>0, PoolAssumption DEF IInv, Stages, Threads
<1>4. OnePlace'
  BY <1>0, PoolAssumption DEF IInv, TypeOK, OnePlace
<1>. QED  BY <1>1, <1>2, <1>3, <1>4 DEF IInv

LEMMA PushedKeeps ==
  ASSUME IInv, NEW x \in Threads, Pushed(x)
  PROVE  IInv'
<1>. DEFINE base == [pc EXCEPT ![x] = Back(x)]
<1>1. base \in [Threads -> Places]
  BY DEF IInv, TypeOK, Back, Places
<1>2. NotifyOne("wait_empty", "take", base)
  BY DEF Pushed
<1>3. /\ pc' \in [Threads -> Places]
      /\ \A y \in Threads : pc'[y] = base[y] \/ (base[y] = "wait_empty" /\ pc'[y] = "take")
  <2>. HIDE DEF base
  <2>. QED  BY <1>1, <1>2, OneWoken DEF Places
<1>. QED  BY <1>3, MovesOnly DEF Pushed, IInv, TypeOK, Back

LEMMA PoppedKeeps ==
  ASSUME IInv, NEW w \in Workers, Popped(w)
  PROVE  IInv'
<1>. DEFINE base == [pc EXCEPT ![w] = "run"]
<1>1. base \in [Threads -> Places]
  BY DEF IInv, TypeOK, Places
<1>2. NotifyOne("wait_full", "submit", base)
  BY DEF Popped
<1>3. /\ pc' \in [Threads -> Places]
      /\ \A y \in Threads : pc'[y] = base[y] \/ (base[y] = "wait_full" /\ pc'[y] = "submit")
  <2>. HIDE DEF base
  <2>. QED  BY <1>1, <1>2, OneWoken DEF Places, Submitting
<1>. QED  BY <1>3, MovesOnly DEF Popped, IInv, TypeOK, Threads

LEMMA SpuriousWakeKeeps ==
  ASSUME IInv, NEW x \in Threads, SpuriousWake(x)
  PROVE  IInv'
<1>1. /\ pc' \in [Threads -> Places]
      /\ \A y \in Threads :
            \/ pc'[y] = pc[y]
            \/ pc[y] = "wait_empty" /\ pc'[y] = "take"
            \/ pc[y] = "wait_full" /\ pc'[y] = "submit"
  BY DEF SpuriousWake, IInv, TypeOK, Places, Submitting
<1>. QED  BY <1>1, MovesOnly DEF SpuriousWake

LEMMA DestroyKeeps ==
  ASSUME IInv, Stop \/ NotifyAllEmpty \/ NotifyAllFull \/ Join
  PROVE  IInv'
<1>1. CASE Stop
  <2>1. \A x \in Producers : pc[x] = "idle"
    BY <1>1 DEF Stop, IInv, Roles
  <2>2. TypeOK'
    BY <1>1 DEF Stop, IInv, TypeOK
  <2>3. (Roles /\ OnePlace)'
    BY <1>1 DEF Stop, IInv, Roles, OnePlace
  <2>4. Stages'
    BY <1>1, <2>1 DEF Stop, IInv, Stages
  <2>. QED  BY <2>2, <2>3, <2>4 DEF IInv
<1>2. CASE NotifyAllEmpty \/ NotifyAllFull
  <2>1. /\ pc' \in [Threads -> Places]
        /\ \A y \in Threads :
              \/ pc'[y] = pc[y]
              \/ pc[y] = "wait_empty" /\ pc'[y] = "take"
              \/ pc[y] = "wait_full" /\ pc'[y] = "submit"
    BY <1>2 DEF NotifyAllEmpty, NotifyAllFull, WakeWorkers, NotifyAll, IInv, TypeOK, Places, Submitting
  <2>2. /\ UNCHANGED <<queue, stop, arg, running, fresh, done>>
        /\ closer \notin {"live", "closed"} /\ closer' \in {"told_workers", "joining"}
    BY <1>2 DEF NotifyAllEmpty, NotifyAllFull
  <2>3. TypeOK'
    BY <2>1, <2>2 DEF IInv, TypeOK, Places
  <2>4. Roles'
    BY <2>1, <2>2, PoolAssumption DEF IInv, TypeOK, Roles, Submitting, Threads
  <2>5. Stages'
    BY <2>1, <2>2, PoolAssumption DEF IInv, TypeOK, Stages, Threads
  <2>6. OnePlace'
    BY <2>2 DEF IInv, OnePlace
  <2>. QED  BY <2>3, <2>4, <2>5, <2>6 DEF IInv
<1>3. CASE Join
  <2>1. TypeOK'
    BY <1>3 DEF Join, IInv, TypeOK
  <2>2. (Roles /\ OnePlace)'
    BY <1>3 DEF Join, IInv, Roles, OnePlace
  <2>3. Stages'
    BY <1>3 DEF Join, IInv, Stages
  <2>. QED  BY <2>1, <2>2, <2>3 DEF IInv
<1>. QED  BY <1>1, <1>2, <1>3

LEMMA NextKeeps == IInv /\ [Next]_vars => IInv'
<1>. SUFFICES ASSUME IInv, [Next]_vars PROVE IInv'
  OBVIOUS
<1>1. CASE \E x \in Threads, t \in Tasks : Call(x, t)
  BY <1>1, CallKeeps
<1>2. CASE \E x \in Threads : Submit(x) \/ Pushed(x) \/ SpuriousWake(x)
  BY <1>2, SubmitKeeps, PushedKeeps, SpuriousWakeKeeps
<1>3. CASE \E w \in Workers : Take(w) \/ Popped(w) \/ Finish(w)
  BY <1>3, TakeKeeps, PoppedKeeps, FinishKeeps
<1>4. CASE Stop \/ NotifyAllEmpty \/ NotifyAllFull \/ Join
  BY <1>4, DestroyKeeps
<1>5. CASE Ended \/ UNCHANGED vars
  BY <1>5 DEF Ended, vars, IInv, TypeOK, Roles, Stages, OnePlace
<1>. QED  BY <1>1, <1>2, <1>3, <1>4, <1>5 DEF Next

LEMMA Inductive == Spec => []IInv
  BY InitIInv, NextKeeps, PTL DEF Spec
-----------------------------------------------------------------------------
(* The state stays typed and the queue within its capacity, however many    *)
(* threads submit at once (thread_pool.cpp:50).                             *)
THEOREM TypeCorrect == Spec => []TypeOK
  BY Inductive, PTL DEF IInv

(* A destructor that has joined leaves nothing behind: no queued task, no   *)
(* running one and no thread inside the pool (thread_pool.cpp:68).          *)
THEOREM Drains == Spec => []DrainedWhenClosed
<1>1. IInv => DrainedWhenClosed
  <2>. SUFFICES ASSUME IInv, closer = "closed" PROVE DrainedWhenClosed
    BY DEF DrainedWhenClosed
  <2>1. \A w \in Workers : pc[w] = "gone" /\ running[w] = NoTask
    BY DEF IInv, Roles, Stages
  <2>2. \A x \in Producers : pc[x] = "idle"
    BY DEF IInv, Stages
  <2>3. queue = <<>>
    BY <2>1, PoolAssumption DEF IInv, Stages
  <2>. QED  BY <2>1, <2>2, <2>3 DEF DrainedWhenClosed, Threads, Submitting
<1>. QED  BY <1>1, Inductive, PTL

-----------------------------------------------------------------------------
(* Wakeups, by counting the threads at each place. *)
Who(f, c) == {y \in Threads : f[y] = c}
Count(f, c) == Cardinality(Who(f, c))

LEMMA CountType ==
  ASSUME NEW f, NEW c
  PROVE  IsFiniteSet(Who(f, c)) /\ Count(f, c) \in Nat
<1>1. IsFiniteSet(Threads)
  BY PoolAssumption, FS_Union DEF Threads
<1>2. IsFiniteSet(Who(f, c))
  BY <1>1, FS_Subset DEF Who
<1>. QED  BY <1>2, FS_CardinalityType DEF Count

(* A thread that moves is counted where it arrives and no longer where it   *)
(* was.                                                                     *)
LEMMA Arrives ==
  ASSUME NEW f, NEW g, NEW x \in Threads, NEW from, NEW to, from # to,
         f[x] = from, g[x] = to, \A y \in Threads : y # x => g[y] = f[y]
  PROVE  Count(g, to) = Count(f, to) + 1
<1>1. Who(g, to) = Who(f, to) \cup {x} /\ x \notin Who(f, to)
  BY DEF Who
<1>. QED  BY <1>1, CountType, FS_AddElement DEF Count

LEMMA Leaves ==
  ASSUME NEW f, NEW g, NEW x \in Threads, NEW from, NEW to, from # to,
         f[x] = from, g[x] = to, \A y \in Threads : y # x => g[y] = f[y]
  PROVE  Count(g, from) = Count(f, from) - 1
<1>1. Who(g, from) = Who(f, from) \ {x} /\ x \in Who(f, from)
  BY DEF Who
<1>. QED  BY <1>1, CountType, FS_RemoveElement DEF Count

LEMMA Stays ==
  ASSUME NEW f, NEW g, NEW x \in Threads, NEW from, NEW to, from # to,
         f[x] = from, g[x] = to, \A y \in Threads : y # x => g[y] = f[y]
  PROVE  \A c : c # to /\ c # from => Who(g, c) = Who(f, c)
BY DEF Who

(* notify_one adds a thread to those awake, unless none sleeps. *)
LEMMA OneWakes ==
  ASSUME NEW base \in [Threads -> Places], NEW asleep, NEW awake \in Places, asleep # awake,
         NotifyOne(asleep, awake, base)
  PROVE  \/ Who(base, asleep) = {} /\ pc' = base
         \/ /\ Who(base, asleep) # {}
            /\ Count(pc', awake) = Count(base, awake) + 1
            /\ \A c : c # asleep /\ c # awake => Who(pc', c) = Who(base, c)
<1>1. CASE \E y \in Threads : base[y] = asleep
  <2>1. PICK y \in Threads : base[y] = asleep /\ pc' = [base EXCEPT ![y] = awake]
    BY <1>1 DEF NotifyOne
  <2>2. y \in Who(base, asleep)
    BY <2>1 DEF Who
  <2>3. base[y] = asleep /\ pc'[y] = awake /\ \A z \in Threads : z # y => pc'[z] = base[z]
    BY <2>1
  <2>4. Count(pc', awake) = Count(base, awake) + 1
    BY <2>3, Arrives
  <2>5. \A c : c # asleep /\ c # awake => Who(pc', c) = Who(base, c)
    BY <2>3, Stays
  <2>. QED  BY <2>2, <2>4, <2>5
<1>2. CASE ~(\E y \in Threads : base[y] = asleep)
  BY <1>2 DEF NotifyOne, Who
<1>. QED  BY <1>1, <1>2

(* The wakeup properties over counts, before and after a step. *)
LEMMA WakesCounted ==
  /\ WorkersWake <=>
        (Who(pc, "wait_empty") # {} =>
            \/ closer = "live" /\ Len(queue) <= Count(pc, "pushed") + Count(pc, "take")
            \/ closer = "flagged")
  /\ SubmittersWake <=>
        (Who(pc, "wait_full") # {} =>
            \/ /\ closer = "live"
               /\ Capacity - Len(queue) <= Count(pc, "popped") + Count(pc, "submit")
            \/ closer \in {"flagged", "told_workers"})
  /\ WorkersWake' <=>
        (Who(pc', "wait_empty") # {} =>
            \/ closer' = "live" /\ Len(queue') <= Count(pc', "pushed") + Count(pc', "take")
            \/ closer' = "flagged")
  /\ SubmittersWake' <=>
        (Who(pc', "wait_full") # {} =>
            \/ /\ closer' = "live"
               /\ Capacity - Len(queue') <= Count(pc', "popped") + Count(pc', "submit")
            \/ closer' \in {"flagged", "told_workers"})
BY DEF WorkersWake, SubmittersWake, At, Who, Count

WakeInv == IInv /\ WorkersWake /\ SubmittersWake

LEMMA SubmitWakes ==
  ASSUME WakeInv, IInv', NEW x \in Threads, Submit(x)
  PROVE  (WorkersWake /\ SubmittersWake)'
<1>0. /\ pc \in [Threads -> Places] /\ pc[x] = "submit" /\ closer' = closer
      /\ Len(queue) \in Nat /\ Capacity \in Nat
      /\ \A c : Count(pc, c) \in Nat /\ Count(pc', c) \in Nat
      /\ stop <=> closer # "live"
  BY PoolAssumption, CountType DEF Submit, WakeInv, IInv, TypeOK, Stages, Places
<1>1. CASE stop /\ pc' = [pc EXCEPT ![x] = Back(x)] /\ UNCHANGED queue
  <2>1. /\ Who(pc', "wait_empty") = Who(pc, "wait_empty")
        /\ Who(pc', "wait_full") = Who(pc, "wait_full")
    BY <1>0, <1>1 DEF Who, Back
  <2>. QED  BY <1>0, <1>1, <2>1, WakesCounted DEF WakeInv
<1>2. CASE /\ ~stop /\ Room
           /\ queue' = Append(queue, arg[x]) /\ pc' = [pc EXCEPT ![x] = "pushed"]
  <2>1. pc[x] = "submit" /\ pc'[x] = "pushed" /\ \A y \in Threads : y # x => pc'[y] = pc[y]
    BY <1>0, <1>2
  <2>2. Count(pc', "pushed") = Count(pc, "pushed") + 1
    BY <2>1, Arrives
  <2>3. Count(pc', "submit") = Count(pc, "submit") - 1
    BY <2>1, Leaves
  <2>4. /\ Count(pc', "take") = Count(pc, "take")
        /\ Count(pc', "popped") = Count(pc, "popped")
        /\ Who(pc', "wait_empty") = Who(pc, "wait_empty")
        /\ Who(pc', "wait_full") = Who(pc, "wait_full")
    BY <2>1, Stays DEF Count
  <2>5. Len(queue') = Len(queue) + 1
    BY <1>2 DEF WakeInv, IInv, TypeOK
  <2>. QED  BY <1>0, <2>2, <2>3, <2>4, <2>5, WakesCounted DEF WakeInv
<1>3. CASE ~stop /\ ~Room /\ pc' = [pc EXCEPT ![x] = "wait_full"] /\ UNCHANGED queue
  <2>1. pc[x] = "submit" /\ pc'[x] = "wait_full" /\ \A y \in Threads : y # x => pc'[y] = pc[y]
    BY <1>0, <1>3
  <2>2. /\ Count(pc', "take") = Count(pc, "take")
        /\ Count(pc', "pushed") = Count(pc, "pushed")
        /\ Who(pc', "wait_empty") = Who(pc, "wait_empty")
    BY <2>1, Stays DEF Count
  <2>3. Capacity - Len(queue') <= 0 /\ Len(queue') = Len(queue) /\ closer = "live"
    BY <1>0, <1>3 DEF Room
  <2>. QED  BY <1>0, <2>2, <2>3, WakesCounted DEF WakeInv
<1>. QED  BY <1>1, <1>2, <1>3 DEF Submit

LEMMA TakeWakes ==
  ASSUME WakeInv, IInv', NEW w \in Workers, Take(w)
  PROVE  (WorkersWake /\ SubmittersWake)'
<1>0. /\ pc \in [Threads -> Places] /\ pc[w] = "take" /\ closer' = closer /\ w \in Threads
      /\ Len(queue) \in Nat /\ Capacity \in Nat
      /\ \A c : Count(pc, c) \in Nat /\ Count(pc', c) \in Nat
      /\ stop <=> closer # "live"
  BY PoolAssumption, CountType DEF Take, WakeInv, IInv, TypeOK, Stages, Places, Threads
<1>1. CASE Drained /\ pc' = [pc EXCEPT ![w] = "gone"] /\ UNCHANGED queue
  <2>1. /\ Who(pc', "wait_empty") = Who(pc, "wait_empty")
        /\ Who(pc', "wait_full") = Who(pc, "wait_full")
    BY <1>0, <1>1 DEF Who
  <2>. QED  BY <1>0, <1>1, <2>1, WakesCounted DEF WakeInv, Drained
<1>2. CASE queue # <<>> /\ queue' = Tail(queue) /\ pc' = [pc EXCEPT ![w] = "popped"]
  <2>1. w \in Threads /\ pc[w] = "take" /\ pc'[w] = "popped" /\ \A y \in Threads : y # w => pc'[y] = pc[y]
    BY <1>0, <1>2
  <2>2. Count(pc', "popped") = Count(pc, "popped") + 1
    BY <2>1, Arrives
  <2>3. Count(pc', "take") = Count(pc, "take") - 1
    BY <2>1, Leaves
  <2>4. /\ Count(pc', "submit") = Count(pc, "submit")
        /\ Count(pc', "pushed") = Count(pc, "pushed")
        /\ Who(pc', "wait_empty") = Who(pc, "wait_empty")
        /\ Who(pc', "wait_full") = Who(pc, "wait_full")
    BY <2>1, Stays DEF Count
  <2>5. Len(queue') = Len(queue) - 1
    BY <1>2 DEF WakeInv, IInv, TypeOK
  <2>. QED  BY <1>0, <2>2, <2>3, <2>4, <2>5, WakesCounted DEF WakeInv
<1>3. CASE ~stop /\ queue = <<>> /\ pc' = [pc EXCEPT ![w] = "wait_empty"] /\ UNCHANGED queue
  <2>1. w \in Threads /\ pc[w] = "take" /\ pc'[w] = "wait_empty" /\ \A y \in Threads : y # w => pc'[y] = pc[y]
    BY <1>0, <1>3
  <2>0. \A c : c # "wait_empty" /\ c # "take" => Who(pc', c) = Who(pc, c)
    BY <2>1, Stays
  <2>2. /\ Count(pc', "popped") = Count(pc, "popped")
        /\ Count(pc', "submit") = Count(pc, "submit")
        /\ Who(pc', "wait_full") = Who(pc, "wait_full")
    BY <2>0 DEF Count
  <2>3. Len(queue') = 0 /\ Len(queue) = 0 /\ closer = "live"
    BY <1>0, <1>3
  <2>. QED  BY <1>0, <2>2, <2>3, WakesCounted DEF WakeInv
<1>. QED  BY <1>1, <1>2, <1>3 DEF Take

LEMMA PushedWakes ==
  ASSUME WakeInv, IInv', NEW x \in Threads, Pushed(x)
  PROVE  (WorkersWake /\ SubmittersWake)'
<1>. DEFINE base == [pc EXCEPT ![x] = Back(x)]
<1>0. /\ UNCHANGED <<closer, queue>> /\ Len(queue) \in Nat /\ Capacity \in Nat
      /\ \A c : Count(pc, c) \in Nat /\ Count(base, c) \in Nat /\ Count(pc', c) \in Nat
  BY PoolAssumption, CountType DEF Pushed, WakeInv, IInv, TypeOK
<1>1. /\ base \in [Threads -> Places] /\ NotifyOne("wait_empty", "take", base)
      /\ Back(x) \in {"run", "idle"}
  BY DEF Pushed, WakeInv, IInv, TypeOK, Back, Places
<1>2. /\ pc[x] = "pushed" /\ base[x] = Back(x) /\ Back(x) # "pushed"
      /\ \A y \in Threads : y # x => base[y] = pc[y]
  BY DEF Pushed, WakeInv, IInv, TypeOK, Back
<1>. HIDE DEF base
<1>3. Count(base, "pushed") = Count(pc, "pushed") - 1
  BY <1>2, Leaves
<1>4. \A c : c # Back(x) /\ c # "pushed" => Who(base, c) = Who(pc, c)
  BY <1>2, Stays
<1>5. /\ Count(base, "take") = Count(pc, "take") /\ Count(base, "popped") = Count(pc, "popped")
      /\ Count(base, "submit") = Count(pc, "submit")
      /\ Who(base, "wait_empty") = Who(pc, "wait_empty")
      /\ Who(base, "wait_full") = Who(pc, "wait_full")
  BY <1>1, <1>4 DEF Count
<1>6. CASE Who(base, "wait_empty") = {} /\ pc' = base
  BY <1>0, <1>3, <1>5, <1>6, WakesCounted DEF WakeInv
<1>7. CASE /\ Who(base, "wait_empty") # {} /\ Count(pc', "take") = Count(base, "take") + 1
           /\ \A c : c # "wait_empty" /\ c # "take" => Who(pc', c) = Who(base, c)
  <2>1. /\ Count(pc', "pushed") = Count(base, "pushed")
        /\ Count(pc', "popped") = Count(base, "popped")
        /\ Count(pc', "submit") = Count(base, "submit")
        /\ Who(pc', "wait_full") = Who(base, "wait_full")
    BY <1>7 DEF Count
  <2>. QED  BY <1>0, <1>3, <1>5, <1>7, <2>1, WakesCounted DEF WakeInv
<1>8. "take" \in Places /\ "wait_empty" # "take"
  BY DEF Places
<1>. QED  BY <1>1, <1>6, <1>7, <1>8, OneWakes

LEMMA PoppedWakes ==
  ASSUME WakeInv, IInv', NEW w \in Workers, Popped(w)
  PROVE  (WorkersWake /\ SubmittersWake)'
<1>. DEFINE base == [pc EXCEPT ![w] = "run"]
<1>0. /\ UNCHANGED <<closer, queue>> /\ Len(queue) \in Nat /\ Capacity \in Nat
      /\ \A c : Count(pc, c) \in Nat /\ Count(base, c) \in Nat /\ Count(pc', c) \in Nat
  BY PoolAssumption, CountType DEF Popped, WakeInv, IInv, TypeOK
<1>1. base \in [Threads -> Places] /\ NotifyOne("wait_full", "submit", base)
  BY DEF Popped, WakeInv, IInv, TypeOK, Places
<1>2. /\ w \in Threads /\ pc[w] = "popped" /\ base[w] = "run"
      /\ \A y \in Threads : y # w => base[y] = pc[y]
  BY DEF Popped, WakeInv, IInv, TypeOK, Threads
<1>. HIDE DEF base
<1>3. Count(base, "popped") = Count(pc, "popped") - 1
  BY <1>2, Leaves
<1>4. \A c : c # "run" /\ c # "popped" => Who(base, c) = Who(pc, c)
  BY <1>2 DEF Who
<1>5. /\ Count(base, "take") = Count(pc, "take") /\ Count(base, "pushed") = Count(pc, "pushed")
      /\ Count(base, "submit") = Count(pc, "submit")
      /\ Who(base, "wait_empty") = Who(pc, "wait_empty")
      /\ Who(base, "wait_full") = Who(pc, "wait_full")
  BY <1>4 DEF Count
<1>6. CASE Who(base, "wait_full") = {} /\ pc' = base
  BY <1>0, <1>3, <1>5, <1>6, WakesCounted DEF WakeInv
<1>7. CASE /\ Who(base, "wait_full") # {} /\ Count(pc', "submit") = Count(base, "submit") + 1
           /\ \A c : c # "wait_full" /\ c # "submit" => Who(pc', c) = Who(base, c)
  <2>1. /\ Count(pc', "pushed") = Count(base, "pushed")
        /\ Count(pc', "popped") = Count(base, "popped")
        /\ Count(pc', "take") = Count(base, "take")
        /\ Who(pc', "wait_empty") = Who(base, "wait_empty")
    BY <1>7 DEF Count
  <2>. QED  BY <1>0, <1>3, <1>5, <1>7, <2>1, WakesCounted DEF WakeInv
<1>8. "submit" \in Places /\ "wait_full" # "submit"
  BY DEF Places, Submitting
<1>. QED  BY <1>1, <1>6, <1>7, <1>8, OneWakes

(* A thread that comes to where it will look at the queue, from a place     *)
(* that no bound counts, leaves the bounds standing.                        *)
LEMMA MoreAwake ==
  ASSUME WakeInv, UNCHANGED <<queue, closer>>, NEW x \in Threads, NEW from, NEW to,
         to \in {"take", "submit"}, from \in {"idle", "run", "wait_full", "wait_empty"},
         pc[x] = from, pc'[x] = to, \A y \in Threads : y # x => pc'[y] = pc[y]
  PROVE  (WorkersWake /\ SubmittersWake)'
<1>0. /\ Len(queue) \in Nat /\ Capacity \in Nat
      /\ \A c : Count(pc, c) \in Nat /\ Count(pc', c) \in Nat
  BY PoolAssumption, CountType DEF WakeInv, IInv, TypeOK
<1>1. Count(pc', to) = Count(pc, to) + 1
  BY Arrives
<1>2. \A c : c # to /\ c # from => Who(pc', c) = Who(pc, c)
  BY DEF Who
<1>3. \A c \in {"take", "submit", "pushed", "popped"} : Count(pc', c) >= Count(pc, c)
  BY <1>0, <1>1, <1>2 DEF Count
<1>4. /\ Who(pc', "wait_empty") \subseteq Who(pc, "wait_empty")
      /\ Who(pc', "wait_full") \subseteq Who(pc, "wait_full")
  BY DEF Who
<1>. QED  BY <1>0, <1>3, <1>4, WakesCounted DEF WakeInv

LEMMA DestroyWakes ==
  ASSUME WakeInv, Stop \/ NotifyAllEmpty \/ NotifyAllFull \/ Join
  PROVE  (WorkersWake /\ SubmittersWake)'
<1>1. CASE Stop
  BY <1>1, WakesCounted DEF Stop
<1>2. CASE NotifyAllEmpty
  <2>1. Who(pc', "wait_empty") = {} /\ closer' = "told_workers"
    BY <1>2 DEF NotifyAllEmpty, WakeWorkers, NotifyAll, Who
  <2>. QED  BY <2>1, WakesCounted
<1>3. CASE NotifyAllFull
  <2>1. Who(pc, "wait_empty") = {}
    BY <1>3, WakesCounted DEF NotifyAllFull, WakeInv
  <2>2. Who(pc', "wait_empty") = {} /\ Who(pc', "wait_full") = {}
    BY <1>3, <2>1 DEF NotifyAllFull, NotifyAll, Who
  <2>. QED  BY <2>2, WakesCounted
<1>4. CASE Join
  <2>1. Who(pc, "wait_empty") = {} /\ Who(pc, "wait_full") = {}
    BY <1>4, WakesCounted DEF Join, WakeInv
  <2>. QED  BY <1>4, <2>1, WakesCounted DEF Join
<1>. QED  BY <1>1, <1>2, <1>3, <1>4

LEMMA NextWakes == WakeInv /\ [Next]_vars => WakeInv'
<1>. SUFFICES ASSUME WakeInv, [Next]_vars PROVE (WorkersWake /\ SubmittersWake)'
  BY NextKeeps DEF WakeInv
<1>0. IInv'
  BY NextKeeps DEF WakeInv
<1>1. ASSUME NEW x \in Threads, NEW t \in Tasks, Call(x, t)
      PROVE  (WorkersWake /\ SubmittersWake)'
  <2>1. /\ UNCHANGED <<queue, closer>> /\ pc[x] \in {"idle", "run"} /\ pc'[x] = "submit"
        /\ \A y \in Threads : y # x => pc'[y] = pc[y]
    BY <1>1 DEF Call, WakeInv, IInv, TypeOK
  <2>. QED  BY <2>1, MoreAwake
<1>2. ASSUME NEW x \in Threads, SpuriousWake(x)
      PROVE  (WorkersWake /\ SubmittersWake)'
  <2>1. /\ UNCHANGED <<queue, closer>> /\ pc[x] \in {"wait_full", "wait_empty"}
        /\ pc'[x] \in {"take", "submit"}
        /\ \A y \in Threads : y # x => pc'[y] = pc[y]
    BY <1>2 DEF SpuriousWake, WakeInv, IInv, TypeOK
  <2>. QED  BY <2>1, MoreAwake
<1>3. ASSUME NEW w \in Workers, Finish(w)
      PROVE  (WorkersWake /\ SubmittersWake)'
  <2>1. /\ UNCHANGED <<queue, closer>> /\ w \in Threads /\ pc[w] = "run" /\ pc'[w] = "take"
        /\ \A y \in Threads : y # w => pc'[y] = pc[y]
    BY <1>3 DEF Finish, WakeInv, IInv, TypeOK, Threads
  <2>. QED  BY <2>1, MoreAwake
<1>4. CASE Ended \/ UNCHANGED vars
  BY <1>4, WakesCounted DEF Ended, vars, WakeInv
<1>. QED
  BY <1>0, <1>1, <1>2, <1>3, <1>4, SubmitWakes, TakeWakes, PushedWakes, PoppedWakes, DestroyWakes
  DEF Next

LEMMA WakesInductive == Spec => []WakeInv
<1>1. Init => WakeInv
  <2>1. ASSUME Init PROVE Who(pc, "wait_empty") = {} /\ Who(pc, "wait_full") = {}
    BY <2>1 DEF Init, Who
  <2>. QED  BY <2>1, InitIInv, WakesCounted DEF WakeInv
<1>. QED  BY <1>1, NextWakes, PTL DEF Spec

(* No wakeup of a worker is lost, with any number of producers and workers, *)
(* though submit() notifies with the mutex released (thread_pool.cpp:56).   *)
THEOREM WorkersAreWoken == Spec => []WorkersWake
  BY WakesInductive, PTL DEF WakeInv

(* No wakeup of a blocked submit() is lost, though a worker notifies with   *)
(* the mutex released (thread_pool.cpp:74).                                 *)
THEOREM SubmittersAreWoken == Spec => []SubmittersWake
  BY WakesInductive, PTL DEF WakeInv

-----------------------------------------------------------------------------
(* The tasks that are running, as the abstract pool sees them. *)
Busy == {running[w] : w \in Workers} \ {NoTask}

(* While a worker has nothing in hand, fewer tasks run than there are       *)
(* workers.                                                                 *)
LEMMA SpareWorker ==
  ASSUME TypeOK, NEW w \in Workers, running[w] = NoTask
  PROVE  Cardinality(Busy) < Cardinality(Workers)
<1>. DEFINE At_ == {v \in Workers : running[v] # NoTask}
            f == [v \in At_ |-> running[v]]
            others == Workers \ {w}
<1>1. IsFiniteSet(others) /\ Cardinality(others) = Cardinality(Workers) - 1
  BY PoolAssumption, FS_RemoveElement
<1>2. At_ \in SUBSET others
  OBVIOUS
<1>3. IsFiniteSet(At_) /\ Cardinality(At_) <= Cardinality(others)
  BY <1>1, <1>2, FS_Subset
<1>4. f \in Surjection(At_, Busy)
  BY DEF Busy, Surjection
<1>5. IsFiniteSet(Busy) /\ Cardinality(Busy) <= Cardinality(At_)
  BY <1>3, <1>4, FS_Surjection
<1>6. /\ Cardinality(Workers) \in Nat /\ Cardinality(At_) \in Nat
      /\ Cardinality(Busy) \in Nat /\ Cardinality(others) \in Nat
  BY <1>1, <1>3, <1>5, PoolAssumption, FS_CardinalityType
<1>. QED  BY <1>1, <1>3, <1>5, <1>6

(* Every step of the pool is one of the abstract pool, or none. *)
LEMMA StepRefines == IInv /\ [Next]_vars => [Promise!Next]_Promise!vars
<1>. SUFFICES ASSUME IInv, [Next]_vars PROVE [Promise!Next]_Promise!vars
  OBVIOUS
<1>. USE DEF Promise!vars
<1>1. ASSUME UNCHANGED <<queue, running, done, closer>>
      PROVE  UNCHANGED Promise!vars
  BY <1>1
<1>2. ASSUME NEW x \in Threads, Submit(x)
      PROVE  [Promise!Next]_Promise!vars
  <2>1. CASE UNCHANGED queue
    BY <1>1, <1>2, <2>1 DEF Submit
  <2>2. CASE ~stop /\ Room /\ queue' = Append(queue, arg[x])
    <3>1. arg[x] \in Tasks /\ arg[x] # NoTask
      BY <1>2 DEF Submit, IInv, TypeOK, Roles
    <3>2. /\ arg[x] \notin Busy \cup done
          /\ \A i \in DOMAIN queue : queue[i] # arg[x]
      BY <3>1 DEF IInv, OnePlace, Busy
    <3>3. ~(closer = "closed")
      BY <2>2 DEF IInv, Stages
    <3>4. UNCHANGED <<running, done, closer>>
      BY <1>2 DEF Submit
    <3>. QED  BY <2>2, <3>1, <3>2, <3>3, <3>4 DEF Promise!Next, Promise!Accept, Room, Busy
  <2>. QED  BY <1>2, <2>1, <2>2 DEF Submit
<1>3. ASSUME NEW w \in Workers, Take(w)
      PROVE  [Promise!Next]_Promise!vars
  <2>1. CASE UNCHANGED <<queue, running>>
    BY <1>1, <1>3, <2>1 DEF Take
  <2>2. CASE queue # <<>> /\ running' = [running EXCEPT ![w] = Oldest] /\ queue' = Tail(queue)
    <3>1. running[w] = NoTask
      BY <1>3 DEF Take, IInv, Roles
    <3>2. Cardinality(Busy) < Cardinality(Workers)
      BY <3>1, SpareWorker DEF IInv
    <3>3. Head(queue) \in Tasks /\ Head(queue) # NoTask
      BY <2>2, PoolAssumption DEF IInv, TypeOK
    <3>4. /\ running'[w] = Head(queue)
          /\ \A v \in Workers : v # w => running'[v] = running[v]
      BY <2>2 DEF IInv, TypeOK, Oldest
    <3>5. Busy' = Busy \cup {Head(queue)}
      BY <3>1, <3>3, <3>4 DEF Busy
    <3>6. UNCHANGED <<done, closer>>
      BY <1>3 DEF Take
    <3>7. Promise!Cardinality(Busy) = Cardinality(Busy)
      BY DEF Promise!Cardinality, Cardinality
    <3>8. Promise!Start
      BY <2>2, <3>2, <3>5, <3>6, <3>7 DEF Promise!Start, Busy
    <3>. QED  BY <3>8 DEF Promise!Next
  <2>. QED  BY <1>3, <2>1, <2>2 DEF Take
<1>4. ASSUME NEW w \in Workers, Finish(w)
      PROVE  [Promise!Next]_Promise!vars
  <2>1. running[w] \in Tasks /\ running[w] # NoTask /\ running[w] \in Busy
    BY <1>4, PoolAssumption DEF Finish, IInv, TypeOK, Roles, Busy
  <2>2. /\ running'[w] = NoTask
        /\ \A v \in Workers : v # w => running'[v] = running[v] /\ running[v] # running[w]
    BY <1>4, <2>1 DEF Finish, IInv, TypeOK, OnePlace
  <2>3. Busy' = Busy \ {running[w]}
    BY <2>1, <2>2 DEF Busy
  <2>4. done' = done \cup {running[w]} /\ UNCHANGED <<queue, closer>>
    BY <1>4 DEF Finish
  <2>. QED  BY <2>1, <2>3, <2>4 DEF Promise!Next, Promise!Finish, Busy
<1>5. ASSUME Join
      PROVE  [Promise!Next]_Promise!vars
  <2>1. \A w \in Workers : pc[w] = "gone" /\ running[w] = NoTask
    BY <1>5 DEF Join, IInv, Roles
  <2>2. queue = <<>> /\ Busy = {}
    BY <2>1, PoolAssumption DEF IInv, Stages, Busy
  <2>. QED  BY <1>5, <2>2 DEF Join, Promise!Next, Promise!Close, Busy
<1>6. ASSUME Stop \/ NotifyAllEmpty \/ NotifyAllFull
      PROVE  UNCHANGED Promise!vars
  <2>1. UNCHANGED <<queue, running, done>> /\ closer # "closed" /\ closer' # "closed"
    BY <1>6 DEF Stop, NotifyAllEmpty, NotifyAllFull
  <2>. QED  BY <2>1
<1>7. ASSUME NEW x \in Threads, Pushed(x) \/ SpuriousWake(x) \/ Popped(x) \/ \E t \in Tasks : Call(x, t)
      PROVE  UNCHANGED Promise!vars
  BY <1>1, <1>7 DEF Pushed, SpuriousWake, Popped, Call
<1>8. CASE UNCHANGED vars
  BY <1>1, <1>8 DEF vars
<1>. QED
  BY <1>2, <1>3, <1>4, <1>5, <1>6, <1>7, <1>8 DEF Next, Ended, Threads

(* The pool keeps the safety half of the abstract promise: tasks start in   *)
(* the order submit() accepted them, each once, never more at a time than   *)
(* there are workers, and it closes only when all of them have returned.    *)
THEOREM KeepsSafePromise == Spec => Promise!Safe
<1>1. Init => Promise!Init
  BY DEF Init, Promise!Init
<1>. QED  BY <1>1, StepRefines, Inductive, PTL DEF Spec, Promise!Safe
=============================================================================
