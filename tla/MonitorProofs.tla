---------------------------- MODULE MonitorProofs ----------------------------
(***************************************************************************)
(* Theorems about Monitor, for any number of threads of the gateway, any   *)
(* backoffs, intervals and retention, and any number of faults.            *)
(***************************************************************************)
EXTENDS Monitor, FiniteSetTheorems, TLAPS

-----------------------------------------------------------------------------
(* The inductive invariant. *)

Tasks == [pc : {"poll", "append", "sweep", "sleep", "dead"}, slow : BOOLEAN,
          wake : Nat, ts : Nat, last_sample : Nat,
          health : {"none", "up", "down", "failed"}, totals : {"none", "read", "failed"}]

Contexts == [ctx : Nat, delay : 0 .. MaxDelay, next_try : Nat]

Shape ==
    /\ now \in 0 .. MaxTime /\ calm \in 0 .. now
    /\ redis \in [state : {"up", "loading", "down"}, life : Nat \ {0}]
    /\ gateway \in {"up", "down"}
    /\ conn \in [Threads -> Contexts]
    /\ late \in [Threads -> 0 .. 1]
    /\ sampler \in Tasks
    /\ rows \subseteq 0 .. now
    /\ swept \in Int /\ swept <= now

(* Who has a connection has no backoff, and a backoff begun while Redis was *)
(* down has passed MaxDelay after it came back.                             *)
Backoffs ==
    \A t \in Threads :
        /\ conn[t].ctx <= redis.life
        /\ conn[t].ctx # 0 => conn[t].delay = 0 /\ conn[t].next_try = 0
        /\ conn[t].next_try <= now + MaxDelay
        /\ redis.state # "down" => conn[t].next_try <= calm + MaxDelay

(* A thread that failed late has found its old connection out.              *)
FoundOut ==
    \A t \in Threads : redis.state = "up" /\ late[t] = 1 => conn[t].ctx \in {0, redis.life}

(* When the next sweep is looked at, and what the last one left.            *)
LastCheck == SweepInterval + Interval - 1
Extra == IF sampler.slow THEN 1 ELSE 0

OnTime ==
    /\ sampler.pc = "sleep" => now <= sampler.wake /\ sampler.wake <= now + Interval
    /\ sampler.pc = "sleep" => sampler.wake <= swept + LastCheck
    /\ sampler.pc \in {"poll", "append", "sweep"} =>
          now <= swept + LastCheck + Extra \/ (swept = Never /\ now <= calm + Extra)
    /\ sampler.pc = "append" => sampler.ts <= now /\ now <= sampler.ts + Extra

Kept == sampler.pc # "dead" => \A ts \in rows : swept - Retention <= ts

(* How far the sampler can be behind: each poll that failed since all       *)
(* backoffs have passed has found one thread out.                           *)
Found == {t \in Threads : late[t] = 1}
Lost == Cardinality(Found) * (Interval + 1)
Failed == sampler.health \in {"down", "failed"} \/ sampler.totals = "failed"

Stalled ==
    redis.state = "up" /\ gateway = "up" /\ now >= SteadySince /\ sampler.last_sample < SteadySince

Behind ==
    Stalled =>
        /\ sampler.pc = "sleep" => sampler.wake <= SteadySince + Lost + Interval
        /\ sampler.pc = "poll" /\ Failed => now <= SteadySince + Lost + Extra - 1
        /\ sampler.pc = "poll" /\ ~Failed => now <= SteadySince + Lost + Extra + Interval
        /\ sampler.pc = "append" /\ sampler.ts >= SteadySince => now <= SteadySince + Lost + Extra + Interval
        /\ sampler.pc = "sweep" => now <= SteadySince + Lost

IInv == Shape /\ Backoffs /\ FoundOut /\ OnTime /\ Kept /\ Behind

-----------------------------------------------------------------------------
USE MonitorAssumption

(* One read of one thread. *)
Still == UNCHANGED <<now, redis, calm>>

LEMMA GetKeeps ==
    ASSUME Shape, Backoffs, NEW t \in Threads
    PROVE  /\ Get(conn[t]) \in Contexts
           /\ Get(conn[t]).ctx \in {conn[t].ctx, redis.life}
           /\ Get(conn[t]).ctx # 0 => Get(conn[t]).delay = 0 /\ Get(conn[t]).next_try = 0
           /\ Get(conn[t]).next_try <= now + MaxDelay
           /\ redis.state # "down" => Get(conn[t]).next_try <= calm + MaxDelay
           /\ LongBack => Get(conn[t]).ctx # 0
<1> DEFINE c == conn[t]
<1>1. c \in Contexts /\ now \in Nat /\ MaxDelay \in Nat /\ calm \in Nat
  BY DEF Shape
<1>2. NextDelay(c.delay) \in 0 .. MaxDelay
  BY <1>1 DEF NextDelay, Contexts
<1>3. CASE c.ctx # 0
  <2>1. Get(c) = c
    BY <1>3 DEF Get
  <2> QED
    BY <1>1, <1>3, <2>1 DEF Backoffs
<1>4. CASE c.ctx = 0 /\ now < c.next_try
  <2>1. Get(c) = c
    <3>1. ~(now >= c.next_try)
      BY <1>1, <1>4 DEF Contexts
    <3> QED
      BY <1>4, <3>1 DEF Get
  <2>2. ~LongBack
    BY <1>1, <1>4 DEF LongBack, Backoffs, Shape, Contexts
  <2> QED
    BY <1>1, <1>4, <2>1, <2>2 DEF Backoffs
<1>5. CASE c.ctx = 0 /\ now >= c.next_try /\ redis.state # "down"
  <2>1. Get(c) = [Fresh EXCEPT !.ctx = redis.life]
    <3>1. ~(now < c.next_try)
      BY <1>1, <1>5 DEF Contexts
    <3> QED
      BY <1>5, <3>1 DEF Get
  <2>2. Get(c) = [ctx |-> redis.life, delay |-> 0, next_try |-> 0]
    BY <2>1 DEF Fresh
  <2> QED
    BY <1>1, <2>2 DEF Contexts, Shape
<1>6. CASE c.ctx = 0 /\ now >= c.next_try /\ redis.state = "down"
  <2>1. Get(c) = [c EXCEPT !.delay = NextDelay(c.delay), !.next_try = now + NextDelay(c.delay)]
    <3>1. ~(now < c.next_try)
      BY <1>1, <1>6 DEF Contexts
    <3> QED
      BY <1>6, <3>1 DEF Get
  <2>2. Get(c) = [ctx |-> 0, delay |-> NextDelay(c.delay), next_try |-> now + NextDelay(c.delay)]
    BY <1>1, <1>6, <2>1 DEF Contexts
  <2> QED
    BY <1>1, <1>2, <1>6, <2>2 DEF Contexts, LongBack
<1>7. c.ctx \in Nat /\ c.next_try \in Nat
  BY <1>1 DEF Contexts
<1> QED
  BY <1>1, <1>3, <1>4, <1>5, <1>6, <1>7

LEMMA ReadKeeps ==
    ASSUME Shape, Backoffs, FoundOut, Still, NEW t \in Threads, NEW answered \in BOOLEAN, Read(t, answered)
    PROVE  /\ conn' \in [Threads -> Contexts] /\ late' \in [Threads -> 0 .. 1]
           /\ Backoffs' /\ FoundOut'
           /\ IF LongBack /\ ~answered
              THEN late[t] = 0 /\ late' = [late EXCEPT ![t] = 1]
              ELSE late' = late
<1> DEFINE c == Get(conn[t])
<1>1. /\ c \in Contexts /\ c.ctx \in {conn[t].ctx, redis.life}
      /\ c.ctx # 0 => c.delay = 0 /\ c.next_try = 0
      /\ c.next_try <= now + MaxDelay
      /\ redis.state # "down" => c.next_try <= calm + MaxDelay
      /\ LongBack => c.ctx # 0
  BY GetKeeps
<1>2. /\ answered = Answers(c)
      /\ conn' = [conn EXCEPT ![t] = Used(c)]
      /\ late' = [late EXCEPT ![t] = @ + IF LongBack /\ ~answered THEN 1 ELSE 0]
  BY DEF Read
<1> HIDE DEF c
<1>3. /\ Used(c) = c \/ (c.ctx # 0 /\ ~Alive(c) /\ Used(c) = [ctx |-> 0, delay |-> c.delay, next_try |-> c.next_try])
      /\ Used(c) \in Contexts
      /\ Used(c).ctx = c.ctx \/ Used(c).ctx = 0
      /\ Used(c).delay = c.delay /\ Used(c).next_try = c.next_try
  BY <1>1 DEF Used, Contexts
<1>4. conn' \in [Threads -> Contexts] /\ conn'[t] = Used(c)
  BY <1>2, <1>3 DEF Shape
<1>5. Backoffs'
  <2> SUFFICES ASSUME NEW s \in Threads
               PROVE  /\ conn'[s].ctx <= redis.life
                      /\ conn'[s].ctx # 0 => conn'[s].delay = 0 /\ conn'[s].next_try = 0
                      /\ conn'[s].next_try <= now + MaxDelay
                      /\ redis.state # "down" => conn'[s].next_try <= calm + MaxDelay
    BY DEF Backoffs, Still
  <2>1. CASE s = t
    <3>1. conn[t].ctx <= redis.life /\ redis.life \in Nat
      BY DEF Backoffs, Shape
    <3> QED
      BY <1>1, <1>3, <1>4, <2>1, <3>1
  <2>2. CASE s # t
    <3>1. conn'[s] = conn[s]
      BY <1>2, <2>2 DEF Shape
    <3> QED
      BY <3>1 DEF Backoffs
  <2> QED
    BY <2>1, <2>2
<1>6. CASE LongBack /\ ~answered
  <2>1. redis.state = "up" /\ c.ctx # 0 /\ ~Alive(c)
    BY <1>1, <1>2, <1>6 DEF LongBack, Answers
  <2>2. c.ctx # redis.life /\ conn[t].ctx = c.ctx
    BY <1>1, <2>1 DEF Alive
  <2>3. late[t] = 0
    <3>1. late[t] # 1
      BY <2>1, <2>2 DEF FoundOut
    <3> QED
      BY <3>1 DEF Shape
  <2>4. late' = [late EXCEPT ![t] = 1]
    BY <1>2, <1>6, <2>3 DEF Shape
  <2>5. Used(c).ctx = 0
    BY <1>1, <2>1 DEF Used, Contexts
  <2>6. FoundOut'
    <3> SUFFICES ASSUME NEW s \in Threads, late'[s] = 1 PROVE conn'[s].ctx \in {0, redis.life}
      BY DEF FoundOut, Still
    <3>1. CASE s = t
      BY <1>4, <2>5, <3>1
    <3>2. CASE s # t
      BY <1>2, <2>1, <2>4, <3>2 DEF FoundOut, Shape
    <3> QED
      BY <3>1, <3>2
  <2>7. late' \in [Threads -> 0 .. 1]
    BY <2>4 DEF Shape
  <2> QED
    BY <1>4, <1>5, <1>6, <2>3, <2>4, <2>6, <2>7
<1>7. CASE ~(LongBack /\ ~answered)
  <2>1. late' = late
    <3>1. late[t] + 0 = late[t]
      BY DEF Shape
    <3> QED
      BY <1>2, <1>7, <3>1 DEF Shape
  <2>2. FoundOut'
    <3> SUFFICES ASSUME NEW s \in Threads, redis.state = "up", late[s] = 1 PROVE conn'[s].ctx \in {0, redis.life}
      BY <2>1 DEF FoundOut, Still
    <3>1. CASE s = t
      BY <1>1, <1>3, <1>4, <3>1 DEF FoundOut
    <3>2. CASE s # t
      BY <1>2, <3>2 DEF FoundOut, Shape
    <3> QED
      BY <3>1, <3>2
  <2> QED
    BY <1>4, <1>5, <1>7, <2>1, <2>2 DEF Shape
<1> QED
  BY <1>6, <1>7
-----------------------------------------------------------------------------
(* Connections, over every step. *)

LEMMA InitHolds == Init => IInv
<1> SUFFICES ASSUME Init PROVE IInv
  OBVIOUS
<1>1. Shape
  <2>1. Fresh \in Contexts
    BY DEF Fresh, Contexts
  <2>2. now \in 0 .. MaxTime /\ calm \in 0 .. now /\ swept \in Int /\ swept <= now
    BY DEF Init, Never
  <2>3. sampler \in Tasks
    BY DEF Init, Tasks
  <2> QED
    BY <2>1, <2>2, <2>3 DEF Init, Shape
<1>2. Backoffs
  BY DEF Init, Backoffs, Fresh
<1>3. FoundOut
  BY DEF Init, FoundOut
<1>4. OnTime /\ Kept
  BY DEF Init, OnTime, Kept, Extra
<1>5. Behind
  <2>1. ~Stalled
    BY DEF Init, Stalled, SteadySince
  <2> QED
    BY <2>1 DEF Behind
<1> QED
  BY <1>1, <1>2, <1>3, <1>4, <1>5 DEF IInv

(* A fault or a repair, as the clock sees it. *)
LEMMA FaultOrRepair ==
    ASSUME Shape, Fault \/ Repair
    PROVE  calm' = now
BY DEF Fault, Repair

LEMMA ShapeNext ==
    ASSUME Shape, Backoffs, FoundOut, OnTime, [Next]_vars
    PROVE  Shape'
<1> USE DEF Shape
<1>0. Fresh \in Contexts /\ now \in Nat /\ calm \in Nat
  BY DEF Fresh, Contexts
<1>1. ASSUME NEW call \in {"health", "totals"}, Unreachable(call) PROVE Shape'
  <2>1. sampler' \in Tasks
    BY <1>1 DEF Unreachable, Tasks
  <2> QED
    BY <1>1, <2>1 DEF Unreachable
<1>2. ASSUME NEW t \in Threads, CallHealth(t) PROVE Shape'
  <2>1. PICK up \in BOOLEAN : Read(t, up) /\ sampler' = [sampler EXCEPT !.health = IF up THEN "up" ELSE "down"]
    BY <1>2 DEF CallHealth
  <2>2. conn' \in [Threads -> Contexts] /\ late' \in [Threads -> 0 .. 1]
    BY <1>2, <2>1, ReadKeeps DEF CallHealth, Still
  <2>3. sampler' \in Tasks
    BY <2>1 DEF Tasks
  <2> QED
    BY <1>2, <2>2, <2>3 DEF CallHealth
<1>3. ASSUME NEW t \in Threads, CallTotals(t) PROVE Shape'
  <2>1. PICK read \in BOOLEAN : Read(t, read) /\ sampler' = [sampler EXCEPT !.totals = IF read THEN "read" ELSE "failed"]
    BY <1>3 DEF CallTotals
  <2>2. conn' \in [Threads -> Contexts] /\ late' \in [Threads -> 0 .. 1]
    BY <1>3, <2>1, ReadKeeps DEF CallTotals, Still
  <2>3. sampler' \in Tasks
    BY <2>1 DEF Tasks
  <2> QED
    BY <1>3, <2>2, <2>3 DEF CallTotals
<1>4. CASE Gathered
  <2>1. sampler' \in Tasks
    BY <1>0, <1>4 DEF Gathered, Tasks
  <2> QED
    BY <1>4, <2>1 DEF Gathered
<1>5. CASE AppendRow
  <2>1. sampler' \in Tasks /\ sampler.ts \in Nat
    BY <1>5 DEF AppendRow, Tasks
  <2>2. sampler.ts \in 0 .. now
    BY <1>0, <1>5, <2>1 DEF AppendRow, OnTime
  <2> QED
    BY <1>5, <2>1, <2>2 DEF AppendRow
<1>6. CASE AppendFails
  <2>1. sampler' \in Tasks
    BY <1>6 DEF AppendFails, Tasks
  <2> QED
    BY <1>0, <1>6, <2>1 DEF AppendFails, Fault
<1>17. CASE SweepFails
  <2>1. sampler' \in Tasks
    BY <1>17 DEF SweepFails, Tasks
  <2> QED
    BY <1>0, <1>17, <2>1 DEF SweepFails, Fault
<1>7. CASE Sweep
  <2>1. now + Interval \in Nat
    BY <1>0
  <2>2. sampler' \in Tasks
    BY <1>7, <2>1 DEF Sweep, Tasks
  <2> QED
    BY <1>0, <1>7, <2>2 DEF Sweep
<1>8. CASE Wake
  <2>1. sampler' \in Tasks
    BY <1>8 DEF Wake, Tasks
  <2> QED
    BY <1>8, <2>1 DEF Wake
<1>9. CASE Tick
  <2>1. sampler' \in Tasks
    BY <1>9 DEF Tick, Tasks
  <2>2. now' \in 0 .. MaxTime /\ now' = now + 1 /\ calm' = calm /\ swept' = swept /\ rows' = rows
    BY <1>9 DEF Tick
  <2>3. rows' \subseteq 0 .. now' /\ calm' \in 0 .. now' /\ swept' <= now'
    BY <2>2
  <2> QED
    BY <1>9, <2>1, <2>2, <2>3 DEF Tick
<1>10. CASE RedisDown
  <2>1. redis' \in [state : {"up", "loading", "down"}, life : Nat \ {0}]
    BY <1>10 DEF RedisDown
  <2> QED
    BY <1>0, <1>10, <2>1 DEF RedisDown, Fault
<1>11. CASE RedisStarts
  <2>1. redis' \in [state : {"up", "loading", "down"}, life : Nat \ {0}]
    <3>1. redis.life + 1 \in Nat \ {0}
      OBVIOUS
    <3> QED
      BY <1>11, <3>1 DEF RedisStarts
  <2> QED
    BY <1>0, <1>11, <2>1 DEF RedisStarts, Repair
<1>12. CASE RedisLoaded
  <2>1. redis' \in [state : {"up", "loading", "down"}, life : Nat \ {0}]
    BY <1>12 DEF RedisLoaded
  <2> QED
    BY <1>0, <1>12, <2>1 DEF RedisLoaded, Repair
<1>13. CASE GatewayDown
  BY <1>0, <1>13 DEF GatewayDown, Fault
<1>14. CASE GatewayUp
  BY <1>0, <1>14 DEF GatewayUp, Repair
<1>15. CASE BackendRestarts
  <2>1. sampler' \in Tasks /\ sampler.ts \in Nat
    BY <1>15 DEF BackendRestarts, Tasks
  <2>2. rows' \subseteq 0 .. now
    <3>1. CASE rows' = rows
      BY <3>1
    <3>2. CASE sampler.pc = "append" /\ rows' = rows \cup {sampler.ts}
      <4>1. sampler.ts \in 0 .. now
        BY <1>0, <2>1, <3>2 DEF OnTime
      <4> QED
        BY <3>2, <4>1
    <3> QED
      BY <1>15, <3>1, <3>2 DEF BackendRestarts
  <2>3. swept' \in Int /\ swept' <= now
    BY <1>0, <1>15 DEF BackendRestarts, Never
  <2> QED
    BY <1>0, <1>15, <2>1, <2>2, <2>3 DEF BackendRestarts, Fault
<1>16. CASE UNCHANGED vars
  BY <1>16 DEF vars
<1> QED
  BY <1>1, <1>2, <1>3, <1>4, <1>5, <1>6, <1>7, <1>8, <1>9, <1>10, <1>11, <1>12, <1>13, <1>14, <1>15, <1>16, <1>17 DEF Next

LEMMA ConnNext ==
    ASSUME Shape, Backoffs, FoundOut, [Next]_vars
    PROVE  Backoffs' /\ FoundOut'
<1>0. now \in Nat /\ calm \in Nat /\ calm <= now /\ MaxDelay \in Nat /\ redis.life \in Nat \ {0} /\ conn \in [Threads -> Contexts]
  BY DEF Shape
<1>1. CASE UNCHANGED <<now, redis, conn, late, calm>>
  BY <1>1 DEF Backoffs, FoundOut
<1>2. ASSUME NEW t \in Threads, CallHealth(t) PROVE Backoffs' /\ FoundOut'
  BY <1>2, ReadKeeps DEF CallHealth, Still
<1>3. ASSUME NEW t \in Threads, CallTotals(t) PROVE Backoffs' /\ FoundOut'
  BY <1>3, ReadKeeps DEF CallTotals, Still
<1>4. CASE Tick
  <2>1. now' = now + 1 /\ UNCHANGED <<redis, conn, late, calm>>
    BY <1>4 DEF Tick
  <2> QED
    BY <1>0, <2>1 DEF Backoffs, FoundOut, Contexts
<1>5. CASE calm' = now /\ UNCHANGED <<now, redis, conn, late>>
  BY <1>0, <1>5 DEF Backoffs, FoundOut, Contexts
<1>6. CASE RedisDown
  <2>1. redis' = [redis EXCEPT !.state = "down"] /\ UNCHANGED <<now, conn, late>>
    BY <1>6 DEF RedisDown
  <2>2. redis'.state = "down" /\ redis'.life = redis.life
    BY <2>1 DEF Shape
  <2> QED
    BY <2>1, <2>2 DEF Backoffs, FoundOut
<1>7. CASE RedisStarts
  <2>1. redis' = [redis EXCEPT !.state = "loading", !.life = @ + 1] /\ calm' = now /\ UNCHANGED <<now, conn, late>>
    BY <1>7 DEF RedisStarts, Repair
  <2>2. redis'.state = "loading" /\ redis'.life = redis.life + 1
    BY <2>1 DEF Shape
  <2> QED
    BY <1>0, <2>1, <2>2 DEF Backoffs, FoundOut, Contexts
<1>8. CASE RedisLoaded
  <2>1. redis' = [redis EXCEPT !.state = "up"] /\ calm' = now /\ late' = [t \in Threads |-> 0] /\ UNCHANGED <<now, conn>>
    BY <1>8 DEF RedisLoaded, Repair
  <2>2. redis'.life = redis.life
    BY <2>1 DEF Shape
  <2> QED
    BY <1>0, <2>1, <2>2 DEF Backoffs, FoundOut, Contexts
<1>9. CASE GatewayUp
  <2>1. conn' = [t \in Threads |-> Fresh] /\ calm' = now /\ UNCHANGED <<now, redis, late>>
    BY <1>9 DEF GatewayUp, Repair
  <2> QED
    BY <1>0, <2>1 DEF Backoffs, FoundOut, Fresh
<1>10. CASE AppendFails \/ SweepFails \/ GatewayDown \/ BackendRestarts
  BY <1>5, <1>10 DEF AppendFails, SweepFails, GatewayDown, BackendRestarts, Fault
<1>11. CASE (\E call \in {"health", "totals"} : Unreachable(call)) \/ Gathered \/ AppendRow \/ Sweep \/ Wake
  BY <1>1, <1>11 DEF Unreachable, Gathered, AppendRow, Sweep, Wake
<1>12. CASE UNCHANGED vars
  BY <1>1, <1>12 DEF vars
<1> QED
  BY <1>2, <1>3, <1>4, <1>6, <1>7, <1>8, <1>9, <1>10, <1>11, <1>12 DEF Next
-----------------------------------------------------------------------------
(* Sweeps. *)

Place == <<sampler.pc, sampler.slow, sampler.wake, sampler.ts>>

LEMMA TimeNext ==
    ASSUME Shape, OnTime, Kept, [Next]_vars
    PROVE  OnTime' /\ Kept'
<1>0. /\ now \in Nat /\ calm \in Nat /\ calm <= now /\ swept \in Int /\ swept <= now
      /\ sampler \in Tasks /\ sampler.wake \in Nat /\ sampler.ts \in Nat
      /\ Interval \in Nat \ {0} /\ SweepInterval \in Nat \ {0} /\ Retention \in Nat \ {0}
      /\ LastCheck \in Nat /\ Never \in Int /\ Extra \in 0 .. 1
  BY DEF Shape, Tasks, LastCheck, Never, Extra
<1>1. CASE UNCHANGED <<now, swept, rows>> /\ UNCHANGED Place /\ calm' \in {calm, now}
  <2>1. /\ sampler'.pc = sampler.pc /\ sampler'.slow = sampler.slow
        /\ sampler'.wake = sampler.wake /\ sampler'.ts = sampler.ts
        /\ now' = now /\ swept' = swept /\ rows' = rows
    BY <1>1 DEF Place
  <2>2. Extra' = Extra
    BY <2>1 DEF Extra
  <2>3. Kept'
    BY <2>1 DEF Kept
  <2>4. CASE calm' = calm
    BY <2>1, <2>2, <2>3, <2>4 DEF OnTime
  <2>5. CASE calm' = now
    <3>1. now <= calm' + Extra
      BY <1>0, <2>5
    <3>2. now <= swept + LastCheck + Extra \/ (swept = Never /\ now <= calm + Extra) =>
              now <= swept + LastCheck + Extra \/ (swept = Never /\ now <= calm' + Extra)
      BY <3>1
    <3> QED
      BY <2>1, <2>2, <2>3, <3>2 DEF OnTime
  <2> QED
    BY <1>1, <2>4, <2>5
<1>2. ASSUME NEW call \in {"health", "totals"}, Unreachable(call) PROVE OnTime' /\ Kept'
  <2>1. UNCHANGED Place
    BY <1>0, <1>2 DEF Unreachable, Place, Tasks
  <2> QED
    BY <1>1, <1>2, <2>1 DEF Unreachable
<1>3. ASSUME NEW t \in Threads, CallHealth(t) \/ CallTotals(t) PROVE OnTime' /\ Kept'
  <2>1. UNCHANGED Place
    BY <1>0, <1>3 DEF CallHealth, CallTotals, Place, Tasks
  <2> QED
    BY <1>1, <1>3, <2>1 DEF CallHealth, CallTotals
<1>4. CASE Gathered
  <2>1. UNCHANGED <<now, swept, rows, calm>> /\ sampler.pc = "poll"
    BY <1>4 DEF Gathered
  <2>2. /\ sampler'.slow = sampler.slow /\ sampler'.pc \in {"append", "sweep"}
        /\ sampler'.pc = "append" => sampler'.ts = now
    BY <1>0, <1>4 DEF Gathered, Tasks
  <2> QED
    BY <1>0, <2>1, <2>2 DEF OnTime, Kept, Extra
<1>5. CASE AppendRow
  <2>1. UNCHANGED <<now, swept, calm>> /\ sampler.pc = "append" /\ rows' = rows \cup {sampler.ts}
    BY <1>5 DEF AppendRow
  <2>2. sampler'.pc = "sweep" /\ sampler'.slow = sampler.slow
    BY <1>0, <1>5 DEF AppendRow, Tasks
  <2>3. swept - Retention <= sampler.ts
    BY <1>0, <2>1 DEF OnTime
  <2> QED
    BY <1>0, <2>1, <2>2, <2>3 DEF OnTime, Kept, Extra
<1>6. CASE AppendFails
  <2>1. sampler'.pc = "dead" /\ UNCHANGED <<swept, rows>>
    BY <1>0, <1>6 DEF AppendFails, Tasks
  <2> QED
    BY <2>1 DEF OnTime, Kept
<1>13. CASE SweepFails
  <2>1. sampler'.pc = "dead"
    BY <1>0, <1>13 DEF SweepFails, Tasks
  <2> QED
    BY <2>1 DEF OnTime, Kept
<1>7. CASE Sweep
  <2>1. UNCHANGED <<now, calm>> /\ sampler.pc = "sweep"
    BY <1>7 DEF Sweep
  <2>2. sampler'.pc = "sleep" /\ sampler'.wake = now + Interval
    BY <1>0, <1>7 DEF Sweep, Tasks
  <2>3. CASE Due
    <3>1. swept' = now /\ rows' = {ts \in rows : ts >= now - Retention}
      BY <1>7, <2>3 DEF Sweep, Cutoff
    <3>2. Kept'
      BY <1>0, <3>1 DEF Kept, Shape
    <3> QED
      BY <1>0, <2>1, <2>2, <3>1, <3>2 DEF OnTime, LastCheck
  <2>4. CASE ~Due
    <3>1. UNCHANGED <<swept, rows>> /\ now - swept < SweepInterval
      BY <1>0, <1>7, <2>4 DEF Sweep, Due
    <3> QED
      BY <1>0, <2>1, <2>2, <3>1 DEF OnTime, Kept, LastCheck
  <2> QED
    BY <2>3, <2>4
<1>8. CASE Wake
  <2>1. UNCHANGED <<now, swept, rows, calm>> /\ sampler.pc = "sleep"
    BY <1>8 DEF Wake
  <2>2. sampler'.pc = "poll" /\ sampler'.slow = FALSE
    BY <1>0, <1>8 DEF Wake, Tasks
  <2> QED
    BY <1>0, <2>1, <2>2 DEF OnTime, Kept, Extra
<1>9. CASE Tick
  <2>1. now' = now + 1 /\ UNCHANGED <<swept, rows, calm>>
    BY <1>9 DEF Tick
  <2>2. CASE sampler.pc = "sleep" /\ now < sampler.wake /\ UNCHANGED sampler
    BY <1>0, <2>1, <2>2 DEF OnTime, Kept
  <2>3. CASE sampler.pc = "dead" /\ UNCHANGED sampler
    BY <1>0, <2>1, <2>3 DEF OnTime, Kept
  <2>4. CASE sampler.pc \in {"poll", "append"} /\ ~sampler.slow /\ sampler' = [sampler EXCEPT !.slow = TRUE]
    <3>1. sampler'.pc = sampler.pc /\ sampler'.slow = TRUE /\ sampler'.ts = sampler.ts
      BY <1>0, <2>4 DEF Tasks
    <3>2. Extra = 0 /\ Extra' = 1
      BY <2>4, <3>1 DEF Extra
    <3> QED
      BY <1>0, <2>1, <2>4, <3>1, <3>2 DEF OnTime, Kept
  <2> QED
    BY <1>9, <2>2, <2>3, <2>4 DEF Tick
<1>10. CASE BackendRestarts
  <2>1. sampler'.pc = "poll" /\ sampler'.slow = FALSE /\ calm' = now /\ now' = now /\ swept' = Never
    BY <1>0, <1>10 DEF BackendRestarts, Fault, Tasks
  <2>2. \A ts \in rows' : ts \in Nat
    BY <1>0, <1>10 DEF BackendRestarts, Shape
  <2> QED
    BY <1>0, <2>1, <2>2 DEF OnTime, Kept, Extra, Never
<1>11. CASE RedisDown \/ RedisStarts \/ RedisLoaded \/ GatewayDown \/ GatewayUp
  BY <1>1, <1>11 DEF RedisDown, RedisStarts, RedisLoaded, GatewayDown, GatewayUp, Fault, Repair, Place
<1>12. CASE UNCHANGED vars
  BY <1>1, <1>12 DEF vars, Place
<1> QED
  BY <1>2, <1>3, <1>4, <1>5, <1>6, <1>7, <1>8, <1>9, <1>10, <1>11, <1>12, <1>13 DEF Next
-----------------------------------------------------------------------------
(* How long the sampler may be without a row. *)

LEMMA LostBounds ==
    ASSUME Shape
    PROVE  /\ Lost \in Nat
           /\ Lost + Interval + 1 <= (Cardinality(Threads) + 1) * (Interval + 1)
<1>1. Found \subseteq Threads
  BY DEF Found
<1>2. /\ Cardinality(Found) \in Nat /\ Cardinality(Threads) \in Nat
      /\ Cardinality(Found) <= Cardinality(Threads)
  BY <1>1, FS_Subset, FS_CardinalityType
<1>3. ASSUME NEW k \in Nat, NEW n \in Nat, k <= n, NEW w \in Nat
      PROVE  k * w \in Nat /\ k * w + w <= (n + 1) * w
  <2>1. (n + 1) * w = n * w + w /\ n * w = k * w + (n - k) * w /\ k * w \in Nat
    BY <1>3
  <2>2. (n - k) * w >= 0
    BY <1>3
  <2> QED
    BY <2>1, <2>2
<1>4. Interval + 1 \in Nat
  OBVIOUS
<1> QED
  BY <1>2, <1>3, <1>4 DEF Lost

LEMMA LostGrows ==
    ASSUME Shape, NEW t \in Threads, late[t] = 0, late' = [late EXCEPT ![t] = 1]
    PROVE  Lost' = Lost + Interval + 1
<1>1. Found' = Found \cup {t} /\ t \notin Found
  BY DEF Found, Shape
<1>2. IsFiniteSet(Found) /\ Cardinality(Found) \in Nat
  <2>1. Found \subseteq Threads
    BY DEF Found
  <2> QED
    BY <2>1, FS_Subset, FS_CardinalityType
<1>3. Cardinality(Found') = Cardinality(Found) + 1
  BY <1>1, <1>2, FS_AddElement
<1>4. \A k \in Nat, w \in Nat : (k + 1) * w = k * w + w
  OBVIOUS
<1>5. Lost' = Cardinality(Found') * (Interval + 1) /\ Interval + 1 \in Nat
  BY DEF Lost
<1>6. Lost' = Cardinality(Found) * (Interval + 1) + (Interval + 1)
  BY <1>2, <1>3, <1>4, <1>5
<1>7. Lost \in Nat
  BY LostBounds
<1> QED
  BY <1>6, <1>7 DEF Lost

LEMMA BehindNext ==
    ASSUME Shape, Shape', Backoffs, FoundOut, OnTime, Behind, [Next]_vars
    PROVE  Behind'
<1> SUFFICES ASSUME Stalled' PROVE Behind'
  BY DEF Behind
<1> DEFINE S == SteadySince
<1>0. /\ now \in Nat /\ calm \in Nat /\ S \in Nat /\ S = calm + MaxDelay /\ MaxDelay \in Nat \ {0}
      /\ sampler \in Tasks /\ sampler.ts \in Nat /\ sampler.wake \in Nat
      /\ Lost \in Nat /\ Interval \in Nat \ {0} /\ Extra \in 0 .. 1
  BY LostBounds DEF Shape, Tasks, SteadySince, Extra
<1>00. /\ redis'.state = "up" /\ gateway' = "up" /\ now' >= calm' + MaxDelay
       /\ sampler'.last_sample < calm' + MaxDelay
  BY DEF Stalled, SteadySince
<1>1. calm' # now'
  <2>1. calm' \in Nat
    BY DEF Shape
  <2> QED
    BY <1>0, <1>00, <2>1
<1>2. ~(AppendFails \/ SweepFails \/ RedisDown \/ RedisStarts \/ RedisLoaded \/ GatewayDown \/ GatewayUp \/ BackendRestarts)
  BY <1>1 DEF AppendFails, SweepFails, RedisDown, RedisStarts, RedisLoaded, GatewayDown, GatewayUp, BackendRestarts, Fault, Repair
<1>3. ASSUME NEW call \in {"health", "totals"}, Unreachable(call) PROVE FALSE
  BY <1>3, <1>00 DEF Unreachable
<1>4. ASSUME NEW t \in Threads, NEW read \in BOOLEAN, Read(t, read), Still, UNCHANGED gateway,
             sampler.pc = "poll", sampler'.pc = "poll", sampler'.slow = sampler.slow,
             sampler'.last_sample = sampler.last_sample,
             read => (Failed' <=> Failed), ~read => Failed'
      PROVE  Behind'
  <2>1. Stalled /\ LongBack /\ S' = S /\ Extra' = Extra /\ now' = now
    BY <1>4, <1>00 DEF Stalled, LongBack, SteadySince, Still, Extra
  <2>2. CASE read
    <3>1. Lost' = Lost
      BY <1>4, <2>1, <2>2, ReadKeeps DEF Lost, Found
    <3> QED
      BY <1>4, <2>1, <2>2, <3>1 DEF Behind
  <2>3. CASE ~read
    <3>1. Lost' = Lost + Interval + 1
      BY <1>4, <2>1, <2>3, ReadKeeps, LostGrows
    <3>2. now <= S + Lost + Extra + Interval
      BY <1>0, <1>4, <2>1 DEF Behind
    <3>3. now' <= S' + Lost' + Extra' - 1
      BY <1>0, <2>1, <3>1, <3>2
    <3> QED
      BY <1>4, <2>3, <3>3 DEF Behind
  <2> QED
    BY <2>2, <2>3
<1>5. ASSUME NEW t \in Threads, CallHealth(t) PROVE Behind'
  <2>1. PICK up \in BOOLEAN : Read(t, up) /\ sampler' = [sampler EXCEPT !.health = IF up THEN "up" ELSE "down"]
    BY <1>5 DEF CallHealth
  <2>2. /\ sampler'.pc = sampler.pc /\ sampler'.slow = sampler.slow
        /\ sampler'.last_sample = sampler.last_sample /\ sampler'.totals = sampler.totals
        /\ sampler'.health = IF up THEN "up" ELSE "down"
    BY <1>0, <2>1 DEF Tasks
  <2>3. sampler.pc = "poll" /\ sampler.health = "none" /\ Still /\ UNCHANGED gateway
    BY <1>5 DEF CallHealth, InPoll, Still
  <2>4. (up => (Failed' <=> Failed)) /\ (~up => Failed')
    BY <2>2, <2>3 DEF Failed
  <2> QED
    BY <1>4, <2>1, <2>2, <2>3, <2>4
<1>6. ASSUME NEW t \in Threads, CallTotals(t) PROVE Behind'
  <2>1. PICK read \in BOOLEAN : Read(t, read) /\ sampler' = [sampler EXCEPT !.totals = IF read THEN "read" ELSE "failed"]
    BY <1>6 DEF CallTotals
  <2>2. /\ sampler'.pc = sampler.pc /\ sampler'.slow = sampler.slow
        /\ sampler'.last_sample = sampler.last_sample /\ sampler'.health = sampler.health
        /\ sampler'.totals = IF read THEN "read" ELSE "failed"
    BY <1>0, <2>1 DEF Tasks
  <2>3. sampler.pc = "poll" /\ sampler.totals = "none" /\ Still /\ UNCHANGED gateway
    BY <1>6 DEF CallTotals, InPoll, Still
  <2>4. (read => (Failed' <=> Failed)) /\ (~read => Failed')
    BY <2>2, <2>3 DEF Failed
  <2> QED
    BY <1>4, <2>1, <2>2, <2>3, <2>4
<1>7. ASSUME UNCHANGED <<now, redis, gateway, calm, late>> PROVE S' = S /\ Lost' = Lost /\ now' = now
  BY <1>7 DEF SteadySince, Lost, Found
<1>8. CASE Gathered
  <2>1. S' = S /\ Lost' = Lost /\ now' = now /\ sampler.pc = "poll"
    BY <1>7, <1>8 DEF Gathered
  <2>2. /\ sampler'.last_sample = sampler.last_sample /\ sampler'.slow = sampler.slow
        /\ \/ sampler'.pc = "append" /\ ~Failed /\ sampler'.ts = now
           \/ sampler'.pc = "sweep" /\ Failed
    BY <1>0, <1>8 DEF Gathered, Failed, Tasks
  <2>3. Stalled /\ Extra' = Extra
    BY <1>8, <1>00, <2>2 DEF Gathered, Stalled, SteadySince, Extra
  <2> QED
    BY <1>0, <2>1, <2>2, <2>3 DEF Behind
<1>9. CASE AppendRow
  <2>1. S' = S /\ Lost' = Lost /\ now' = now /\ sampler.pc = "append"
    BY <1>7, <1>9 DEF AppendRow
  <2>2. sampler'.pc = "sweep" /\ sampler'.last_sample = sampler.ts
    BY <1>0, <1>9 DEF AppendRow, Tasks
  <2>3. sampler.ts < S /\ now <= sampler.ts + Extra
    BY <1>00, <2>1, <2>2 DEF OnTime, SteadySince
  <2>4. now' <= S' + Lost'
    BY <1>0, <2>1, <2>3
  <2> QED
    BY <2>2, <2>4 DEF Behind
<1>10. CASE Sweep
  <2>1. S' = S /\ Lost' = Lost /\ now' = now /\ sampler.pc = "sweep"
    BY <1>7, <1>10 DEF Sweep
  <2>2. sampler'.pc = "sleep" /\ sampler'.wake = now + Interval /\ sampler'.last_sample = sampler.last_sample
    BY <1>0, <1>10 DEF Sweep, Tasks
  <2>3. Stalled
    BY <1>10, <1>00, <2>2 DEF Sweep, Stalled, SteadySince
  <2> QED
    BY <1>0, <2>1, <2>2, <2>3 DEF Behind
<1>11. CASE Wake
  <2>1. S' = S /\ Lost' = Lost /\ now' = now /\ sampler.pc = "sleep"
    BY <1>7, <1>11 DEF Wake
  <2>2. /\ sampler'.pc = "poll" /\ sampler'.slow = FALSE /\ sampler'.last_sample = sampler.last_sample
        /\ sampler'.health = "none" /\ sampler'.totals = "none"
    BY <1>0, <1>11 DEF Wake, Tasks
  <2>3. Stalled /\ ~Failed' /\ Extra' = 0
    BY <1>11, <1>00, <2>2 DEF Wake, Stalled, SteadySince, Failed, Extra
  <2> QED
    BY <1>0, <2>1, <2>2, <2>3 DEF Behind, OnTime
<1>12. CASE Tick
  <2>1. S' = S /\ Lost' = Lost /\ now' = now + 1
    BY <1>12 DEF Tick, SteadySince, Lost, Found
  <2>2. UNCHANGED <<redis, gateway, calm>>
    BY <1>12 DEF Tick
  <2>3. CASE UNCHANGED sampler /\ sampler.pc \in {"sleep", "dead"}
    <3>1. CASE Stalled
      BY <2>1, <2>3, <3>1 DEF Behind
    <3>2. CASE ~Stalled
      <4>1. now + 1 = S
        BY <1>0, <1>00, <2>1, <2>2, <2>3, <3>2 DEF Stalled, SteadySince
      <4> QED
        BY <1>0, <2>1, <2>3, <4>1 DEF Behind, OnTime
    <3> QED
      BY <3>1, <3>2
  <2>4. CASE sampler.pc \in {"poll", "append"} /\ ~sampler.slow /\ sampler' = [sampler EXCEPT !.slow = TRUE]
    <3>1. /\ sampler'.pc = sampler.pc /\ sampler'.slow = TRUE /\ sampler'.ts = sampler.ts
          /\ sampler'.last_sample = sampler.last_sample
          /\ sampler'.health = sampler.health /\ sampler'.totals = sampler.totals
      BY <1>0, <2>4 DEF Tasks
    <3>2. Extra = 0 /\ Extra' = 1 /\ (Failed' <=> Failed)
      BY <2>4, <3>1 DEF Extra, Failed
    <3>3. CASE Stalled
      BY <1>0, <2>1, <2>4, <3>1, <3>2, <3>3 DEF Behind
    <3>4. CASE ~Stalled
      <4>1. now + 1 = S
        BY <1>0, <1>00, <2>1, <2>2, <3>1, <3>4 DEF Stalled, SteadySince
      <4> QED
        BY <1>0, <2>1, <2>4, <3>1, <3>2, <4>1 DEF Behind
    <3> QED
      BY <3>3, <3>4
  <2> QED
    BY <1>12, <2>3, <2>4 DEF Tick
<1>13. CASE UNCHANGED vars
  <2>1. UNCHANGED <<now, redis, gateway, calm, late, sampler>>
    BY <1>13 DEF vars
  <2>2. Stalled /\ Extra' = Extra /\ (Failed' <=> Failed)
    BY <2>1 DEF Stalled, SteadySince, Extra, Failed
  <2> QED
    BY <1>7, <2>1, <2>2 DEF Behind
<1> QED
  BY <1>2, <1>3, <1>5, <1>6, <1>8, <1>9, <1>10, <1>11, <1>12, <1>13 DEF Next

LEMMA InvNext == IInv /\ [Next]_vars => IInv'
BY ShapeNext, ConnNext, TimeNext, BehindNext DEF IInv

LEMMA InvAlways == Spec => []IInv
BY InitHolds, InvNext, PTL DEF Spec

-----------------------------------------------------------------------------
(* Every state of the sampler and the gateway's threads is well formed: in  *)
(* particular RedisConn::get() leaves no backoff behind a connection it has *)
(* made, and no row is of the future.                                       *)
THEOREM MonitorTypeCorrect == Spec => []TypeOK
<1>1. IInv => TypeOK
  <2> SUFFICES ASSUME IInv PROVE TypeOK
    OBVIOUS
  <2>1. \A t \in Threads : conn[t] \in Contexts /\ conn[t].ctx <= redis.life /\ redis.life \in Nat
    BY DEF IInv, Shape, Backoffs
  <2>2. sampler.pc \in {"poll", "append", "sweep", "sleep", "dead"}
    BY DEF IInv, Shape, Tasks
  <2> QED
    BY <2>1, <2>2 DEF IInv, Shape, Backoffs, Contexts, TypeOK
<1> QED
  BY <1>1, InvAlways, PTL

(* However many outages Redis and the gateway have: once Redis is back for  *)
(* as long as the longest backoff, a thread of RedisQuery fails at most one *)
(* read more, until the next outage.                                        *)
THEOREM FailsLateOnce == Spec => []OneLateFailure
<1>1. IInv => OneLateFailure
  BY DEF IInv, Shape, OneLateFailure
<1> QED
  BY <1>1, InvAlways, PTL

(* Sampler._poll goes on in time after any outage: at the latest when each  *)
(* of the gateway's threads has cost it a poll, and one poll more.          *)
THEOREM HistoryGoesOn == Spec => []RecoversInTime
<1>1. IInv => RecoversInTime
  <2> SUFFICES ASSUME IInv, redis.state = "up", gateway = "up", sampler.pc # "dead",
                      now > SteadySince + (Cardinality(Threads) + 1) * (Interval + 1),
                      ~(sampler.last_sample >= SteadySince)
               PROVE  FALSE
    BY DEF RecoversInTime
  <2> DEFINE longest == (Cardinality(Threads) + 1) * (Interval + 1)
  <2>1. /\ now \in Nat /\ SteadySince \in Nat /\ Lost \in Nat /\ Interval \in Nat /\ longest \in Nat
        /\ Lost + Interval + 1 <= longest /\ sampler.wake \in Nat /\ sampler.last_sample \in Nat
        /\ sampler.ts \in Nat /\ Extra \in 0 .. 1
        /\ sampler.pc \in {"poll", "append", "sweep", "sleep"}
    <3>1. Cardinality(Threads) \in Nat
      BY FS_CardinalityType
    <3>2. longest \in Nat
      BY <3>1
    <3> QED
      BY <3>2, LostBounds DEF IInv, Shape, Tasks, SteadySince, Extra
  <2> HIDE DEF longest
  <2>2. now > SteadySince + longest
    BY DEF longest
  <2>3. Stalled
    BY <2>1, <2>2 DEF Stalled
  <2>4. now <= SteadySince + Lost + Interval + 1
    <3>1. sampler.pc = "append" => now <= sampler.ts + Extra
      BY DEF IInv, OnTime
    <3>2. sampler.pc = "sleep" => now <= sampler.wake
      BY DEF IInv, OnTime
    <3> QED
      BY <2>1, <2>3, <3>1, <3>2 DEF IInv, Behind
  <2> QED
    BY <2>1, <2>2, <2>4
<1> QED
  BY <1>1, InvAlways, PTL

(* Sampler._sweep removes no row within retention, and leaves none that     *)
(* outlived it by more than the sweeps are apart, whatever is restarted.    *)
THEOREM SweepsOnTime == Spec => SweptOnTime
<1>1. Shape /\ [Next]_vars => [\A ts \in rows \ rows' : now - ts > Retention]_vars
  <2> SUFFICES ASSUME Shape, Next, NEW ts \in rows \ rows' PROVE now - ts > Retention
    OBVIOUS
  <2>1. Sweep
    BY DEF Next, Unreachable, CallHealth, CallTotals, Gathered, AppendRow, AppendFails, SweepFails, Wake, Tick,
           RedisDown, RedisStarts, RedisLoaded, GatewayDown, GatewayUp, BackendRestarts
  <2>2. ~(ts >= now - Retention)
    BY <2>1 DEF Sweep, Cutoff
  <2>3. ts \in Nat /\ now \in Nat
    BY DEF Shape
  <2> QED
    BY <2>2, <2>3
<1>2. IInv => (sampler.pc # "dead" /\ now > calm + 1 =>
                 \A ts \in rows : now - ts < Retention + SweepInterval + Interval + 1)
  <2> SUFFICES ASSUME IInv, sampler.pc # "dead", now > calm + 1, NEW ts \in rows
               PROVE  now - ts < Retention + SweepInterval + Interval + 1
    OBVIOUS
  <2>1. /\ now \in Nat /\ calm \in Nat /\ swept \in Int /\ ts \in Nat /\ Extra \in 0 .. 1
        /\ sampler.wake \in Nat /\ sampler.pc \in {"poll", "append", "sweep", "sleep"}
    BY DEF IInv, Shape, Tasks, Extra
  <2>2. swept - Retention <= ts
    BY DEF IInv, Kept
  <2>3. now <= swept + SweepInterval + Interval
    BY <2>1 DEF IInv, OnTime, LastCheck
  <2> QED
    BY <2>1, <2>2, <2>3
<1>3. IInv => Shape
  BY DEF IInv
<1> QED
  BY <1>1, <1>2, <1>3, InvAlways, PTL DEF Spec, SweptOnTime

-----------------------------------------------------------------------------
(* A series is read in the order of its timestamps. *)

Ahead(S, m) == {x \in S : x < m}
RankOf(S, m) == Cardinality(Ahead(S, m))

(* The rank of a timestamp says how many come first: no two share one.     *)
LEMMA RanksDiffer ==
    ASSUME NEW S, IsFiniteSet(S), S \subseteq Int, NEW m \in S
    PROVE  /\ RankOf(S, m) \in 0 .. Cardinality(S) - 1
           /\ \A k \in S : m < k => RankOf(S, m) < RankOf(S, k)
           /\ \A k \in S : RankOf(S, m) = RankOf(S, k) => m = k
<1>1. Cardinality(S) \in Nat
  BY FS_CardinalityType
<1>2. ASSUME NEW k \in S PROVE IsFiniteSet(Ahead(S, k)) /\ RankOf(S, k) \in Nat
  <2>1. Ahead(S, k) \subseteq S
    BY DEF Ahead
  <2>2. IsFiniteSet(Ahead(S, k))
    BY <2>1, FS_Subset
  <2> QED
    BY <2>2, FS_CardinalityType DEF RankOf
<1>3. RankOf(S, m) \in 0 .. Cardinality(S) - 1
  <2>1. PICK T : T = S \ {m}
    OBVIOUS
  <2>2. IsFiniteSet(T) /\ Cardinality(T) = Cardinality(S) - 1
    BY <2>1, FS_RemoveElement
  <2>3. Ahead(S, m) \in SUBSET T
    BY <2>1 DEF Ahead
  <2>4. Cardinality(Ahead(S, m)) <= Cardinality(T)
    BY <2>2, <2>3, FS_Subset
  <2> QED
    BY <1>1, <1>2, <2>2, <2>4 DEF RankOf
<1>4. ASSUME NEW i \in S, NEW k \in S, i < k PROVE RankOf(S, i) < RankOf(S, k)
  <2>1. PICK T : T = Ahead(S, i) \cup {i}
    OBVIOUS
  <2>2. i \notin Ahead(S, i)
    BY DEF Ahead
  <2>3. Cardinality(T) = RankOf(S, i) + 1
    BY <1>2, <2>1, <2>2, FS_AddElement DEF RankOf
  <2>4. T \in SUBSET Ahead(S, k)
    <3>1. i \in Int /\ k \in Int /\ \A x \in S : x \in Int
      OBVIOUS
    <3>2. \A x \in S : x < i => x < k
      BY <1>4, <3>1
    <3> QED
      BY <1>4, <2>1, <3>2 DEF Ahead
  <2>5. Cardinality(T) <= RankOf(S, k)
    BY <1>2, <2>4, FS_Subset DEF RankOf
  <2> QED
    BY <1>2, <2>3, <2>5
<1>5. ASSUME NEW k \in S, RankOf(S, m) = RankOf(S, k) PROVE m = k
  <2>1. m < k \/ k < m \/ m = k
    OBVIOUS
  <2>2. m < k => RankOf(S, m) < RankOf(S, k)
    BY <1>4
  <2>3. k < m => RankOf(S, k) < RankOf(S, m)
    BY <1>4
  <2> QED
    BY <1>2, <1>5, <2>1, <2>2, <2>3
<1> QED
  BY <1>3, <1>4, <1>5

Ascends(all, S) ==
    /\ all \in Seq(S) /\ Len(all) = Cardinality(S)
    /\ \A x \in S : \E i \in 1 .. Len(all) : all[i] = x
    /\ \A i, k \in 1 .. Len(all) : i < k => all[i] < all[k]

LEMMA InOrderAscends ==
    ASSUME NEW S, IsFiniteSet(S), S \subseteq Int
    PROVE  Ascends(InOrder(S), S)
<1>1. PICK n : n = Cardinality(S)
  OBVIOUS
<1>2. n \in Nat
  BY <1>1, FS_CardinalityType
<1>3. PICK place, T : place = [m \in S |-> RankOf(S, m)] /\ T = 0 .. n - 1
  OBVIOUS
<1>4. IsFiniteSet(T) /\ Cardinality(T) = n
  <2>1. 0 \in Int /\ n - 1 \in Int
    BY <1>2
  <2>2. IsFiniteSet(0 .. n - 1) /\ Cardinality(0 .. n - 1) = IF 0 > n - 1 THEN 0 ELSE n - 1 - 0 + 1
    BY <2>1, FS_Interval
  <2> QED
    BY <1>2, <1>3, <2>2
<1>5. place \in Injection(S, T)
  <2>1. \A m \in S : RankOf(S, m) \in T
    BY <1>1, <1>3, RanksDiffer
  <2>2. \A m, k \in S : place[m] = place[k] => m = k
    BY <1>3, RanksDiffer
  <2> QED
    BY <1>3, <2>1, <2>2 DEF Injection, IsInjective
<1>6. place \in Surjection(S, T)
  BY <1>1, <1>4, <1>5, FS_Injection
<1>7. ASSUME NEW i \in 1 .. n PROVE \E m \in S : RankOf(S, m) = i - 1
  <2>1. i - 1 \in T
    BY <1>2, <1>3
  <2> QED
    BY <1>3, <1>6, <2>1 DEF Surjection
<1>8. PICK all : all = InOrder(S)
  OBVIOUS
<1>9. all = [i \in 1 .. n |-> CHOOSE m \in S : RankOf(S, m) = i - 1]
  BY <1>1, <1>8 DEF InOrder, RankOf, Ahead
<1>10. ASSUME NEW i \in 1 .. n PROVE all[i] \in S /\ RankOf(S, all[i]) = i - 1
  BY <1>7, <1>9
<1>11. all \in Seq(S) /\ Len(all) = n
  <2>1. all \in [1 .. n -> S]
    BY <1>9, <1>10
  <2> QED
    BY <1>2, <2>1
<1>12. ASSUME NEW x \in S PROVE \E i \in 1 .. n : all[i] = x
  <2>1. PICK i : i = RankOf(S, x) + 1
    OBVIOUS
  <2>2. i \in 1 .. n /\ i - 1 = RankOf(S, x)
    BY <1>1, <1>2, <2>1, RanksDiffer
  <2>3. all[i] \in S /\ RankOf(S, all[i]) = RankOf(S, x)
    BY <1>10, <2>2
  <2> QED
    BY <2>2, <2>3, RanksDiffer
<1>13. ASSUME NEW i \in 1 .. n, NEW k \in 1 .. n, i < k PROVE all[i] < all[k]
  <2>1. /\ all[i] \in S /\ RankOf(S, all[i]) = i - 1
        /\ all[k] \in S /\ RankOf(S, all[k]) = k - 1
    BY <1>10
  <2>2. all[i] # all[k]
    BY <1>2, <1>13, <2>1
  <2>3. ~(all[k] < all[i])
    <3>1. all[k] < all[i] => RankOf(S, all[k]) < RankOf(S, all[i])
      BY <2>1, RanksDiffer
    <3> QED
      BY <1>2, <1>13, <2>1, <3>1
  <2>4. all[i] \in Int /\ all[k] \in Int
    BY <2>1
  <2> QED
    BY <2>2, <2>3, <2>4
<1> QED
  BY <1>1, <1>8, <1>11, <1>12, <1>13 DEF Ascends

LEMMA BiggestIs ==
    ASSUME NEW S, IsFiniteSet(S), S \subseteq Int, S # {}
    PROVE  /\ Biggest(S) \in S /\ \A y \in S : y <= Biggest(S)
           /\ Smallest(S) \in S /\ \A y \in S : Smallest(S) <= y
           /\ \A x \in S : (\A y \in S : y <= x) => x = Biggest(S)
<1>1. PICK all : Ascends(all, S)
  BY InOrderAscends
<1>2. PICK n : n = Len(all)
  OBVIOUS
<1>3. n \in Nat /\ \A i \in 1 .. n : all[i] \in S
  BY <1>1, <1>2 DEF Ascends
<1>4. \A y \in S : \E i \in 1 .. n : all[i] = y
  BY <1>1, <1>2 DEF Ascends
<1>5. n # 0
  <2>1. PICK y : y \in S
    OBVIOUS
  <2>2. PICK i \in 1 .. n : all[i] = y
    BY <1>4, <2>1
  <2> QED
    BY <1>3, <2>2
<1>6. 1 \in 1 .. n /\ n \in 1 .. n
  BY <1>3, <1>5
<1>7. ASSUME NEW y \in S PROVE all[1] <= y /\ y <= all[n]
  <2>1. PICK i \in 1 .. n : all[i] = y
    BY <1>4
  <2>2. (1 < i => all[1] < y) /\ (i < n => y < all[n])
    BY <1>1, <1>2, <1>6, <2>1 DEF Ascends
  <2>3. all[1] \in Int /\ all[n] \in Int /\ y \in Int
    BY <1>3, <1>6
  <2>4. CASE 1 < i /\ i < n
    BY <2>2, <2>3, <2>4
  <2>5. CASE i = 1
    BY <1>3, <1>5, <2>1, <2>2, <2>3, <2>5
  <2>6. CASE i = n
    BY <1>3, <1>5, <2>1, <2>2, <2>3, <2>6
  <2> QED
    BY <1>3, <2>4, <2>5, <2>6
<1>8. Biggest(S) \in S /\ \A y \in S : y <= Biggest(S)
  <2>1. \E x \in S : \A y \in S : y <= x
    BY <1>3, <1>6, <1>7
  <2> QED
    BY <2>1 DEF Biggest
<1>9. Smallest(S) \in S /\ \A y \in S : Smallest(S) <= y
  <2>1. \E x \in S : \A y \in S : x <= y
    BY <1>3, <1>6, <1>7
  <2> QED
    BY <2>1 DEF Smallest
<1>10. ASSUME NEW x \in S, \A y \in S : y <= x PROVE x = Biggest(S)
  <2>1. x <= Biggest(S) /\ Biggest(S) <= x
    BY <1>8, <1>10
  <2>2. x \in Int /\ Biggest(S) \in Int
    BY <1>8
  <2> QED
    BY <2>1, <2>2
<1> QED
  BY <1>8, <1>9, <1>10

Older(table, from) == {ts \in table : ts < from}

(* What Samples.rows returns of two selects: rows in order, of which only   *)
(* the first may be from in front of the window.                            *)
Window(read, table, kept, from) ==
    /\ read \in Seq(Int)
    /\ \A i, k \in 1 .. Len(read) : i < k => read[i] < read[k]
    /\ \A i \in 1 .. Len(read) : read[i] >= from => read[i] \in kept
    /\ \A i \in 2 .. Len(read) : read[i] >= from
    /\ \A x \in kept : x >= from => \E i \in 1 .. Len(read) : read[i] = x
    /\ Older(table, from) # {} => Len(read) >= 1 /\ read[1] = Biggest(Older(table, from))
    /\ Older(table, from) = {} /\ Len(read) >= 1 => read[1] >= from

LEMMA ReadIsWindow ==
    ASSUME NEW table, IsFiniteSet(table), table \subseteq Int,
           NEW kept, IsFiniteSet(kept), kept \subseteq Int, NEW since \in Int
    PROVE  Window(Before(table, since) \o Inside(kept, since), table, kept, Reach(since))
<1>1. PICK from : from = Reach(since)
  OBVIOUS
<1>2. from \in Int
  BY <1>1, MonitorAssumption DEF Reach
<1>3. PICK S : S = {ts \in kept : ts >= from}
  OBVIOUS
<1>4. IsFiniteSet(S) /\ S \subseteq Int
  BY <1>3, FS_Subset
<1>5. PICK all : all = InOrder(S) /\ Ascends(all, S)
  BY <1>4, InOrderAscends
<1>6. Inside(kept, since) = all
  BY <1>1, <1>3, <1>5 DEF Inside
<1>7. PICK n : n = Len(all)
  OBVIOUS
<1>8. /\ all \in Seq(Int) /\ n \in Nat
      /\ \A i \in 1 .. n : all[i] \in S /\ all[i] \in Int /\ all[i] >= from /\ all[i] \in kept
  <2>1. all \in Seq(S) /\ n \in Nat
    BY <1>5, <1>7 DEF Ascends
  <2>2. \A i \in 1 .. n : all[i] \in S
    BY <1>7, <2>1
  <2>3. all \in Seq(Int)
    <3>1. all \in [1 .. n -> Int]
      <4>1. all \in [1 .. n -> S]
        BY <1>7, <2>1
      <4> QED
        BY <1>4, <4>1
    <3> QED
      BY <2>1, <3>1
  <2> QED
    BY <1>3, <1>4, <2>1, <2>2, <2>3
<1>9. \A i, k \in 1 .. n : i < k => all[i] < all[k]
  BY <1>5, <1>7 DEF Ascends
<1>10. \A x \in kept : x >= from => \E i \in 1 .. n : all[i] = x
  BY <1>3, <1>5, <1>7 DEF Ascends
<1>11. PICK old : old = Older(table, from)
  OBVIOUS
<1>12. Before(table, since) = IF old = {} THEN <<>> ELSE <<Biggest(old)>>
  BY <1>1, <1>11 DEF Before, Older
<1>13. CASE old = {}
  <2>1. Before(table, since) \o Inside(kept, since) = all
    BY <1>6, <1>8, <1>12, <1>13
  <2>2. Window(all, table, kept, from)
    <3>1. \A i \in 2 .. n : i \in 1 .. n
      BY <1>8
    <3>2. n >= 1 => 1 \in 1 .. n
      BY <1>8
    <3> QED
      BY <1>7, <1>8, <1>9, <1>10, <1>11, <1>13, <3>1, <3>2 DEF Window
  <2> QED
    BY <1>1, <2>1, <2>2
<1>14. CASE old # {}
  <2>1. PICK b : b = Biggest(old)
    OBVIOUS
  <2>2. IsFiniteSet(old) /\ old \subseteq Int
    BY <1>11, FS_Subset DEF Older
  <2>3. b \in old
    BY <1>14, <2>1, <2>2, BiggestIs
  <2>4. b \in Int /\ b < from
    BY <1>11, <2>2, <2>3 DEF Older
  <2>5. PICK read : read = <<b>> \o all
    OBVIOUS
  <2>6. Before(table, since) \o Inside(kept, since) = read
    BY <1>6, <1>12, <1>14, <2>1, <2>5
  <2>7. /\ read \in Seq(Int) /\ Len(read) = n + 1 /\ read[1] = b
        /\ \A i \in 2 .. n + 1 : read[i] = all[i - 1]
    BY <1>7, <1>8, <2>4, <2>5
  <2>8. \A i \in 2 .. n + 1 : i - 1 \in 1 .. n /\ read[i] \in kept /\ read[i] >= from /\ read[i] \in Int
    <3>1. ASSUME NEW i \in 2 .. n + 1 PROVE i - 1 \in 1 .. n
      BY <1>8
    <3>2. ASSUME NEW i \in 2 .. n + 1 PROVE read[i] = all[i - 1]
      BY <2>7
    <3> QED
      BY <1>8, <3>1, <3>2
  <2>9. ASSUME NEW i \in 1 .. n + 1, NEW k \in 1 .. n + 1, i < k PROVE read[i] < read[k]
    <3>1. k \in 2 .. n + 1
      BY <1>8, <2>9
    <3>2. CASE i = 1
      BY <1>2, <2>4, <2>7, <2>8, <3>1, <3>2
    <3>3. CASE i \in 2 .. n + 1
      <4>1. i - 1 \in 1 .. n /\ k - 1 \in 1 .. n /\ i - 1 < k - 1
        BY <1>8, <2>9, <3>1, <3>3
      <4> QED
        BY <1>9, <2>7, <3>1, <3>3, <4>1
    <3> QED
      BY <1>8, <3>2, <3>3
  <2>10. ASSUME NEW i \in 1 .. n + 1, read[i] >= from PROVE read[i] \in kept
    <3>1. i # 1
      BY <1>2, <2>4, <2>7, <2>10
    <3>2. i \in 2 .. n + 1
      BY <1>8, <3>1
    <3> QED
      BY <2>8, <3>2
  <2>11. ASSUME NEW x \in kept, x >= from PROVE \E i \in 1 .. n + 1 : read[i] = x
    <3>1. PICK i \in 1 .. n : all[i] = x
      BY <1>10, <2>11
    <3>2. i + 1 \in 2 .. n + 1 /\ i + 1 \in 1 .. n + 1 /\ (i + 1) - 1 = i
      BY <1>8
    <3>3. read[i + 1] = x
      BY <2>7, <3>1, <3>2
    <3> QED
      BY <3>2, <3>3
  <2>12. n + 1 >= 1
    BY <1>8
  <2>13. Window(read, table, kept, from)
    BY <1>11, <1>14, <2>1, <2>7, <2>8, <2>9, <2>10, <2>11, <2>12 DEF Window
  <2> QED
    BY <1>1, <2>6, <2>13
<1> QED
  BY <1>13, <1>14

(* The walk of series() over a window ends on the nearest row that is old   *)
(* enough, as long as what the first select saw is still what is there, or  *)
(* has been swept from below.                                               *)
LEMMA BaselinesAreNear ==
    ASSUME NEW table, IsFiniteSet(table), table \subseteq Int,
           NEW kept, IsFiniteSet(kept), kept \subseteq Int, NEW since \in Int, NEW read,
           Window(read, table, kept, Reach(since)),
           \A x \in Older(kept, Reach(since)) : x \in table,
           \A x \in Older(table, Reach(since)) : x \in kept \/ \A y \in kept : x < y,
           NEW p \in Points(read, since)
    PROVE  Nearest(kept, p)
<1>1. PICK from : from = Reach(since)
  OBVIOUS
<1>2. RateLag \in Nat \ {0} /\ from \in Int /\ from = since - RateLag /\ from < since
  BY <1>1, MonitorAssumption DEF Reach
<1>3. PICK n : n = Len(read)
  OBVIOUS
<1>4. n \in Nat /\ DOMAIN read = 1 .. n /\ \A i \in 1 .. n : read[i] \in Int
  BY <1>3 DEF Window
<1>5. /\ \A i, k \in 1 .. n : i < k => read[i] < read[k]
      /\ \A i \in 1 .. n : read[i] >= from => read[i] \in kept
      /\ \A i \in 2 .. n : read[i] >= from
      /\ \A x \in kept : x >= from => \E i \in 1 .. n : read[i] = x
      /\ Older(table, from) # {} => n >= 1 /\ read[1] = Biggest(Older(table, from))
      /\ Older(table, from) = {} /\ n >= 1 => read[1] >= from
  BY <1>1, <1>3 DEF Window
<1>6. PICK i \in 1 .. n : read[i] >= since /\ p = [ts |-> read[i], baseline |-> Baseline(read, i)]
  BY <1>4 DEF Points
<1>7. PICK row, edge : row = read[i] /\ edge = row - RateLag
  OBVIOUS
<1>8. row \in Int /\ edge \in Int /\ edge < row /\ from <= edge /\ p.ts = row /\ row \in kept
  BY <1>2, <1>4, <1>5, <1>6, <1>7
<1>9. PICK old : old = {ts \in kept : ts <= edge}
  OBVIOUS
<1>10. IsFiniteSet(old) /\ old \subseteq Int
  BY <1>9, FS_Subset
<1>11. PICK reached : reached = Steps(read, i, row)
  OBVIOUS
<1>12. reached = {b \in 1 .. i - 1 : \A step \in 2 .. b : read[step] <= edge}
  BY <1>7, <1>11 DEF Steps
<1>13. IsFiniteSet(reached) /\ reached \subseteq Int
  <2>1. IsFiniteSet(1 .. i - 1)
    BY <1>4, FS_Interval
  <2> QED
    BY <1>4, <1>12, <2>1, FS_Subset
<1>14. p.baseline = IF reached = {} THEN row ELSE read[Biggest(reached)]
  BY <1>6, <1>7, <1>11 DEF Baseline
<1>15. i # 1 => 1 \in reached
  BY <1>4, <1>12
<1>16. ASSUME NEW g \in 1 .. n, g < i, g = 1 \/ read[g] <= edge,
              \A b \in 2 .. n : read[b] <= edge => b <= g
       PROVE  p.baseline = read[g]
  <2>1. ASSUME NEW step \in 2 .. g PROVE read[step] <= edge
    <3>1. step \in 1 .. n /\ (step < g => read[step] < read[g]) /\ g # 1
      BY <1>4, <1>5, <2>1
    <3>2. read[step] \in Int /\ read[g] \in Int /\ read[g] <= edge
      BY <1>4, <1>16, <3>1
    <3>3. step < g \/ step = g
      BY <1>4
    <3> QED
      BY <1>8, <3>1, <3>2, <3>3
  <2>2. g \in reached
    BY <1>4, <1>12, <1>16, <2>1
  <2>3. ASSUME NEW b \in reached PROVE b <= g
    <3>1. b \in 1 .. i - 1 /\ (b # 1 => read[b] <= edge)
      BY <1>4, <1>12
    <3>2. CASE b = 1
      BY <1>4, <3>2
    <3>3. CASE b # 1
      <4>1. b \in 2 .. n
        BY <1>4, <3>1, <3>3
      <4> QED
        BY <1>16, <3>1, <3>3, <4>1
    <3> QED
      BY <3>2, <3>3
  <2>4. g = Biggest(reached)
    BY <1>13, <2>2, <2>3, BiggestIs
  <2> QED
    BY <1>14, <2>2, <2>4
<1>17. ASSUME NEW x \in kept, x < from PROVE Older(table, from) # {} /\ x <= read[1] /\ 1 \in 1 .. n
  <2>1. x \in Older(kept, from)
    BY <1>17 DEF Older
  <2>2. x \in Older(table, from)
    BY <1>1, <1>17, <2>1 DEF Older
  <2>3. IsFiniteSet(Older(table, from)) /\ Older(table, from) \subseteq Int
    BY FS_Subset DEF Older
  <2>4. x <= Biggest(Older(table, from))
    BY <2>2, <2>3, BiggestIs
  <2> QED
    BY <1>4, <1>5, <2>2, <2>4
<1>18. CASE old # {}
  <2>1. PICK g : g = Biggest(old)
    OBVIOUS
  <2>2. g \in old /\ \A y \in old : y <= g
    BY <1>10, <1>18, <2>1, BiggestIs
  <2>3. g \in Int /\ g \in kept /\ g <= edge
    BY <1>9, <1>10, <2>2
  <2>4. ASSUME NEW b \in 2 .. n, read[b] <= edge PROVE read[b] <= g
    <3>1. b \in 1 .. n
      BY <1>4
    <3>2. read[b] \in kept
      BY <1>5, <3>1
    <3> QED
      BY <1>9, <2>2, <2>4, <3>2
  <2>5. \E k \in 1 .. n : read[k] = g
    <3>1. CASE g >= from
      BY <1>5, <2>3, <3>1
    <3>2. CASE g < from
      <4>1. Older(table, from) # {} /\ g <= read[1] /\ 1 \in 1 .. n
        BY <1>17, <2>3, <3>2
      <4>2. PICK b : b = Biggest(Older(table, from))
        OBVIOUS
      <4>3. IsFiniteSet(Older(table, from)) /\ Older(table, from) \subseteq Int
        BY FS_Subset DEF Older
      <4>4. b \in Older(table, from) /\ b = read[1]
        BY <1>5, <4>1, <4>2, <4>3, BiggestIs
      <4>5. b \in Int /\ b < from
        BY <4>3, <4>4 DEF Older
      <4>6. b \in kept \/ \A y \in kept : b < y
        BY <1>1, <4>4
      <4>7. b \in kept
        BY <2>3, <4>1, <4>4, <4>5, <4>6
      <4>8. b \in old
        BY <1>2, <1>8, <1>9, <4>5, <4>7
      <4>9. b <= g
        BY <2>2, <4>8
      <4> QED
        BY <2>3, <4>1, <4>4, <4>5, <4>9
    <3> QED
      BY <1>2, <2>3, <3>1, <3>2
  <2>6. PICK k \in 1 .. n : read[k] = g
    BY <2>5
  <2>7. k < i
    <3>1. i < k => row < g
      BY <1>5, <1>7, <2>6
    <3>2. i # k
      BY <1>7, <1>8, <2>3, <2>6
    <3> QED
      BY <1>4, <1>8, <2>3, <3>1, <3>2
  <2>8. ASSUME NEW b \in 2 .. n, read[b] <= edge PROVE b <= k
    <3>1. b \in 1 .. n /\ read[b] \in Int /\ read[b] <= g
      BY <1>4, <2>4, <2>8
    <3>2. k < b => g < read[b]
      BY <1>5, <2>6, <3>1
    <3> QED
      BY <1>4, <2>3, <3>1, <3>2
  <2>9. p.baseline = g
    BY <1>16, <2>3, <2>6, <2>7, <2>8
  <2> QED
    BY <1>7, <1>8, <1>9, <1>18, <2>1, <2>9 DEF Nearest
<1>19. CASE old = {}
  <2>1. p.baseline = read[1] /\ 1 \in 1 .. n
    <3>1. CASE i = 1
      <4>1. reached = {}
        BY <1>4, <1>12, <3>1
      <4> QED
        BY <1>7, <1>14, <3>1, <4>1
    <3>2. CASE i # 1
      <4>1. 1 \in 1 .. n /\ 1 < i
        BY <1>4, <3>2
      <4>2. ASSUME NEW b \in 2 .. n, read[b] <= edge PROVE FALSE
        <5>1. b \in 1 .. n
          BY <1>4
        <5>2. read[b] \in kept
          BY <1>5, <5>1
        <5> QED
          BY <1>9, <1>19, <4>2, <5>2
      <4> QED
        BY <1>16, <4>1, <4>2
    <3> QED
      BY <3>1, <3>2
  <2>2. ASSUME NEW x \in kept PROVE read[1] <= x
    <3>1. x \in Int /\ ~(x <= edge)
      BY <1>9, <1>19
    <3>2. x >= from
      BY <1>2, <1>8, <3>1
    <3>3. PICK k \in 1 .. n : read[k] = x
      BY <1>5, <3>2
    <3>4. 1 < k => read[1] < read[k]
      BY <1>5, <2>1, <3>3
    <3>5. read[1] \in Int
      BY <1>4, <2>1
    <3> QED
      BY <1>4, <3>1, <3>3, <3>4, <3>5
  <2>3. Smallest(kept) \in kept
    BY <1>8, BiggestIs
  <2>4. p.baseline <= Smallest(kept)
    BY <2>1, <2>2, <2>3
  <2> QED
    BY <1>7, <1>8, <1>9, <1>19, <2>4 DEF Nearest
<1> QED
  BY <1>18, <1>19

(* series() rates each row against the nearest one that is RateLag older,   *)
(* whatever is appended or swept between the two selects of Samples.rows:   *)
(* an append is too new, and a sweep too old, to be missed by the first.    *)
THEOREM RatesHaveTheirBaseline == Spec => BaselineIsNearest
<1> DEFINE Fair(window, table) ==
              \A p \in Points(Before(table, now - window) \o Inside(rows', now - window), now - window) :
                  Nearest(rows', p)
<1>1. ASSUME IInv, Next, rows' # rows, NEW window \in Windows, NEW table \in {rows, rows'}
      PROVE  Fair(window, table)
  <2>1. /\ now \in Nat /\ rows \subseteq 0 .. now /\ IsFiniteSet(rows) /\ window \in Nat
        /\ sampler.ts \in Nat /\ Extra \in 0 .. 1 /\ RateLag \in Nat \ {0} /\ Retention \in Nat
        /\ Windows \subseteq 0 .. Retention
    <3>1. now \in Nat /\ rows \subseteq 0 .. now /\ sampler.ts \in Nat
      BY <1>1, MonitorAssumption DEF IInv, Shape, Tasks
    <3>2. IsFiniteSet(0 .. now)
      BY <3>1, FS_Interval
    <3>3. IsFiniteSet(rows)
      BY <3>1, <3>2, FS_Subset
    <3>4. /\ RateLag \in Nat \ {0} /\ Retention \in Nat
          /\ Windows \subseteq 0 .. Retention
      BY MonitorAssumption
    <3>5. window \in Nat
      BY <3>4
    <3>6. Extra \in 0 .. 1
      BY DEF Extra
    <3> QED
      BY <3>1, <3>3, <3>4, <3>5, <3>6
  <2>2. PICK since, from : since = now - window /\ from = Reach(since)
    OBVIOUS
  <2>3. since \in Int /\ from \in Int /\ from <= now - RateLag /\ from < now /\ from >= now - Retention - RateLag
    BY <1>1, <2>1, <2>2 DEF Reach
  <2>4. \/ \E ts \in Nat : rows' = rows \cup {ts} /\ ts >= from
        \/ rows' \subseteq rows /\ \A x \in rows \ rows' : \A y \in rows' : x < y
    <3>1. sampler.pc = "append" => sampler.ts >= from
      <4>1. sampler.pc = "append" => now <= sampler.ts + Extra
        BY <1>1 DEF IInv, OnTime
      <4> QED
        BY <2>1, <2>3, <4>1
    <3>2. CASE AppendRow
      BY <2>1, <3>1, <3>2 DEF AppendRow
    <3>3. CASE BackendRestarts
      BY <1>1, <2>1, <3>1, <3>3 DEF BackendRestarts
    <3>4. CASE Sweep
      <4>1. rows' = {ts \in rows : ts >= Cutoff}
        BY <1>1, <3>4 DEF Sweep
      <4>2. ASSUME NEW x \in rows \ rows', NEW y \in rows' PROVE x < y
        <5>1. x \in Int /\ y \in Int /\ ~(x >= Cutoff) /\ y >= Cutoff /\ Cutoff \in Int
          BY <2>1, <4>1 DEF Cutoff
        <5> QED
          BY <5>1
      <4> QED
        BY <4>1, <4>2
    <3> QED
      BY <1>1, <3>2, <3>3, <3>4
         DEF Next, Unreachable, CallHealth, CallTotals, Gathered, AppendFails, SweepFails, Wake, Tick,
             RedisDown, RedisStarts, RedisLoaded, GatewayDown, GatewayUp
  <2>5. PICK kept : kept = rows'
    OBVIOUS
  <2>6. IsFiniteSet(kept) /\ kept \subseteq Int
    <3>1. IsFiniteSet(rows) /\ rows \subseteq Int
      BY <2>1
    <3>2. CASE \E ts \in Nat : rows' = rows \cup {ts}
      BY <2>5, <3>1, <3>2, FS_AddElement
    <3>3. CASE rows' \subseteq rows
      BY <2>5, <3>1, <3>3, FS_Subset
    <3> QED
      BY <2>4, <3>2, <3>3
  <2>7. IsFiniteSet(table) /\ table \subseteq Int
    BY <2>1, <2>5, <2>6
  <2>8. ASSUME NEW x \in Older(kept, from) PROVE x \in table
    <3>1. x \in rows' /\ x < from /\ x \in Int
      BY <2>5, <2>6 DEF Older
    <3>2. x \in rows
      BY <2>3, <2>4, <3>1
    <3> QED
      BY <3>1, <3>2
  <2>9. ASSUME NEW x \in Older(table, from) PROVE x \in kept \/ \A y \in kept : x < y
    <3>1. x \in rows \/ x \in kept
      BY <2>5 DEF Older
    <3> QED
      BY <2>4, <2>5, <3>1
  <2>10. PICK read : read = Before(table, since) \o Inside(kept, since)
    OBVIOUS
  <2>11. Window(read, table, kept, Reach(since))
    BY <2>3, <2>6, <2>7, <2>10, ReadIsWindow
  <2>12. \A p \in Points(read, since) : Nearest(kept, p)
    BY <2>2, <2>3, <2>6, <2>7, <2>8, <2>9, <2>11, BaselinesAreNear
  <2> QED
    BY <2>2, <2>5, <2>10, <2>12
<1>2. IInv /\ [Next]_vars =>
          [rows' # rows => \A window \in Windows, table \in {rows, rows'} : Fair(window, table)]_vars
  BY <1>1 DEF vars
<1>3. [rows' # rows => \A window \in Windows, table \in {rows, rows'} : Fair(window, table)]_vars =>
      [rows' # rows =>
          \A window \in Windows, table \in {rows, rows'} :
              LET since == now - window
              IN  \A p \in Points(Before(table, since) \o Inside(rows', since), since) :
                      Nearest(rows', p)]_vars
  OBVIOUS
<1> QED
  BY <1>2, <1>3, InvAlways, PTL DEF Spec, BaselineIsNearest
=============================================================================
