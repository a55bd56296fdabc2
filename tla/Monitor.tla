------------------------------ MODULE Monitor ------------------------------
(***************************************************************************)
(* The history behind the charts: the sampler of the UI backend polls the  *)
(* gateway, every thread of the gateway reads Redis over a connection of   *)
(* its own (RedisConn, with its backoff), and a row per successful poll is *)
(* kept in SQLite, swept, and read back as a series.                       *)
(*                                                                         *)
(* Time is discrete.  Redis goes down and comes back as a new incarnation, *)
(* answering errors while it loads; the gateway and the UI backend may be  *)
(* restarted; appending a row or sweeping may fail.  A row is its          *)
(* timestamp: what its counters are worth is Reports' matter.              *)
(***************************************************************************)
EXTENDS Integers, FiniteSets, SequencesExt

CONSTANTS Threads,         \* cfg.query.concurrency handlers of the gateway
          MinDelay,        \* kRedisBackoffMinMs
          MaxDelay,        \* kRedisBackoffMaxMs
          Interval,        \* sample_interval
          Retention,       \* RETENTION_DAYS
          SweepInterval,   \* SWEEP_INTERVAL
          RateLag,         \* RATE_LAG
          Windows,         \* the windows a series is asked for
          MaxTime,         \* bound: ticks of one behaviour
          MaxFaults        \* bound: outages of Redis, restarts of the gateway and of
                           \* the backend, appends and sweeps that raise, taken together

ASSUME MonitorAssumption ==
    /\ IsFiniteSet(Threads) /\ Threads # {}
    /\ MinDelay \in Nat \ {0} /\ MaxDelay \in Nat /\ MinDelay <= MaxDelay
    /\ {Interval, Retention, SweepInterval, RateLag} \subseteq Nat \ {0}
    /\ Windows \subseteq 0 .. Retention
    /\ {MaxTime, MaxFaults} \subseteq Nat

VARIABLES
    now,       \* the clock
    redis,     \* state (up, loading, down) and incarnation
    gateway,   \* up or down
    conn,      \* per thread of the gateway: ctx (0: none), delay, next_try
    sampler,   \* where its task is, and what the poll under way has got
    rows,      \* the table: the timestamps of its rows
    swept,     \* when the task last swept
    late,      \* per thread: reads that failed although Redis was long back
    calm,      \* when something was last broken or repaired
    faults     \* faults so far

vars == <<now, redis, gateway, conn, sampler, rows, swept, late, calm, faults>>

Fresh == [ctx |-> 0, delay |-> 0, next_try |-> 0]
Never == 0 - SweepInterval

Init ==
    /\ now = 0
    /\ redis = [state |-> "up", life |-> 1]
    /\ gateway = "up"
    /\ conn = [t \in Threads |-> Fresh]
    /\ sampler = [pc |-> "poll", slow |-> FALSE, wake |-> 0, ts |-> 0, last_sample |-> 0,
                   health |-> "none", totals |-> "none"]
    /\ rows = {} /\ swept = Never
    /\ late = [t \in Threads |-> 0]
    /\ calm = 0 /\ faults = 0

Fault == faults < MaxFaults /\ faults' = faults + 1 /\ calm' = now
Repair == calm' = now /\ UNCHANGED faults

-----------------------------------------------------------------------------
(* RedisConn::get and the read on top of it (RedisQuery::command).          *)

NextDelayUncapped(delay) == IF delay = 0 THEN MinDelay ELSE 2 * delay

NextDelay(delay) ==
    IF delay = 0 THEN MinDelay ELSE IF 2 * delay < MaxDelay THEN 2 * delay ELSE MaxDelay

GetKeepsBackoff(c) ==
    CASE c.ctx # 0 -> c
      [] c.ctx = 0 /\ now < c.next_try -> c
      [] c.ctx = 0 /\ now >= c.next_try /\ redis.state # "down" -> [c EXCEPT !.ctx = redis.life]
      [] c.ctx = 0 /\ now >= c.next_try /\ redis.state = "down" ->
            [c EXCEPT !.delay = NextDelay(c.delay), !.next_try = now + NextDelay(c.delay)]

(* What get() leaves behind: a context without an error is returned as it   *)
(* is, in front of next_try nothing is tried, a failed connect backs off.   *)
Get(c) ==
    CASE c.ctx # 0 -> c
      [] c.ctx = 0 /\ now < c.next_try -> c
      [] c.ctx = 0 /\ now >= c.next_try /\ redis.state # "down" -> [Fresh EXCEPT !.ctx = redis.life]
      [] c.ctx = 0 /\ now >= c.next_try /\ redis.state = "down" ->
            [c EXCEPT !.delay = NextDelay(c.delay), !.next_try = now + NextDelay(c.delay)]

(* A context of an earlier incarnation looks good until it is used: no      *)
(* reply, and it is dropped.  An error reply (loading) leaves it.           *)
Alive(c) == c.ctx = redis.life /\ redis.state # "down"
Answers(c) == Alive(c) /\ redis.state = "up"
Used(c) == IF c.ctx # 0 /\ ~Alive(c) THEN [c EXCEPT !.ctx = 0] ELSE c

(* Long back: every backoff a thread began while Redis was down has passed. *)
LongBack == redis.state = "up" /\ now >= calm + MaxDelay

Read(t, answered) ==
    LET c == Get(conn[t])
    IN  /\ answered = Answers(c)
        /\ conn' = [conn EXCEPT ![t] = Used(c)]
        /\ late' = [late EXCEPT ![t] = @ + IF LongBack /\ ~answered THEN 1 ELSE 0]

-----------------------------------------------------------------------------
(* The two calls of a poll run side by side, each on any thread.  Health    *)
(* answers 200 whatever the store does, totals 503 when it is not read; a   *)
(* gateway that is down is a 502.                                           *)
InPoll(call) == sampler.pc = "poll" /\ sampler[call] = "none"

Unreachable(call) ==
    /\ InPoll(call) /\ gateway = "down"
    /\ sampler' = [sampler EXCEPT ![call] = "failed"]
    /\ UNCHANGED <<now, redis, gateway, conn, rows, swept, late, calm, faults>>

CallHealth(t) ==
    /\ InPoll("health") /\ gateway = "up"
    /\ \E up \in BOOLEAN :
        /\ Read(t, up)
        /\ sampler' = [sampler EXCEPT !.health = IF up THEN "up" ELSE "down"]
    /\ UNCHANGED <<now, redis, gateway, rows, swept, calm, faults>>

CallTotals(t) ==
    /\ InPoll("totals") /\ gateway = "up"
    /\ \E read \in BOOLEAN :
        /\ Read(t, read)
        /\ sampler' = [sampler EXCEPT !.totals = IF read THEN "read" ELSE "failed"]
    /\ UNCHANGED <<now, redis, gateway, rows, swept, calm, faults>>

(* Sampler._poll behind the gather: a row for two good answers, else none.  *)
Gathered ==
    /\ sampler.pc = "poll" /\ sampler.health # "none" /\ sampler.totals # "none"
    /\ sampler' = IF sampler.health = "up" /\ sampler.totals = "read"
                  THEN [sampler EXCEPT !.pc = "append", !.ts = now]
                  ELSE [sampler EXCEPT !.pc = "sweep"]
    /\ UNCHANGED <<now, redis, gateway, conn, rows, swept, late, calm, faults>>

(* Samples.append; the timestamp is the key.  An exception ends the task.   *)
AppendRow ==
    /\ sampler.pc = "append"
    /\ rows' = rows \cup {sampler.ts}
    /\ sampler' = [sampler EXCEPT !.pc = "sweep", !.last_sample = sampler.ts, !.ts = 0]
    /\ UNCHANGED <<now, redis, gateway, conn, swept, late, calm, faults>>

AppendFails ==
    /\ sampler.pc = "append" /\ Fault
    /\ sampler' = [sampler EXCEPT !.pc = "dead", !.ts = 0]
    /\ UNCHANGED <<now, redis, gateway, conn, rows, swept, late>>

(* Sampler._sweep and the sleep behind it.                                  *)
Due == now - swept >= SweepInterval

CutoffByInterval == now - SweepInterval

Cutoff == now - Retention

Sweep ==
    /\ sampler.pc = "sweep"
    /\ IF Due
       THEN swept' = now /\ rows' = {ts \in rows : ts >= Cutoff}
       ELSE UNCHANGED <<swept, rows>>
    /\ sampler' = [sampler EXCEPT !.pc = "sleep", !.wake = now + Interval]
    /\ UNCHANGED <<now, redis, gateway, conn, late, calm, faults>>

(* The time of a sweep is set before it runs.  An exception ends the task.  *)
SweepFails ==
    /\ sampler.pc = "sweep" /\ Due /\ Fault
    /\ swept' = now
    /\ sampler' = [sampler EXCEPT !.pc = "dead"]
    /\ UNCHANGED <<now, redis, gateway, conn, rows, late>>

WakeKeepsAnswers ==
    /\ sampler.pc = "sleep" /\ now >= sampler.wake
    /\ sampler' = [sampler EXCEPT !.pc = "poll", !.slow = FALSE, !.wake = 0]
    /\ UNCHANGED <<now, redis, gateway, conn, rows, swept, late, calm, faults>>

Wake ==
    /\ sampler.pc = "sleep" /\ now >= sampler.wake
    /\ sampler' = [sampler EXCEPT !.pc = "poll", !.slow = FALSE, !.wake = 0,
                                    !.health = "none", !.totals = "none"]
    /\ UNCHANGED <<now, redis, gateway, conn, rows, swept, late, calm, faults>>

-----------------------------------------------------------------------------
(* A series of rates: Samples.rows selects the row in front of the window,  *)
(* which reaches RateLag further back, and then the window itself.  Appends *)
(* and sweeps run on another thread, between the two as well.               *)
Biggest(S) == CHOOSE x \in S : \A y \in S : y <= x
Smallest(S) == CHOOSE x \in S : \A y \in S : x <= y

ReachNoFurther(since) == since

Reach(since) == since - RateLag

Before(table, since) ==
    LET older == {ts \in table : ts < Reach(since)}
    IN  IF older = {} THEN <<>> ELSE <<Biggest(older)>>

InOrder(S) == [i \in 1 .. Cardinality(S) |-> CHOOSE x \in S : Cardinality({y \in S : y < x}) = i - 1]

Inside(table, since) == InOrder({ts \in table : ts >= Reach(since)})

(* series(): one point per row of the window, against a baseline that moves *)
(* up the rows while the next one is at least RateLag older than the point, *)
(* and stays behind the row itself.                                         *)
Steps(read, index, row) ==
    {b \in 1 .. index - 1 : \A step \in 2 .. b : read[step] <= row - RateLag}

Baseline(read, index) ==
    LET reached == Steps(read, index, read[index])
    IN  IF reached = {} THEN read[index] ELSE read[Biggest(reached)]

Points(read, since) ==
    {[ts |-> read[i], baseline |-> Baseline(read, i)] : i \in {j \in DOMAIN read : read[j] >= since}}

-----------------------------------------------------------------------------
(* What happens around them.  A poll takes at most a tick; nobody sleeps     *)
(* longer than asked.                                                       *)
Tick ==
    /\ now < MaxTime
    /\ now' = now + 1
    /\ \/ sampler.pc = "sleep" /\ now < sampler.wake /\ UNCHANGED sampler
       \/ sampler.pc = "dead" /\ UNCHANGED sampler
       \/ sampler.pc \in {"poll", "append"} /\ ~sampler.slow /\ sampler' = [sampler EXCEPT !.slow = TRUE]
    /\ UNCHANGED <<redis, gateway, conn, rows, swept, late, calm, faults>>

RedisDown ==
    /\ redis.state # "down" /\ Fault
    /\ redis' = [redis EXCEPT !.state = "down"]
    /\ UNCHANGED <<now, gateway, conn, sampler, rows, swept, late>>

RedisStarts ==
    /\ redis.state = "down"
    /\ redis' = [redis EXCEPT !.state = "loading", !.life = @ + 1]
    /\ Repair
    /\ UNCHANGED <<now, gateway, conn, sampler, rows, swept, late>>

RedisLoaded ==
    /\ redis.state = "loading"
    /\ redis' = [redis EXCEPT !.state = "up"]
    /\ late' = [t \in Threads |-> 0]
    /\ Repair
    /\ UNCHANGED <<now, gateway, conn, sampler, rows, swept>>

GatewayDown ==
    /\ gateway = "up" /\ Fault
    /\ gateway' = "down"
    /\ UNCHANGED <<now, redis, conn, sampler, rows, swept, late>>

GatewayUp ==
    /\ gateway = "down"
    /\ gateway' = "up"
    /\ conn' = [t \in Threads |-> Fresh]
    /\ Repair
    /\ UNCHANGED <<now, redis, sampler, rows, swept, late>>

(* stop() and start(): the task is cancelled wherever it is, an append that *)
(* runs on its thread is not.  The table stays.                             *)
BackendRestarts ==
    /\ Fault
    /\ sampler' = [sampler EXCEPT !.pc = "poll", !.slow = FALSE, !.wake = 0, !.ts = 0, !.last_sample = 0,
                                    !.health = "none", !.totals = "none"]
    /\ swept' = Never
    /\ \/ UNCHANGED rows
       \/ /\ sampler.pc = "append"
          /\ rows' = rows \cup {sampler.ts}
    /\ UNCHANGED <<now, redis, gateway, conn, late>>

Next ==
    \/ \E call \in {"health", "totals"} : Unreachable(call)
    \/ \E t \in Threads : CallHealth(t) \/ CallTotals(t)
    \/ Gathered
    \/ AppendRow
    \/ AppendFails
    \/ Sweep
    \/ SweepFails
    \/ Wake
    \/ Tick
    \/ RedisDown
    \/ RedisStarts
    \/ RedisLoaded
    \/ GatewayDown
    \/ GatewayUp
    \/ BackendRestarts

Spec == Init /\ [][Next]_vars

-----------------------------------------------------------------------------
TypeOK ==
    /\ now \in 0 .. MaxTime
    /\ redis.state \in {"up", "loading", "down"} /\ calm \in 0 .. now
    /\ \A t \in Threads : /\ conn[t].ctx \in 0 .. redis.life
                          /\ conn[t].delay \in Nat /\ conn[t].next_try \in Nat
                          /\ conn[t].ctx # 0 => conn[t].delay = 0
    /\ sampler.pc \in {"poll", "append", "sweep", "sleep", "dead"}
    /\ rows \subseteq 0 .. now

(* Once Redis is back for as long as the longest backoff, a thread of the   *)
(* gateway fails at most one read more, the one that finds its connection   *)
(* to be of before (redis_conn.cpp:44, redis_query.cpp:184): never because  *)
(* it still waits, and never twice.                                         *)
OneLateFailure == \A t \in Threads : late[t] <= 1

(* The sampler recovers in time: with Redis, the gateway and its task up    *)
(* since a while, a row has been added in the time it takes every thread to *)
(* find its old connection out, one poll each, and one poll more.           *)
SteadySince == calm + MaxDelay

RecoversInTime ==
    redis.state = "up" /\ gateway = "up" /\ sampler.pc # "dead" /\
    now > SteadySince + (Cardinality(Threads) + 1) * (Interval + 1) =>
        sampler.last_sample >= SteadySince

(* Nothing within retention is swept (sampler.py:87, db.py:82), and while   *)
(* the task runs nothing outlives it by more than the sweeps are apart,     *)
(* though a backend that restarts has forgotten when it swept.              *)
SweptOnTime ==
    /\ [][\A ts \in rows \ rows' : now - ts > Retention]_vars
    /\ [](sampler.pc # "dead" /\ now > calm + 1 =>
             \A ts \in rows : now - ts < Retention + SweepInterval + Interval + 1)

(* A rate is taken against the nearest row that is at least RateLag older,  *)
(* whatever window the series is asked for and whatever is appended or      *)
(* swept between the two selects (db.py:110-114, 192); only where there is  *)
(* none, against the first row there is.                                    *)
Nearest(table, p) ==
    LET old == {ts \in table : ts <= p.ts - RateLag}
    IN  IF old # {} THEN p.baseline = Biggest(old) ELSE p.baseline <= Smallest(table)

BaselineIsNearest ==
    [][rows' # rows =>
          \A window \in Windows, table \in {rows, rows'} :
              LET since == now - window
              IN  \A p \in Points(Before(table, since) \o Inside(rows', since), since) :
                      Nearest(rows', p)]_vars
=============================================================================
