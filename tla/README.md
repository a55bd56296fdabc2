# Verification of cdr-processor

TLA+ modules, TLC runs and TLAPS proofs for the C++ processor of this repository. Paths are
relative to the repository's root; the headers of `src/<x>.cpp` are in `inc/<x>.hpp`.

Modules are checked with `tlc -config X.cfg M`, proofs with `tlapm M.tla`. `PROJECT.json` holds the
machine-readable side: the components, the runs, which lines each definition models, a mutant for
every property, the hazards, the findings and the theorems.

## 1. The system

```
 sender --rename--> ready/ --DirWatcher--> .processing/ --ThreadPool workers--> done/ | failed/
                                 |                             |
                              feeder                   FileSource, CsvParser
 RabbitMQ --RabbitConn--> RabbitSource --RabbitIngestor threads----+
                                                               v
                AggregateSink = Aggregator (Delta) + Totals + mark
                                                               v
                RedisStore (pipeline, MULTI/EXEC) -- RedisConn --> Redis
                                                                      ^
 browser --> ui/api (proxy, sampler) --> HttpGateway --> services --> RedisQuery
```

| component | state it keeps | operations | what is hard | what makes it correct |
| --- | --- | --- | --- | --- |
| `RedisStore`, `RedisConn` | per thread: connection, `queued`, `open_batch`, backoff | `increment`, `rank`, `mark`, `flush`, `resume_at` | broken connection in mid-batch, lost EXEC reply, late EXEC, errors inside EXEC | replies aligned, nothing applied twice, mark backed by its counters |
| `AggregateSink`, writers | per thread `Delta`, shared `RunTotals` | `consume`, `resume_at`, `snapshot` | order of the commands of a batch, torn snapshot | the mark rides with the counters it names |
| `ThreadPool` | queue, `m_stop`, two condition variables | `submit`, worker loop, destructor | notify after unlock, full queue, destructor under load | no lost wakeup, every task once and in order, drained when closed |
| `DirWatcher` | inotify watch, `m_queue`, eventfd | constructor sweeps, `next_file`, `wake` | arrival during the sweeps, event and sweep of one file, overflow, a second process | no file forgotten, none taken twice |
| `FileIngestor`, `FileSource` | `m_stop`, feeder, pool, position in a file | `start`, `stop`, `feed`, `process`, `dispose` | kill at any step, a transaction that lands late, stop with files on their way | counted again only where the store exposes it, nothing skipped, `stop()` returns |
| `RabbitIngestor`, `RabbitSource`, `RabbitConn` | delivery tags, backoff | `consume`, `ack`, `stop` | redelivery, ack after a failed write, prefetch window full of rejects | a message is acked only when counted |
| `Aggregator`, `Totals`, `RunTotals` | `Delta`, atomics | `fold`, `merge`, `snapshot` | one record summed up four ways by separate switches, self links, torn reads | reports, boards and totals agree with each other and with the log |
| `PathService` | none across requests | `search` | the graph grows under a search | a path returned is a path, none within the bounds is missed |
| the other services, `RedisQuery`, `QueryParams` | per thread a connection and its backoff | reports, listings by offset and limit | a listing changes under its reader, boards read in two commands, numbers at their end | pages join up to the listing, no thread fails long after an outage |
| `CsvParser`, factories, `Config`, `Logger`, `HttpGateway`, `Json` | configuration | pure or start-up | boundaries of numbers | accepted records are in range |
| `ui/api` | samples in SQLite, the sampling task | poll, append, sweep, series of rates | outages in the middle of a poll, a sweep under a reader | history resumes in time, is kept for its retention, rates have the right baseline |
| `generator/`, `ui/web` | none that outlives a page or a run | test data, presentation | - | - |

## 2. Modules

| module | models |
| --- | --- |
| `RedisStore` | one thread of `redis_store.cpp` and `redis_conn.cpp` under `AggregateSink::consume`, and the Redis server as far as it matters |
| `BatchLedger` | what the store really promises about one batch: abstract specification of `RedisStore` |
| `RedisStoreProofs` | theorems about `RedisStore` |
| `ThreadPool` | `thread_pool.cpp` |
| `TaskPool` | what a bounded pool promises: abstract specification of `ThreadPool` |
| `ThreadPoolProofs` | theorems about `ThreadPool` |
| `FileIngest` | `dir_watcher.cpp`, `file_ingestor.cpp`, and of `file_source.cpp` what a file is read as; any number of processes, kills and restarts |
| `RabbitIngest` | `rabbit_ingestor.cpp` with `rabbit_source.cpp` and `rabbit_conn.cpp`; the broker, kills and restarts |
| `FileIngestProofs`, `RabbitIngestProofs` | theorems about the two |
| `PathSearch` | `path_service.cpp` and `link_peers()`, over a graph that grows |
| `PathSearchProofs` | theorems about `PathSearch` |
| `Aggregate` | what a batch becomes: `aggregator.cpp`, `totals.cpp`, `aggregate_writer.cpp`, `rank_writer.cpp` |
| `AggregateProofs` | theorems about `Aggregate` |
| `Paging` | `query_params.cpp`, `page()`, the page of `RedisQuery::top`, and the web pages' `Pager` |
| `Reports` | batches through `AggregateSink` on several threads, the services that answer from the store, and a reader who walks a listing |
| `ReportsProofs` | theorems about `Paging` and `Reports` |
| `Monitor` | the gateway's threads with their Redis connections (`redis_conn.cpp`, `RedisQuery::command`) under `ui/api`'s sampler, its table and its series |
| `MonitorProofs` | theorems about `Monitor` |
| `MC...` | the instances TLC checks |

The modules compose by promise. `FileIngest` uses the pool as a bounded first-in first-out queue
with workers, which `ThreadPool` is proved to implement (`KeepsSafePromise`; with its liveness it is
checked, `KeepsPromise`), and uses the store as something that lands each transaction at most once,
whole, not at all, or (a tail) without its mark, and at once or at any time after its caller has given
it up, which `RedisStore` is proved to implement (`Implements`; `LateCommit` is a step of it).
`Reports` extends `Aggregate` and `Paging` and lands its batches by the same promise, `BatchLedger`:
whole, from some command on, or not at all. Composing the modules themselves would multiply states
without new interleavings: a store is thread local, and the pool's mutex hides every state of the
pool between two of its steps.

Definitions named as a small slip of the code (`MarkLast`, `LeaveOnStop`, `WatchLast`, ...) sit next
to the definition they differ from. Nothing uses them; put in its place, each of them makes one of
the properties fail, which shows what that property guards (`PROJECT.json`, "mutants").

### RedisStore

A step is one call into the store up to the point where it waits for the server. `pos` walks the
commands of a batch in the order `consume()` issues them: the run totals, the mark (only when the
batch names its source), the boards, the counters of the delta. `conn` is `none`, `good` or
`broken` (`ctx->err`), `queued` is the code's counter and `pending` the replies the wire really owes;
that they agree is a property, not a definition. `drain()` is split by what it reads: `DrainQueued`
the `+QUEUED` replies in mid-batch, `DrainExec` the reply of the EXEC, `DrainBreak` a connection that
breaks under it. The server applies a transaction at EXEC, unless it refused one of its commands;
single commands may fail while it runs; a transaction whose client is gone may have been applied,
be applied later (`late`, `LateCommit`) or never. `redisAppendCommand` failing (out of memory) is
left out. `ok` is what the calls of one `consume()` returned, conjoined: `consume()` itself drops it.

### ThreadPool

A step is one hold of the mutex, or one notify, because the code notifies after it has let the
mutex go. The wait predicates are re-evaluated on every wake, spurious ones included. Producers are
threads outside, of which there is one in the program, the feeder; the model has several, since the
documentation allows it. `Child` lets a task submit another. The destructor runs only when no
producer is inside `submit()`, as C++ requires and `FileIngestor::stop` ensures by joining the feeder.

### FileIngest

`dir` says in which directory a file is; each rename is one step. A process goes through `target`
and `source` (the sweeps of the constructor), `running`, and on stop `flagged`, `joining`,
`draining`, `exited`; a kill takes it to `down` from any of them. The watch exists from `Boot` on,
so that events pile up during the sweeps; a sweep lists what is there when it begins and may list
what arrives meanwhile. A worker reads the stop flag once per file, then asks for the mark, maps the
file, consumes batch by batch and renames. `Faults` names what the outside may do wrong: the store
loses a batch (`lost`), lands it without its mark (`unmarked`) or after it was given up (`late`),
`resume_at` cannot reach it (`resume`), a directory cannot be listed, so that its sweep is over at
once (`scan`), a rename fails (`rename`, `claim`), `poll` fails (`watcher`), the kernel drops events of
a full inotify queue (`overflow`; not in a process's last start, so that a sweep follows). A file's
records ascend in sequence, as the generator writes them, so batches are numbered and a mark is a
batch number.

A transaction is given up by a worker whose EXEC gets no reply (`Consume`), or dies with the process
while it is on its way (`Crash`, for any of the workers that are in `consume()`). `late` counts those
the server may still have before it, and `LandsLate` applies one at any later step: before or after
the restarted process has asked `resume_at`, before or after the next batch. It writes the mark of
its own batch, also over a later one. `excused` is a history variable: it notes for each batch how
often the store made one more count of it possible, by landing it unmarked (once), by a `resume_at`
that was answered 0 (every batch behind the mark), by landing it late (that batch, and those behind
the mark that goes back).

### RabbitIngest

Each consumer thread walks the two loops of `consume()` (`pc`): `check`, `open`, `backoff` outside,
`loop`, `read`, `sink`, `ack` inside. A delivery tag is a position in `chan`, what the broker sent
on the thread's latest channel; `cleared` and `acked` are how far the broker has seen, and the
client has written, acks with `multiple` set. A connection that breaks (`Drop`) loses the acks still
on the wire and requeues what was not cleared, also deliveries the client holds unread; a connection
that is closed by `stop()` has its acks read first. A broken link is noticed when the client reads
behind what it had received, or when an ack does not reach the socket. The sink is one step that
counts the batch, or with `StoreFails` may lose it without a word, as `consume()` returns nothing.
All messages are queued from the start: one that is published later cannot be told from one that is
delivered later. Clocks are left out: a poll may end when the channel is read empty, a backoff at
any time.

### PathSearch

The search is one thread's; what moves under it is the graph, since ingestion goes on. A step is one
read of the store with what follows from its reply: `Expand` one `HKEYS`, `Carried` one `HMGET`. The
code's one frontier queue is `left`, what it held when the round began, and `frontier`, what was
pushed behind. Trails map a subscriber to the whole way it was reached on, where the code keeps the
last step of it: entries are never replaced, so `walk()` following them reads the same. Peers come
sorted by msisdn; the model looks at them in any order, so what holds does not hang on names. A link
is unordered, as `addLink()` mirrors it and a batch lands whole (but see finding 1).

### Aggregate

No state: operators from a batch of records to the commands it is written with. A cell is one number
of the store (a hash field or the score of a board's member); a delta is a function from cells to
numbers, which is what the hash maps of `Delta` are. `Traffic`, `Other`, `LinkOf` and `TotalsRecord`
are the four switches over the type of a record; `Commands` lists the increments in the order they
are queued, total fields, boards, counters, so that a torn batch is a suffix. Within one part the
order is that of a hash map in the code and some fixed order here. `CallRecord` is what is read of a
`CdrRecord`; `SumOver` is the fold that stands for the `+=` on an entry of a map.

### Paging

Numbers of a request are unsigned and wrap at `Width` (2^64 in the code), ranks of Redis are signed,
so that a rank from `Width` / 2 on is refused by Redis and answered 503. A parameter is absent, no
count, or a number that may not fit. `Page` is the cut of the gateway, `TopPage` that of ZREVRANGE,
with its ranks and its -1; `NextOffset` and `LastOffset` are the buttons of the `Pager`.

### Reports

A batch goes from `new` to `merged` (folded, its totals in `RunTotals`) to `whole`, `tail` or
`lost`. The services are operators over the store that answer with what the code shows and with
their status. The reader opens a listing, asks for its pages one after the other, and closes it; a
listing of peers is one command, a board is two, its size (`AskCount`) and its members (`AskRange`),
between which batches may land and the connection may fail. `stirred` and `split` note whether
anything landed during a walk, or between the two commands of one of its pages; `at_start` is the
listing with its weights when it was opened. `InOrder` sorts: an entry stands where as many as come
before it say. Names are one digit, for which the order of texts is that of numbers.

### Monitor

Time is discrete. Redis is `up`, `loading` (it answers, with an error) or `down`, and has an
incarnation: a connection of an earlier one looks good until it is used. Each thread of the gateway
has its own context, its delay and the time of its next attempt; either call of a poll may meet any
thread. The sampler is a task that polls, appends, sweeps and sleeps, in this order, or is dead, which
an append or a sweep that raises leaves it; a sweep that raises is noted as done before it ran. The
table is its set of timestamps: values of a row play no part in what is kept or compared. A series
is read in two selects, and `BaselineIsNearest` looks at every way an append or a sweep falls
between them. `late` counts the reads a thread failed once every backoff had passed, `calm` is when
something last failed or came back; both serve the properties.

## 3. Runs

| run | instance | shows |
| --- | --- | --- |
| `MCRedisStore` | 2 totals, mark, 1 board, 2 counters, depth 3, 2 batches | `TypeOK`, `Aligned`, `AtMostOnce`, `ProgressIsBacked`, `SuccessIsLanded`, and that the store implements `BatchLedger` |
| `MCRedisStoreAllOrNothing` | 1 batch | finding 1 |
| `MCThreadPool` | 2 producers, 2 workers, 4 tasks (one nested), queue of 2 | no lost wakeup on either condition, drained when closed, `submit()` and the destructor return, implements `TaskPool` with its liveness |
| `MCFileIngest` | 1 process, 3 starts, 2 readers, a file of 2 batches and an unreadable one, 1 late transaction per batch; store, scans, renames and watcher may fail | `RecountsAreExcused`, `NothingSkipped` |
| `MCFileIngestLive` | 1 reader (pool of 2), 3 files of 2 batches; marks may be lost, the kernel may drop events | `NothingForgotten`, `NoneHalfProcessed`, `Settles`, `StopReturns` |
| `MCFileIngestTwo` | 2 processes, 1 file | finding 2 |
| `MCFileIngestLate` | 1 file of 2 batches, 1 kill, 1 late transaction per batch | finding 4 |
| `MCRabbitIngest` | 1 consumer, 4 messages (1 refused), batches of 2, 1 drop or kill, 2 starts | `AckedIsCounted`, `OncePerDrop`, `Settles`, `StopReturns` |
| `MCRabbitIngestStall` | 1 consumer, 2 refused messages and 1 other | finding 3 |
| `MCPathSearch` | every graph of 6 subscribers (symmetric), every pair, 1 link added; 3 hops, 4 visited | `PathIsPath`, `NoneMeansNone`, `NoDetour`, `FullBudget` |
| `MCReports` | 3 batches with every type of record, 2 threads, at most 1 torn batch; pages of 1, numbers below 16 | `BoardsMatch`, `ReportsAddUp`, `LogCoversStore`, `RedisPageIsPage`, `StillWalkIsExact`, `WalkMissesNoStayer` |
| `MCMonitor` | 2 threads (symmetric), 1 fault, 10 ticks; backoffs of 1 and 2, retention of 3 | `OneLateFailure`, `RecoversInTime`, `SweptOnTime`, `BaselineIsNearest` |

Bounds. A pipeline of depth 3 drains inside a batch of six commands both ahead of the mark and
behind it, and two batches are what a leftover of the first needs to reach the second; the proofs
remove the bound. A queue of two with two threads on either side fills up and runs empty, and has
every combination of sleepers and wakers; for safety the proofs remove this bound too. Three files
fill a pool of two and the feeder's hand, so that the feeder blocks; two starts put one kill or stop
at every step of a run and a complete recovery behind it. Three starts, two batches and a late
transaction of each are what it takes for a mark to be set back and for the later batch to be read
again behind it; two readers let one file land late while another is read. A message is redelivered
while its batch is still on its way to the sink with one consumer already, whose connection died
under it; that two consumers count it at the same time is left to the theorems, which hold for any
number of them. One refused message takes a slot of the window and leaves three; the window is twice
the batch in every instance, as in the code. Six subscribers are the fewest on which both bounds of a path search
end some search, and a detour of three hops exists beside a path of two. The three batches of
`MCReports` hold each type of record, a subscriber who calls itself, an IMSI without an operator, a
record without a subscriber and one without a second party; two threads are what it takes for a
later batch to land before an earlier one; a page size of 1 gives every listing of two
a second page, and a width of 16 lets every offset and limit be tried, those that wrap and those that
Redis refuses included. In `MCMonitor` a backoff
doubles once and is then capped, ten ticks hold an outage, the longest way back from it and two
sweeps, and two threads can be met in either order; a fault is an outage of Redis or of the gateway, a
restart of the backend, or an append or a sweep that fails. Every action of the
next-state relations fires in some passing run.

Fairness. `ThreadPool`: each thread gets the mutex in the end (the mutex does not starve), a task
returns, a destructor that began goes on; nothing makes a thread submit, wake unasked or destroy.
`FileIngest`: the feeder, each worker and the stopping thread go on (what was given up need never
land), and a process that is down is
started again, which is what "picks work back up after a crash" (`docs/DL_Design.md:190`) presumes;
deliveries, stops and kills are not fair. The last start is not stopped or killed (`MaxStarts`), so
that `Settles` asks for a run long enough to work in. `RabbitIngest`: the broker dispatches and
reads acks, a thread goes on, a stopped ingestor is started again, and a connect that is tried again
and again succeeds (strong fairness: the attempts that fail in between disable it); stopping,
killing and losing a connection are not fair. A file whose event the kernel dropped settles only
once a start follows, which `Settles` says (`Overlooked`). `RedisStore` and `Reports` state no
liveness; nor does `PathSearch`, whose loops are bounded by its two limits. `Monitor` has its
deadlines in its clock instead: a poll or an append takes a tick at most (the request timeout and
the interval are 5 s each), and nobody sleeps longer than asked.

## 4. Findings

1. `AllOrNothing`: commands refused for want of a connection (`src/store/redis_store.cpp:31`) or
   lost when it breaks under `drain()` in mid-batch (`:177`) are the head of the batch; the tail is
   committed alone, against `docs/HL_Design.md:149-150`. What does hold is `BatchLedger`: at most
   one landing per batch, of everything from some command on.
2. `OneReader` with two processes: the startup sweep of the process directory takes files another
   process is reading (`src/ingest/dir_watcher.cpp:56`), against `docs/DL_Design.md:186` and
   `docs/HL_Design.md:99`.
3. `Settles` with as many refused messages as the prefetch window holds: batches of refused messages
   only are never acked (`src/ingest/rabbit_ingestor.cpp:119`), and the broker sends nothing more,
   against `docs/DL_Design.md:105`.
4. `CountedAtMostOnce` with the fault `late`: a transaction whose reply was lost, or that was in
   flight at a kill, is applied after the restarted process has been told where to resume, and its
   batch is counted twice; or it lands behind the next batch and sets the mark back
   (`src/store/redis_store.cpp:175`), against `docs/HL_Design.md:171` and `docs/DL_Design.md:132-133`.
   What does hold is `RecountsAreExcused`, and `CountedAtMostOnce` itself of a store that does none of
   this (`KilledCountsOnce`).

More follow from the modules and have no run of their own:

- `CountedAtMostOnce` fails with the fault `resume`: `resume_at` answers 0 when Redis is away
  (`src/store/redis_store.cpp:109`), against `docs/DL_Design.md:132`.
- `AckedIsCounted` fails with `StoreFails`: the ack does not wait for the records to be safe
  (`src/ingest/rabbit_ingestor.cpp:124`), against `docs/DL_Design.md:107`.
- Errors inside the reply of EXEC are not looked at (`src/store/redis_store.cpp:181`, the `failed`
  of `DrainExec`), against `docs/DL_Design.md:315`: "so a rejected increment is not read as a
  write".
- `max_visited` bounds the subscribers a search discovers, not those it reads: two reads suffice to
  give up between neighbours of a hub (`src/query/services/path_service.cpp:71`), against
  `README.md:216`.
- The tail of finding 1 may hold counters without their mark (`unmarked` of `FileIngest`); a kill
  before the next mark makes the restart count it again, against `docs/HL_Design.md:171`: finding 4
  on another way.
- A directory that cannot be listed when a process starts is passed over with a line in the log
  (`src/ingest/dir_watcher.cpp:130`, the fault `scan`): what was claimed before stays where it is,
  what was delivered before is not announced again, both until the next start.
- A pool all of whose workers run tasks that `submit()` onto the full queue waits for itself
  (`src/util/thread_pool.cpp:50`), against `docs/DL_Design.md:614`. `FileIngestor` never nests; the
  nested task of `MCThreadPool` has a second worker to make room for it.
- A stop lets the batch in progress be read out, counted and acked
  (`src/ingest/rabbit_ingestor.cpp:112`), where `docs/DL_Design.md:110` says it is left unacked. The
  code is on the safe side here.
- Files whose events the kernel dropped wait in the ready directory for the next start: the overflow
  event has no name and is passed over (`src/ingest/dir_watcher.cpp:180`).
- The page size of the browser's settings has no upper end (`ui/web/src/screens/Settings.tsx`), the
  limit of a request has (`kTopLimitMax`, the `Cap` of `Paging`): with a larger page size the
  `Pager` steps over what the answer left out. `StillWalkIsExact` and `WalkMissesNoStayer` are therefore
  proved from `PageSize <= Cap`, and false without it.
- `limit=0` answers everything, where `README.md:252` says limits are capped.
- A board asked for at an offset of 2^63 or more answers 503, since Redis refuses the rank
  (`src/query/redis_query.cpp:155`); `page()` answers such an offset with an empty page.
- A batch that lands between the size of a board and its page may end a reader's walk one page early
  (the `split` of `WalkMissesNoStayer`).
- A thread of the gateway that slept through an outage fails its first read after it, so that polls
  fail and rows are missing though Redis is up (`OneLateFailure` bounds it), against
  `docs/DL_Design.md:730`: "only a gap means failure".
- An append or a sweep that raises ends the sampling task until the backend is started again
  (`ui/api/sampler.py:82`, `AppendFails`; `:92`, `SweepFails`).
- `_downsample` (`ui/api/db.py:155`) rounds a floating point step, and for some lengths (603, 609)
  ends one point short of the newest. Found by reading; the function is not modelled.
- A subscriber whose calls all lasted 0 seconds is listed among the peers of others, while its own
  page answers 404 (`Msisdn` of `Reports`): increments of zero are not written.

## 5. Proofs

`RedisStoreProofs` proves, for all values of `NTotals > 0`, `NRanks`, `NCounters`, `Depth > 1` and
`MaxBatches` (`SizeAssumption`, `DepthAssumption`), that every behaviour satisfies `TypeOK`,
`Aligned`, `AtMostOnce`, `ProgressIsBacked` and `SuccessIsLanded`, and implements `BatchLedger`.

The argument is one inductive invariant, `IInv`: the five properties strengthened by three parts.
`TxnShape`: the open transaction is exactly what the batch issued from some command on (a chunk), and
from the first one as long as no call has failed. `Room`: how full the pipeline is where the next
command is queued, so that the mark and the EXEC, which queue without draining, still fit.
`Transactions`: every transaction the server applied or may still apply late is a tail of its batch,
belongs to a batch that was given up or finished, and no batch has two of them. `AtMostOnce` follows
from the last part; `ProgressIsBacked` from the tail shape, since a tail that holds the mark holds all
behind it; `SuccessIsLanded` from "`ok` means the chunk starts at the first command". There is one
lemma per action. The refinement maps the steps that apply a transaction to `Land` of the abstract
ledger and every other step to a stutter.

`ThreadPoolProofs` proves, for any finite sets of producers and workers (at least one), any tasks and
nesting, and any capacity above 0 (`PoolAssumption`), that every behaviour satisfies `TypeOK`,
`DrainedWhenClosed`, `WorkersWake` and `SubmittersWake`, and implements the safety half of `TaskPool`.

Its invariant, `IInv`, is `TypeOK` with three parts. `Roles`: what a thread is doing tells what it
has in hand, so that nobody pops over a task it still runs. `Stages`: once the flag is up no
producer is inside `submit()`, and a worker has left only over an empty queue that nobody can fill
again; this is what `DrainedWhenClosed` and the step to "closed" of the refinement need. `OnePlace`:
a task is new, on its way in, queued, running or done, and only one of these, so that none is
accepted or run twice. The refinement also counts: while a worker has nothing in hand fewer tasks
run than there are workers (`SpareWorker`). The wakeup properties are inductive on top of `IInv`:
each step moves at most two threads, and lemmas say how the number of threads at a place changes
when one of them moves (`Arrives`, `Leaves`, `Stays`, `OneWakes`).

`FileIngestProofs` proves, for any finite set of readers and any processes, files, batches and starts
(`IngestAssumption`), five properties; what each asks of the environment stands in its statement.

- `FileTypeCorrect` and `NothingIsSkipped` hold whatever fails and however many processes work over
  the same directories. `TypeOK` needs `Carrying`: whoever is about to use a file has one.
  `NothingSkipped` needs that a worker has handled every batch in front of its position
  (`BehindWorkers`), and the store every batch in front of one that may still land (`BehindLate`),
  whence what is behind the mark (`BehindTheMark`) and what is in a done file (`AllOfDone`) is counted
  or was refused.
- `NothingHalfProcessed` asks that renames do not fail. A process that left has no task and no busy
  worker (`Gone`), what it has in hand it has claimed, and what it began is done, failed or still in
  somebody's hand (`HasClaimed`, `BegunStays`). One lemma (`Gains`) says that a file comes into a
  hand only out of the process directory, which carries this part.
- `RecountsExcused` asks for one process (`Alone`) and nothing else: every fault may happen. Each file
  is in one place of its process at most (`OneEach`) and then in the process directory
  (`HasProcess`). A batch is `Spare` when it was counted no more often than excused; those ahead of the
  mark are (`Within`), and those a reading worker has before it (`Ahead`), so that it may count one
  more. A mark that is set back, or not seen, makes a worker read batches behind it: they have been
  excused by as much. `KilledCountsOnce` is its corollary: without `late`, `unmarked` and `resume`
  nothing is ever excused (`NoExcuse`), hence `CountedAtMostOnce`.
- `NothingIsForgotten` asks for one process, renames that do not fail and directories that can be
  listed; events may be dropped. It is the converse of `OneEach`: what is in the process directory is in a hand (`HasAll`), and what
  waits in ready is on its way to a sweep or has been announced (`Hears`), which needs to know how
  far the constructor is and that the feeder only ends after the flag (`Hands`, `FlaggedStops`).

`RabbitIngestProofs` proves `TypeOK` and `OncePerDrop` for any finite set of consumers, any messages
and batch size (`RabbitAssumption`), and `AckedIsCounted` where no write to the store fails. `IInv`
is `TypeOK` with three parts. `OnePlace`: the broker has a message in the queue, dropped, or unacked
on one open channel. `Reading`: what a thread has read and not acked is refused, in its batch, about
to be acked, or gone with the connection. `Budget`: how often a message was counted, plus the
threads that may still count it, plus one if it is queued, is at most one more than the connections
lost (`Paid`). A lost connection is what requeues a message while somebody still holds it, and pays
for it. `AckedIsCounted` adds `AcksAreSafe`: whatever the client acked, or is about to, is counted
or refused.

`PathSearchProofs` proves `TypeOK`, `PathIsPath`, `NoneMeansNone`, `NoDetour` and `FullBudget` for any
finite set of subscribers, every graph, however it grows, and any two bounds (`PathAssumption`). Of
`IInv`, `Trails` says that the trail of a subscriber leads to it from its side over links that are
there and past nobody twice, within what its side has seen. The two sides have seen nobody in common
while the search runs, so that two trails that meet join to a path (`WalkLeads`). `Budget` counts the
rounds of either side, which add up to `hop` and bound the trails, hence the path.

That none is missed is `LInv`, on top. `Closed`: who was seen and is not waiting to be expanded has
had all its links followed that were there when the search began. `Complete`: there is a split of
`hop` into rounds of the one side and of the other such that each side has seen everybody within as
many links as it made rounds, the round under way, whose frontier is partly read, taken apart
(`Levels`). A way between the parties of at most `hop` links would be cut by this split at somebody
both sides have seen, and they share nobody: so it is longer, which is `NoneMeansNone` and `NoDetour`
at once. `Counted`: `visited` is the size of what both have seen, less the parties, from which
`FullBudget` follows. For the induction over the length of a way `Within` says it with a chain of
subscribers rather than by recursion.

`AggregateProofs` proves of every batch what the switches of the code add up to. A sum is read as the
size of a heap of as many elements as the numbers say (`SumOf`), since the library has theorems about
the size of sets and none about folds; `FoldIsSum` shows that the fold of the model computes it,
`HeldIn` is what a delta holds in a set of cells and `AddedTo` what a sequence of commands adds to
them. With these the proofs go from a record to a batch: what one record adds to a group of cells is
found by its type (`UnitsAreCovered`), and the sums of numbers that are pairwise equal or no greater
are so, too (`BatchIsCovered`, `BatchIsCounted`, `BatchMirrors`, `BatchLinksTwice`).
`BehindKeepsBoards` is about torn batches: `Commands` is totals, boards, counters (`Parts`), so that
each end of it which holds a score holds all counters the score is made of. Induction is over sets
of numbers that a lemma takes as a parameter, which does not need the induction theorems.

`ReportsProofs` begins with `Paging`, for any listing and any width over twice the cap
(`WidthAssumption`, `LimitAssumption`): where Redis serves the ranks at all, ZREVRANGE cuts a board as
`page()` would (`RedisCutsLikePage`); each `next` of the `Pager` goes on exactly where the page ends
(`NextPageContinues`), and on the last page nothing is left out (`LastPageCompletes`). Then it proves
all six properties of `MCReports` for any batches of any records, any number of threads and of torn
batches, any listings and page sizes (`ReportsAssumption`). `NamesAssumption` says that subscribers,
operators and a page are few against 2^63. The invariants are one per question, on top of two that
all share:

- `StoreInv`: the store holds cells of those who occur in the batches, none of them zero.
  `ReaderInv`: no offset and no size of a walk exceeds their number, so that no walk comes near the
  end of the numbers. `RedisPages` follows from the two and `RedisCutsLikePage`.
- `LogInv`, per total: what the store holds and what the merged batches will still bring (`Pending`)
  are at most what was merged, and just that as long as no batch was lost or torn. A landing moves its
  batch's part from the one to the other.
- `BoardInv`, per board and member: the score is at most the sum of its counters, and that sum as
  long as no batch was torn; `BehindKeepsBoards` is its step.
- `BalanceInv`: without torn batches the store is `Balanced`, the equations and inequalities of
  `ReportsAddUp` between groups of cells. Each is kept when a batch lands because a batch has it
  (`AggregateProofs`) and they are linear.
- `StillInv`: what was shown of a listing that nobody stirred is its beginning up to the offset, which
  is a multiple of the page size (`Exact`).
- `WalkInv`: who was listed at the start, did not grow since and was not shown is due: its rank is not
  in front of the page that is asked for next, and while a page is shown, `next` is not dead (`Kept`,
  `Due`). Who does not grow only moves back, since nothing ever shrinks; the list the ranks are taken
  in is the set of the listed in its order (`InOrderLists`).

`MonitorProofs` proves, for any finite set of threads, any backoffs, intervals and retention, and
any number of faults (`MonitorAssumption`), `TypeOK`, `OneLateFailure`, `RecoversInTime`,
`SweptOnTime` and `BaselineIsNearest`. Of `IInv`, `Backoffs` bounds every `next_try`: once Redis is not down, by `MaxDelay`
after `calm`, so that no thread still waits when all of it has passed. `FoundOut`: a thread that
failed late has dropped its old connection, so that it cannot fail late again. `OnTime` says how
long ago the last sweep may be at each point of the task, and `Kept` that it left what it had to.
`Behind` is the argument for recovery: as long as no row has been added since `SteadySince`, the
time gone by is paid for by the threads found out (`Lost`, an interval and a tick for each), since a
poll that fails has found out one more (`LostGrows`). `BaselineIsNearest` is in two parts: what the two
selects return is in order, complete from `Reach` on and has at most one row in front (`Window`), of
which the walk of `series()` picks the nearest (`BaselinesAreNear`); and what moves between the selects
is harmless, because a row that is appended is too new to be in front of a window, and a sweep takes
rows from below (`RatesHaveTheirBaseline`).

Every safety property a run checks is proved, and each action property with them. Only model-checked
are the liveness properties (`CallsReturn`, `Settles`, `StopReturns`, and `KeepsPromise`, the liveness
half of `KeepsSafePromise`), which are beyond the prover, as is ENABLED, and the findings, which are
counterexamples; `CountedAtMostOnce` is one of these, proved only under the assumptions of
`KilledCountsOnce`. No
module declares a RECURSIVE operator.

## 6. Not modelled, and the plan

Work that is left, in order:

1. Files that are delivered again under a name in use (`src/ingest/dir_watcher.cpp:109`), which
   needs a generation of records per name in `FileIngest`.
2. A connection whose peer vanished without closing it (`src/source/rabbit_conn.cpp:102` asks for no
   heartbeat): a broken link in `RabbitIngest` that no read notices.
3. `CsvParser` over bounded texts: a date whose numbers only begin with digits is taken, and the
   31st of February is one of March (`src/parser/csv_parser.cpp:68`).
4. A proof that the landings of `Reports`, and of `FileIngest`, are those `BatchLedger` promises; today
   the modules are composed by reading (section 2).

Left out for good: `Config`, `Logger` and the factories are read once or only write; `Json`, the
text of `HttpGateway` and the web screens render; the proxy of `ui/api` passes requests through; the
generator is a source of test data, and its delivery by rename is `Deliver`. Of the modelled parts
the following is abstracted: key, field and file names, record contents, the header and the lines of
a file (readable or not), log output, records out of sequence within a file, the 64 bit width of
sums, the values of a sample's row, the thinning of a series, and the tearing of a snapshot taken
while threads merge, which the program does not do: `RunTotals::merge` adds one relaxed counter after
the other, `Merge` of `Reports` adds them in one step, and `snapshot()` is read when the threads have
been joined.
