# A verification project for go-distributed-task-engine

The program is a single-process ETL job server: an HTTP API creates jobs, a
dispatcher puts them in a three-tier priority queue, a pool of goroutines takes
them out and runs an executor on each, and the executors read and write datasets
held in memory. This directory holds TLA+ models of its concurrent core and of
its executors, the TLC configurations that check them on small instances, and
proofs, checked by TLAPS, of what they guarantee on instances of any size.

Line numbers below are those of the files in `src/`; `PROJECT.json` maps every
definition to the lines it models.

## 1. Inventory

| Component | State it keeps | Operations | Hard because | Correct when |
|---|---|---|---|---|
| Priority queue (`internal/queue`, `models/priority.go`) | three heaps with a lock each, an atomic byte counter, a buffered channel of tokens | Enqueue, Dequeue, Notify | no lock spans a call: check, push, count and send are separate, so are the scans of the tiers and the subtraction | no item is stranded, a token always finds a job, the order survives concurrency |
| Dispatcher (`internal/dispatcher`) | a ticker, token buckets (off by default) | Dispatch from the handlers, pollPendingJobs | writes `queued` after Enqueue, when a worker may have the job already; the poll acts on a list that may be old | every ready pending job gets dispatched; a dependency is completed first |
| Job store (`internal/store/memory.go`, `models/job.go`) | a map of shared `*Job` behind a read-write lock | Create, Get, UpdateStatus, UpdateProgress, List, Delete | hands out pointers; UpdateStatus overwrites whatever it finds | a status says what is true of the job |
| Worker, one job (`worker/pool.go` processJob) | the job at hand | check cancelled, mark running, execute, retry or finish | no compare-and-set on the status; RetryCount without a lock | a running job has a worker; retries are bounded; cancelled jobs stay cancelled |
| Worker pool (`worker/pool.go` New, Start, Scale, Stop) | a map of workers with a context each, the wanted number, a wait group | Start, Scale, Stop, runWorker | Scale while jobs run and during Stop; a `select` that picks at random | no goroutine leaks, Stop returns after the last job |
| Cancel handler (`api/handlers/job.go`) | none | CancelJob | reads the status, then overwrites it | an acknowledged cancel is not lost silently |
| Clean executor (`executor/etl_clean.go`) | the dataset it works on, counters | one run in chunks | rows shared by reference, cancellation between chunks, retry on what is left | the result is the surviving rows, cleaned; the source of a copy is untouched |
| Column analyzer (`analyzer/column.go`) and the rules it recommends | none | analyse a column; the executor applies the rules | one test for missing values and types when rules are recommended, another when they are applied | one cleaning does what was recommended and spares what was right |
| Deduplication executor (`executor/etl_deduplicate.go`) | a set of eliminated rows, counters, groups | exactDedup, fuzzyDedup | rows are eliminated while they are compared; similarity is not transitive | rows are kept or represented, no similar pair is kept, counts are right |
| Normalization executor (`executor/etl_normalize.go`) | the main table, the tables it derives | rules, 1NF, 2NF, 3NF, store | detects dependencies in data that it goes on changing | decomposition loses nothing, identifiers find their row |
| Import executor, upload handler (`executor/etl_import.go`, `handlers/upload.go`) | the dataset being filled, counters | stream a CSV in chunks; parse one whole | cancellation half-way, bad lines, a reader that fails for ever | the dataset is the file, a failed import leaves none |
| Dataset store (`internal/dataset`) | a map of shared `*Dataset` | Put, Get, Delete, List, Clone | Get shares the rows that executors rewrite, and the Records they replace, with handlers that read them | readers see whole datasets, an analysis is that of its rows |
| Rate limiter (`api/middleware/ratelimit.go`) | a bucket per client | getBucket, allow, cleanup | a bucket can be evicted between look-up and use | no client exceeds its rate, who keeps to it is served |
| Start and shutdown (`cmd/server/main.go`) | the signal channel | stop pool, dispatcher, monitor, server | two goroutines receive from one channel | shutdown happens and in order |
| RAM monitor, validator, configuration, other handlers and middleware | - | pure computation or I/O | - | - |

They interact through three shared objects: the job store (a handler creates, the
dispatcher and the workers overwrite the status, the cancel handler too), the
queue (dispatcher puts, workers take) and the dataset store (executors write,
executors and handlers read). Scale is called by an HTTP handler, Stop by main.

## 2. The modules

| Module | Models | Checked by | Proofs |
|---|---|---|---|
| `WorkQueue` | the abstract promise of the queue: each job is handed out once, to one worker, and a wake-up ends with a job | as a property of `PriorityQueue` | `PriorityQueueProofs!Refinement` |
| `PriorityQueue` | Enqueue and Dequeue, step by step | `MCPriorityQueue` | `PriorityQueueProofs` |
| `JobEngine` | submit, dispatch, poll, processJob, retry, cancel | `MCJobEngine`, `MCJobEngineDeps`, `MCJobEngineTwice` | `JobEngineProofs` |
| `WorkerPool` | Start, Scale, the worker loop, Stop, shutdown | through `Server` | `ServerProofs` |
| `Server` | composes `WorkerPool` with main's signal channel and the keep-alive goroutine | `MCServer` | `ServerProofs!ServerRunsThePool` |
| `RateLimiter` | getBucket, allow, the cleanup | `MCRateLimiter` | `ServerProofs` |
| `DatasetStore` | the store and the jobs and exports that go row by row through what it hands out | `MCDatasetStore` | `DatasetProofs` |
| `Import` | the import executor and the upload handler | `MCImport` | `ImportProofs` |
| `Analyzer` | a column's type, statistics and recommended rules, and what the executor makes of it by these | `MCAnalyzer` | `DatasetProofs` |
| `CleanJob` | executeETLClean in chunks, and its retry | `MCCleanJob` | `CleanJobProofs` |
| `Deduplicate` | exactDedup and fuzzyDedup | `MCDeduplicate` | `DeduplicateProofs` |
| `Normalize` | the rules on cells and the normal forms | `MCNormalize` | `NormalizeProofs` |

Definitions named `Action_Something` and commented "Faulty" are not part of a
specification: each is an action or an operator with a plausible mistake, kept to
show that the properties notice it. `PROJECT.json` pairs each with the property it
breaks.

### PriorityQueue

A member of `Calls` is one call of Enqueue and the item it brings. `callState`
is how far it is: `checked` (line 194), `pushed` (210-218), `counted` (220),
`enqueued` (231). `heap` gives the items of each tier; a heap is a set, and
`Popped` is the set of items its Pop may return (equal priority and time: any).
`consumingRAM` is the atomic counter, `notify` the number of tokens in the
channel. A worker is `idle`, at the tier it scans next, or `popped`. `seen` and
`dropped` are history: what was queued when a worker woke up, and how many tokens
a full channel dropped. `Size` stands for estimateJobSize.

The refinement mapping gives the abstract queue a job's phase (new, rejected,
waiting, taken), the tokens, and the workers that spent one and still scan. A scan
of an empty tier, the RAM add and the RAM subtraction are stuttering steps.

### JobEngine

Four kinds of goroutines: the handler that creates a job and calls Dispatch (one
agent per job), the poll (agent `Poller`), the workers, the cancel handler. Each
call on the store is one step because the store's lock makes it so; between any
two of them another goroutine may act. `queue` counts copies of a job: it may be
more than one. A worker takes a job whenever there is one, which is what
`PriorityQueue` shows of tokens. `CountRetry` is `RetryCount++` without a lock: it
may add to the value compared earlier or to the present one. `ran`, `finished`
and `saw` are there for the properties and the race. Logging and progress are
left out.

### WorkerPool and Server

`registered` is the map of workers, `alive` the goroutines that have not returned,
`cancelled` those whose own context is done; every context descends from the
pool's, which Stop cancels. `Remove` picks any workers, as ranging over a map
does, busy ones included. `Take` stays enabled when the context is done: the
`select` of lines 235-240 picks at random. `Cut` is an executor that returns
`ctx.Err()`. Scale and new jobs go on while main is in Stop, since the HTTP server
is shut down last (main.go:171-186).

In `WorkerPool` the pool may be stopped at any time. `Server` says when: main has
received from the channel `done`, which holds one signal and which the keep-alive
goroutine receives from as well (main.go:156-160). `signals` counts what the
channel took; what comes while it is full is dropped.

### RateLimiter

Time goes by in ticks, `Minute` of them to the minute, and a token is worth
`Minute` units, so that a tick refills `RequestsPerMin` units and no fractions
come up. Buckets are named by the request that made them, which tells an evicted
bucket from the one in the map. A request is looked up under the read lock, makes
a bucket under the write lock after looking again, and is answered under the
bucket's own lock, when its bucket may no longer be in the map. The cleanup holds
the write lock throughout (`sweeping` is what it has not visited) but answers go
on meanwhile. `steady` and `strays` (history) count what a client got from buckets
in the map and from evicted ones.

### DatasetStore

A dataset is named by the job that makes it, or by its id if it was there before;
of a row only the set of jobs that wrote it is kept, which is what tells states of
a row apart. Records, a slice of maps, is three things that are written apart from
each other: `records` says which array the slice points to, `arrays` which rows are
in it, `rows` what is in the maps. `taken` is the array that a job or an export
took when it began to go through Records: a `range` evaluates Records once, so it goes
on in that array when Records is replaced.

A job imports (`ReadRow`), clones and cleans (`CloneRow`, `RewriteRow`), or cleans or
deduplicates in place. A cleaning deletes columns from every row and replaces Columns
(`DropColumns`, `ReplaceColumns`); chunk by chunk it rewrites rows and copies the
survivors back into the array Records point to by then (`CopyBack`); if it dropped any,
it makes a new array of the first ones (`EndRewrite`), and that becomes Records
(`ReplaceRecords`). A deduplication goes through all rows (`CompareRow`), picks one of
each group (`EndCompare`; which ones is left open, `Deduplicate` models it) or keeps
all when its context is done, and replaces Records too. Then the dataset is stored,
analysed row by row and stored once more (reanalyze.go). An export gets a dataset,
takes Records and writes row by row.

Whoever's turn it is to go to a row has that row's map in its hands, and who takes or
replaces Records is at the header; when two are in one place and one writes (`Race`),
the runtime may end the process (`Crash`). Otherwise a row is read as it was before or
after. A header is three words and is not written at once: an export may take the
new length with the old array (`RangeTorn`). A job that looks a row up by its number in
Records that another has shortened meanwhile panics, and no worker recovers (`Panic`).
`opened`, `contested` and `unfit` are history and make the conditions of the
properties: the rows an export took, until a job writes in them; a job that had
another on its id beside it or after it; a dataset left by such a job or by a
cancelled one.

### Import

A file is a sequence of lines, each a sequence of cells or `Bad`, one the CSV
reader reports an error for. An endless reader fails at every read after the last
line. The executor takes the header, skips lines, and reads a line at a time,
looking at its context before each; records go to a chunk and full chunks to the
records. Of two columns mapped to one name either may win, row by row, because the
mapping is iterated over as a map. The upload handler parses all of the file or
stores nothing.

### Analyzer

A cell is an atom: what the regular expressions, the parsers and the string
functions say of it is given by constants (`Matches`, `Parses`, `Does`, ...).
`Analyze` infers the type by the thresholds of the code (85% and so on) and
collects the recommended rules; a client applies them as they are. The executor
takes mode, mean and categories from the column before it applies any rule, then
goes from row to row (`NextRow`) and applies the rules to each in their order
(`ApplyRule`): `row` and `turn` are the two loops of lines 308 and 311. Ties
between modes, and between the categories an outlier may join, fall either way.
`Reanalyze` infers the type again.

### CleanJob

A dataset holds references to rows, and `heap` gives the rows' cells, because that
is where the hazards are: a chunk's survivors are copied over the start of the
chunk as references, and a run in place changes rows that the store and the next
attempt share. `Rewrite` is one function on cell values for all the operations
that look at one value only; it may empty a value, so the order of the rules
matters. Of missing cells there are two kinds, as the code has two lists: `Nulls`
is what isNullValue (lines 60-62) takes for missing, `Blanks` what drop_empty_columns
(line 122) does; "-", "?" and "missing" are in the first only. A `fill_value` may be
one of them, too, and is then written as it is: only an empty one counts as not
given (lines 394, 413). `Sweep` is the inner loop over the records of a chunk, `After` the one
over the rules. `modes` is chosen among the most frequent values of a column, any of
them, because the code ranges over a map. `Retry` is the worker setting a failed
job back to pending.

### Deduplicate

A row is its position, its match key (a number in the keys' order) and how many
cells it has filled. Which keys are similar is a constant relation, reflexive and
symmetric and not transitive, as a Levenshtein threshold gives. Exact matching is
one step, since nothing can come between but the cancellation (`GiveUp`); fuzzy
matching goes comparison by comparison, because what is eliminated on the way
decides what is compared next. The sort is unstable, so rows of one key come in
any order.

### Normalize

`pc` is the phase; the executor never looks at its context, so that it only ends.
A cell is a text or a number as FormatFloat writes it, NaN and the infinite ones
included, as ParseFloat reads these too (line 183). What string functions make of a
text is given by constants (`Lower`, `Atoms`, `Rewrite`, `Sanitize`), and so is the
number ParseFloat reads it as (`ReadAs`: "$5", "nan"). `Extremes` is the loop that
takes the first number for least and greatest and compares the others with it, which
a NaN survives; `Minus` and `Over` follow floating point where a result is NaN or
infinite. The key and the categories are any columns: nothing checks that the key is
one, that its values differ, or that a category is not called `..._id`; `Named` are the
names the look-up of `IdOf` is given for. The rules on cells go one by
one, with statistics and canonical forms taken from the columns before the first.
1NF splits one column after another. `Extract` moves a determinant and what
depends on it to a table of its own: in 2NF for the categories the job names, in
3NF for the dependencies found in the main table, which are extracted one by one
after the search. `stored` is keyed by the last part of the table's name, as
Sanitize makes it, so that two tables may overwrite each other.

## 3. Runs

| Run | Instance | Shows |
|---|---|---|
| `MCPriorityQueue` | 4 calls (two HIGH of one priority, MEDIUM, LOW), 2 at a time, 2 workers, 2 tokens | `TokenLedger`, `NeverEmptyHanded`, `RamOvershootBounded`, `NoOvertakingSinceWakeup`, `ImplementsWorkQueue`, and under fairness `TakenUnlessDropped` |
| `MCJobEngine` | 1 job, 2 workers, 2 retries, refusals, a cancel | `RunningHasWorker`, `QueuedIsServed`, `RetryOvershootBounded`, `SettledStays` |
| `MCJobEngineDeps` | 2 jobs, one depending on the other, 1 worker, a cancel of the second | `DependencyRespected`, and under fairness `SafetyNet` and `EveryJobRuns` |
| `MCServer` | 1 to 2 workers, 4 ever spawned, 2 jobs, 9 workers asked for, 2 signals | `WorkersAccounted`, `StopWaits`, and under fairness `ShrinkCompletes`, `SignalsEndTheServer` |
| `MCRateLimiter` | 1 client, 5 requests, 2 a minute, a burst configured below that, 3 ticks to the minute, eviction after 1 minute, 2 minutes | `ClientWithinRate`, `RefusedOnlyOverRate` |
| `MCDatasetStore` | 2 jobs of any kind on 2 ids, one of them loaded, 1 export at a time, 2 rows in a chunk | `OnlyInPlaceRaces`, `ExportsAreWhole`, `AnalysisFits`, `FinishedStands` |
| `MCImport` | every file of up to 4 lines, some bad, endless or not; header or none, 0 or 1 line to skip, row limit none or 2, chunks of 2, columns given or read, mappings that rename, swap and merge; the same files uploaded | `StoredIsTheFile`, `ColumnsMatchRows`, and under fairness `ImportEnds` |
| `MCAnalyzer` | columns of 7 cells for six families of types, categorical ones of 10 | `FilledAfterCleaning`, `MismatchesGone`, `OutliersJoinCategories` |
| `MCCleanJob` | up to 4 rows in chunks of 2, 7 lists of rules, 2 attempts, copy or in place, fill values and cells that are null texts | `SourceUntouched`, `CleanedUpToLastChunk`, `FilledAfterRetries`, `FilledAlike` |
| `MCDeduplicate` | 4 rows, 3 keys, every assignment of keys and filled cells, window 3, both strategies, all keep strategies | `NoSimilarPairKept`, `Represented`, `FirstIsExact` |
| `MCNormalize` | tables of 3 rows (2 for 1NF) with every content over small cells, infinite and NaN ones included, in thirteen settings of rules, forms, keys and categories, some of them called `..._id` | `LoneRulesReachTheirGoal`, `CombinationsKept`, `NothingLost`, `ForeignKeysResolve` |
| `MCJobEngineTwice` (expected to fail) | 1 job, 2 workers | pool.go:22 says that a worker "Locks the job". The poll lists a job as pending before its handler has enqueued it; handler and poll then both enqueue it, and two workers run it: `SingleExecution` is violated |

Each property states its conditions in its definition, and each condition is
there because the code needs it: section 5 says what happens without.

### Why the bounds are enough

- *PriorityQueue*: two HIGH items of one priority are needed for first-come order,
  one item of each other tier for a scan that passes a tier while it is refilled,
  two callers for the RAM race, two workers for scans that race each other, and a
  channel smaller than the number of items so that tokens are dropped.
  `MaxCallers` bounds how many calls overlap.
- *JobEngine*: a job can be in the queue more than once, since its handler and each
  poll may enqueue it while it is pending; two workers and the three writers of
  its status suffice for every pair of racing writes, and two retries for a count
  that is exceeded. Dependencies concern pairs of jobs. `Cancellable` bounds who is
  cancelled. In `MCJobEngineDeps` the page of the poll holds both jobs; `SafetyNet`
  and `EveryJobRuns` need that (section 5).
- *Server*: shrinking needs two workers, replacing them two more (`MaxSpawns`),
  and a job that waits while another runs needs two jobs. Two signals are as many
  as the keep-alive goroutine and main can take.
- *RateLimiter*: buckets do not interact, so one client is enough; a client uses
  its burst of two, is refused, is refilled, and has its bucket evicted and made
  anew while another request still holds the old one. `ClientWithinRate` needs
  that a bucket is full when it is evicted: Capacity <= RequestsPerMin * Idle. In
  the code that is a burst of at most five times the rate (line 120 evicts after
  five minutes); the instance has a burst equal to the rate and evicts after one.
- *DatasetStore*: every hazard is one of two goroutines, of which at least one is a
  job, so `MaxBusy` lets two of the two jobs and the export have a dataset in hand at
  a time, the third before or after; two ids give a clone a target that is or is not
  its source; with two rows one may stay and the other go, or move to the front. The jobs may be exchanged, and
  every property speaks of all of them alike, so the symmetry is sound. What takes
  several chunks is in `CleanJob`, and the proofs are for any rows and chunks.
- *Import*: four lines hold a header, a skipped line, and two rows, or three rows
  and thus a full and a partial chunk; bad lines come anywhere.
- *Analyzer*: of seven cells one may miss a pattern at 85%; of ten, three values
  make a category at 30%, with a rare one beside a frequent one. The cells of each
  family are chosen where the analyzer's tests and the executor's disagree: " 7",
  "?", "5.", "1e5", "12kg".
- *CleanJob*: two chunks with a full and a partial last one, a mode that is unique
  (needs three filled rows and a hole), two attempts, an empty cell and one that only
  one of the two tests takes for empty.
- *Deduplicate*: four rows let a row lose after it has won, a chain of three losses
  exist, and the window end before the last row.
- *Normalize*: the largest number is 4 beside 0, 2 and 5, so that a difference can
  overflow; a NaN may come first or later. Keys differ or repeat. Three rows are needed for a dependency that holds on two and not on
  the third. The thresholds of the code, 5% of the rows to split a column and 80%
  distinct values to take it for unique, cannot be told apart on three rows, so
  `SplitPercent` and `UniquePercent` are 60 and 100 there: one multi-valued row may
  be too few, and a column is unique when all its values differ.

### Deadlock

It is not checked where the system comes to rest: every call has returned and
every worker waits (`PriorityQueue`), the process has ended (`Server`), the
bounds on time and requests are used up (`RateLimiter`), the jobs are done (all
executors and `DatasetStore`). In `JobEngine` the poll never stops, and deadlock is
checked.

### Fairness

Weak fairness of: a call inside Enqueue, and a worker (it runs, or receives a token
that is there) in `PriorityQueue`; the poll's ticker, each call of Dispatch and of
the cancel handler once begun, and each worker in `JobEngine`; each worker, Stop,
main's receive and the end of the HTTP server, which has a timeout
(main.go:176-181), in `Server`; the executor and its deadline in `Import`. The Go
scheduler runs every runnable goroutine in the end, no lock is held while waiting,
and every job runs under a timeout (pool.go:285-287); that executors heed it is
assumed in the pool and shown for the import. Nothing obliges clients to submit,
cancel, scale or signal, nor the keep-alive goroutine to come back from its ping.
`ShrinkCompletes` and `SignalsEndTheServer` do not need the `select` of a worker to
be fair: the jobs are finitely many, which is the bound that makes them hold; under
an endless stream of jobs they would hold with probability one only.

## 4. Proofs

All are for any number of jobs, workers, clients, rows, rules, lines and any
capacities, under the named assumptions of the modules: sets of goroutines, jobs
and requests are finite and there is a call of the queue, capacities are natural
numbers, `NoJob` is no job, the rows of an input have the columns of its header,
cells are of the types the modules give them, `IdOf` gives different names different
identifiers and none its own, functions on strings do as
`TextAssumption` and `PatternAssumption` say, the lines of a file are a sequence.
None of them excludes an input the program accepts. The limits on spawned workers,
rows or attempts that TLC needs are constants of which nothing but that they are
natural numbers is assumed.

A property of a loop over data takes induction over it. The induction theorems of
the library take an operator, which the provers cannot instantiate; where it is
needed the proofs argue by the least counterexample instead (`LeastExists`, from
the well-foundedness of the naturals), and show in the same way that a recursive
function is what its definition says (`ReachUnfolds`, `AfterUnfolds`,
`SweepUnfolds`).

**PriorityQueueProofs.** `IndInv` is the type invariant, `Placement` (an item is in
the heap of its own tier), `TokenLedger` and `ScanLedger`. `TokenLedger` says that
items queued = tokens + scanning workers + sends to come + tokens dropped. Alone
it does not show that a worker that reaches LOW finds something there: items above
LOW could satisfy it. `ScanLedger` adds that the workers past a tier are no more
than the items below it: a push only adds items; a pop that finds its tier empty
moves one worker down, and the total, with the tier empty, leaves it an item. From
it: `TypeCorrect`, `TokensAccounted`, `WokenWorkerFindsJob`; with the tiers a worker
has passed holding nothing it had seen, `PriorityOrder`; and `Refinement`, which
needs `NeverEmptyHanded` for the step where Dequeue would return nil.
`RamBounded`: callers that are all past the comparison before any has added its
estimate pass the limit by at most the largest estimate for each of them but one.
`RamInv`: one of them, the last that compared, counted what was there, and each of
the others adds at most the largest.

**JobEngineProofs.** `TypeCorrect`; `RunningJobsHaveWorkers` (every write of a status
by another goroutine writes something else than running);
`DependenciesRespected`, from `DependencyInv`: once a dispatch has passed its check
the dependency is in `finished`, and that is never undone, although its status may
be; `QueuedJobsAreServed`, from `ServedInv`, which covers the moment between Enqueue
and the write; `RetriesBounded`: retries plus the workers between the comparison and
the increment stay within MaxRetries - 1 plus the workers; `SettledJobsStay`.

**ServerProofs**, the pool. `PoolInvariant`: `PoolInv` joins the registered, cancelled
and living workers with the jobs they hold and with the number last asked for; from
it `SizeIsDesired`, `NoWorkerLeaked` and `StopWaitsForJobs` (no worker left alive
means that none holds a job, and a running job is held). `ServerRunsThePool`: every
behaviour of the composed `Server` is one of `WorkerPool`, which carries these
results over to what `MCServer` checks.

**ServerProofs**, the rate limiter. `BucketsKeepTheRate`: tokens given out and tokens
left never exceed what a bucket was made with and what came in since it was made.
`ClientsKeepTheRate` says the same of a client, over all its buckets. It is not
inductive, since a new bucket is full: `Covered` adds that a client with no bucket
has got no more than the rate gives in all the time gone by, because the bucket
that was evicted would have been full by then; this is where the capacity has to
be refilled within the idle time. The products of constants and times that this
takes are in `RateIsLinear`. `RefusalsAreEarned` is the other direction. `NothingLost`
says, for each bucket and each earlier time t, that its tokens and those it gave
out after t make up at least what came in since t, or a full bucket; at a refusal,
with t a minute ago and less than a token left, at least `RequestsPerMin` requests
were let through since. A burst configured below the rate would break it, which is
why the code raises it.

**DatasetProofs**, the store. `Hidden`: the dataset of a job that has not stored it is in
nobody else's hands, whence `UnseenUntilStored` (only a job in place meets anyone in
a row or at a header). `Lengths`: the array a job replaces Records by is one that
nobody has, so that replacing Records changes nothing for who took them before, and
nobody runs past the end of the array he took. From these, `Undisturbed`: an export in
whose dataset nothing was written since it took Records still finds there what it
took, whence `ReadersSeeWholeDatasets`. A deduplication in place does not disturb it:
it replaces Records and writes no row. `Contention` says who is contested, and `Scanned`
that a job with its id for itself has read, of the rows it analyses, what they are;
from these `AnalysisIsUpToDate` and `NoOlderDatasetComesBack`. `crashed` is no part
of the argument: a crash only stops what goes on.

**DatasetProofs**, the column. The four properties are of the column when it is
done; `ColumnInv` says what becomes of each cell on the way. `Given(n)` are the
rules that row n has been given so far, and `Cell` relates what the cell was, what
it is, and these rules: a cell that was missing is filled as soon as its filling was
given (`FilledCell`), one that matches keeps its trimmed form at all times
(`KeptCell`), a mismatch is what it was, but for spaces, until its fix and matches
from then on (`FixedCell`), a category is kept or was rare and has become one that
is not (`JoinedCell`). `Advice` ties the rules to the column as it was loaded: that
a rule is among them says which type was inferred. `OneCleaningSuffices` then goes
the other way, from cells to the type: all cells match and there are some, or the
type had not been inferred, so the first pattern that 85% match comes no later
than the one of this type. The proofs rest on what the string functions do, named in
`TextAssumption` (trimming twice is trimming once; lower case stays; both tests for
missing values look at the trimmed cell in lower case; a date that was rewritten is
not missing) and `PatternAssumption` (patterns look at the trimmed cell and match
none that is missing; numbers and addresses have neither inner spaces nor tags, and
addresses an at sign; the number extracted from one too long to parse matches, or
there is none). TLC checks them on the cells of the instance, and the regular
expressions at column.go:149-151 and the functions named there justify them.
Two conditions came out of the attempt to prove: what can be fixed (`Fixable`) is a
matter of the trimmed cell, and the mean has to match as well as the mode
(section 5).

**ImportProofs.** `RowsHaveTheColumns`: `Framed` says of a sequence that all its
records have the names of the mapped columns, and holds of the chunk and of the
records from the first row on, whatever ties the mapping has; it is kept by
appending and by concatenation. `DatasetIsTheFile`: a run that is not cut short
stores, in order, a row for each readable line up to the limit, and nothing else.
The invariant has three parts: where in the file the reader may be (`Progress`); before
the rows, what is still to be skipped and which header was read (`SkipInv`); and from
the first row on, that the k-th record, stored or in the chunk, is the k-th readable
line (`RowsInv`). The k-th readable line is the one with k readable lines up to it,
so that no recursion over the file is needed. `ImportRunsOut` is what `ImportEnds` rests on
beside fairness: each step leaves fewer ahead (`StepsAhead` counts phases, lines and
the end of the context), except a failed read with nothing left to read, and that
is not possible once the context is done. TLC checked it too, and refutes it of a
reader that tries a bad line again.

**DeduplicateProofs.** `NoSimilarRowsKept`: every pair the two loops have passed
within the window has lost a row or is not similar; rows that are eliminated stay
so, which is why the loop may go on with a row that has lost. `FirstKeepsCount`:
with keep "first" the outer row wins every comparison, so each comparison drops one
row not dropped before, the counter is the cardinality of the dropped set, and the
capacity at line 330 is not negative; the sorted indices being without repetition
is what makes winner and loser different rows. `DroppedRowsAreRepresented`: from a row
that was dropped there is a chain of similar rows, each lost to the next, to one
that was kept. `LossInv` says that a dropped row stands in the group of a similar row
that beats it (it comes first, or has fewer missing values), and to beat is a strict
order: the rows above a row are fewer than those above one it beats, so the chain
ends after at most N steps.

**NormalizeProofs.** `DecompositionLosesNothing`. Numbers are given in the order in
which values first come, so that different values get different numbers
(`NumbersDiffer`), and an identifier finds one row, which has the value and what
depends on it (`ExtractRestores`). Nothing is needed of the key, nor of the names of
categories: the name of the new identifier must be free (section 5). In 3NF the dependencies were found in a table
from which others have been extracted since: `FoundStands` says that those still to
come have their columns in the table, that they still hold, and that no two share
a column, so that extracting one leaves the others as they were.
`FirstNormalFormKeepsCombinations`: if the names in the header differ, 1NF's split of
the cells that hold lists leaves each row's other cells as they were and has every
combination. `LoneRulesWork`: a rule on cells that stands alone reaches the goal it
is named for. `Least` and `Greatest` exist as a column has finitely many numbers that
are not NaN (`BoundsExist`), every number but NaN is between them
(`ExtremesAreBounds`), and the quotients are between 0 and 1 (`Quotient`) and reach both
(`QuotientEnds`). That takes finite extremes whose difference is finite, which the
property says (`Measured`); a NaN that does not come first stays NaN. `KeysFindTheirRows`:
every foreign key a decomposition leaves is the key of one row of the stored table of
its name, if no two tables share a name and no column had the name of an identifier; a
category may be the identifier of a table split off before, which it then moves to a
later table.

**CleanJobProofs.** `TypesHold` is the base of the others: it counts every record a run
went past as processed or skipped, so that the cut at the end stays within the
records. `CopiesSpareTheSource`: with a copy, the rows of the source are others than
those of the clone, in every attempt (`SourceInv`), and a chunk writes only the rows
its records refer to (`SweepBasics`). `FilledInTheEnd`: a row that went through all
rules has no missing value in a column the last one fills (`CleanFills`), and another
pass leaves it so; hence a row of an earlier attempt does no harm (`FillInv`). The rule's
own value must not be a null text, or be empty, since the code writes it as it is.
`FreshRunsClean`: in a fresh run a row before `start` is what the rules make of the
source's, a later one as the run found it, and `processed` is the number of survivors
so far (`FreshInv`). A survivor's place is that number only if no row was dropped
before the last chunk, as the rest of the argument shows: a chunk copies to its own
start, which is the end of what was kept only if everything before was kept.

**Model-checked only.** Everything with fairness (`TakenUnlessDropped`, `SafetyNet`,
`EveryJobRuns`, `ShrinkCompletes`, `SignalsEndTheServer`, `ImportEnds`): liveness is
beyond the prover; of the import the bound on steps is proved (`ImportRunsOut`).
`FilledAlike` is only checked: it counts the values of a column across two runs,
which is induction over data. `MatchesStay` (cells that match are only trimmed by
the recommended rules) is the other way round: it is proved (`MatchesAreKept`) and
no run checks it, as it is about each cell by itself. Every other property that a passing run checks, the invariants and the
refinements, is stated by a theorem. Of the recursions in the modules only
those named above were unfolded.

## 5. What the models say that the source does not

Beside what the failing run shows, what one may expect of the code, often because
a comment says so, and what holds only under conditions or not at all:

*Jobs and queue.*
- dispatcher.go:29-30 calls the poll "a safety net that catches any missed pending
  jobs". `SafetyNet` has two conditions without which TLC refutes it. A dispatch that has
  enqueued the job must not be about to write `queued` (dispatcher.go:168): a worker
  may run that copy first, fail, and set the job to `pending` for its retry
  (pool.go:322); the late `queued` overwrites that, no copy is in the queue, the poll
  lists pending jobs only (dispatcher.go:231), and the retry is stranded for good.
  And the page must hold every pending job: a job that waits for its dependency is
  listed again at every poll, and with enough of them of high priority a less urgent
  retry never is, even if it is what they depend on. `EveryJobRuns` is about the first
  run only.
- The same late write makes a job say `queued` that runs or is done, although job.go:19
  says of `queued` "In priority queue, waiting for worker"; and a cancel may overwrite
  `completed`, although handlers/job.go:93 says "Only allow cancellation of
  pending/queued/running jobs", as it looks first and writes afterwards.
- A completed job may say `queued`, `cancelled` or `pending` afterwards when a
  dispatch, a cancel or a second copy was under way; `SettledStays` names the
  conditions under which that cannot happen. MaxRetries may be exceeded by the
  number of workers less one.
- The RAM cap of the queue may be exceeded by what concurrent callers add, no more
  (`RamOvershootBounded`), and the counter may be negative for a moment, when an
  item is popped before its caller has counted it.
- The queue is not strictly by priority: an item pushed above while a scan is below
  is overtaken. What holds is `NoOvertakingSinceWakeup`.
- A notify channel that is full (4096) drops a token, and an item then waits until
  another token comes; `TokenLedger` counts them.
- Scale cancels the worker it removes (pool.go:179), whose job runs under that
  context, although pool.go:172 says such workers "finish current job first".
- The keep-alive goroutine may take the signal to stop and leave main waiting
  (main.go:158); `SignalsEndTheServer` needs a second one.

*Rate limiter.*
- Within the minute after its first request a client gets the burst and a minute's
  rate on top of it (ratelimit.go:28); with a burst of more than five times the
  rate, eviction gives it further bursts; and a request that holds a bucket while it
  is evicted is admitted on it without being counted in the next one.

*Datasets.*
- The store calls itself thread-safe (dataset/store.go:18), which is true of its
  map of datasets. Two jobs in place, or one and any reader, meet in the maps that
  are its rows, which Go may end the process for.
- A clean in place that copies survivors back or rewrites rows under an export makes it
  write some rows twice, leave some out, and mix old with new ones. A deduplication
  in place does not, as it replaces Records and leaves the old array as it was; but an
  export that takes Records in that moment may take the new length with the old array,
  and write the first rows of what there was.
- Two jobs in place on one dataset may end the process: one looks up a row by its number
  (reanalyze.go:28, etl_deduplicate.go:87, etl_clean.go:623) after the other has
  shortened Records.
- A job that ends after another on the same id stores what it has, be it older, and
  stores it twice, before and after its analysis (reanalyze.go:56-57).

*Cleaning.*
- Dropped rows stay and later rows are lost, unless drops happen in the last chunk
  only: etl_clean.go:624 announces an adjustment "after the loop" that the rebuild
  (623-648) does not make; if every row is dropped one stays.
- A clean in place that is cancelled after a chunk with drops has left some rows
  twice and lost others, and its retry starts from that.
- A `fill_value` that is itself a null text ("N/A", "-", "missing") is written as it is,
  and the cell stays missing: only an empty one counts as not given
  (etl_clean.go:394, 413). `FilledAfterRetries` excludes it.
- drop_empty_columns has a list of null texts of its own (etl_clean.go:122): a column of
  "-", "?" or "missing" is kept, although fill_null and drop_null take it for empty.
- With two rules that depend on each other, a retry takes modes from rows the run before
  has changed; `FilledAlike` is about one rule that fills one column.
- Types without a branch in fix_mismatched_types (dates, phones, URLs, numeric
  strings) have all their cells rewritten in lower case with underscores, those
  that match too.
- The mode that replaces a mismatch may be one itself; cells that only the executor
  takes for nulls ("?", "nan"), and mismatches it can parse ("5."), stay, with
  spaces around them or without; "1e5" in an integer column becomes "15".
- The mean that fills a column of floats is written "+Inf" or "NaN" if the sum
  overflows or a cell reads "Infinity" (etl_clean.go:67-76), and no pattern matches that.
- After cleaning, a column of integers may be one of booleans (all 0 and 1).
- A mode with spaces around it is filled in as it is, after the trim.
- Removing special characters comes after the filling and may empty cells again. It
  is also what the rule recommended for separators does, as the executor reads the
  parameter `allow` and not `pattern`.
- Merged outliers take the lower-case form of their category. A threshold of
  max(1, 1%) makes every category of one row an outlier in small columns.

*Deduplication.*
- The count called "total duplicate rows" (models/etl.go:364) counts a row of the
  outer loop that has lost and is compared on again; under keep strategies other
  than "first" it can exceed the rows there are, and the capacity at
  etl_deduplicate.go:330 be negative. `FirstIsExact` is stated for "first".
- A deduplication whose context is done ends as a success that dropped nothing.

*Normalization.*
- It never looks at its context, so a cancelled or timed-out job goes on to its end.
- If a column has the name of a new identifier (`<category>_id`), it is overwritten.
- isFunctionalDependency (etl_normalize.go:949-957) passes over empty values of the
  determinant, so what depends on an empty one may be lost; `NothingLost` has the
  condition.
- A category whose name ends in `_id` is accepted, also when it is the identifier of an
  earlier category: that identifier then moves to a look-up table where the reported
  relationships do not look for it. The key is any column, with repeated values or
  not; a category may be the key, and then moves away.
- min_max_scale reads "NaN" and "Inf" as numbers (etl_normalize.go:183). A NaN that comes
  first makes NaN of every number in the column, an infinite one makes 0 or NaN, and so do
  two numbers too far apart; `LoneRulesReachTheirGoal` has these conditions.
- Nested separators ("1;2|3") are split once, so 1NF may leave cells that are not
  atomic; 1NF repeats the primary key.
- Two rules on one column use statistics of the column as it was before both.
- Two look-up tables whose names sanitizeID makes equal overwrite each other.

*Import.*
- A file without a header imported with skip_rows = 0 has its first row taken for
  the header. With a header, skip_rows counts from after it.
- A failed or cancelled import stores nothing; its result counts as processed the
  rows read less the failed reads, which were not among them (etl_import.go:248).
- The upload refuses ragged files, so its padding of short rows is never used.
- Of columns mapped to one name, or having one, rows may keep different ones.

## 6. Not modelled

- The dispatcher's token buckets, off in DefaultConfig; UpdateProgress; Delete of a
  job, which has no caller; the filters of List other than the status; Delete and
  List of datasets; etl.pipeline jobs, which the API accepts and no executor handles.
- Data: estimateJobSize, match keys, string similarity, regular expressions,
  dates, the numbers of the analyzer's statistics and quality score, z_score,
  samples in reports. What they say of a cell or a row is a constant.
- In cleaning: a fill rate for drop_empty_columns, the median (of the mean, what it
  fills is in `Analyzer`), and an output ID equal to the source's.
- In the store: which columns a reader sees while drop_empty_columns runs (that they
  change is in `ReplaceColumns`, and an export of them counts as disturbed), and that it
  goes through the rows once for each column it drops, here once for all. What a torn
  header does to others than an export: a clone or a job in place that takes the
  longer length with the shorter array meets no row there, or ends the process, which is
  in `Crash` only. The rebuild of `EndRewrite` is one step, which only another job on the
  same dataset could tell. `RewriteRow` and `CopyBack` may write what was there, and
  count as writing. A deduplication or normalization of a copy differs from `copy` in
  what it does with rows nobody else sees, and is left to `Deduplicate` and `Normalize`.
- Dry runs of the executors, the checks of requests, configuration and its
  defaults, the RAM monitor, routes and middleware other than the rate limiter:
  none keeps state that another part acts on.
- The start of the process, whose wiring happens before anything else runs, and the
  stops of the dispatcher and of the RAM monitor, which end a goroutine each.

What is left that could be modelled is thus computation on single values, which
no interleaving or sequence touches, and the read-only parts of the API.

## 7. Running

    tlc -config MCPriorityQueue.cfg MCPriorityQueue.tla
    tlapm PriorityQueueProofs.tla
