# Poulailler: a TLA+ verification development

Poulailler is a monitoring daemon in C (`src/backend`) with a terminal client
(`src/clients/tui`) and a web page (`src/clients/web`).  The daemon polls REST
and RSS sources with a pool of threads, listens to WebSocket streams, stores
what it gets in SQLite, and serves a snapshot of the latest rows to clients
over HTTP and a Unix socket.  These modules model the daemon's threads from its
start to its end, the database they share, what is read out of a configuration
and out of the answers of the network, and the two clients.  TLC checks small
instances; TLAPS proves every safety property of the passing runs for all values
of the constants: any number of threads, sources, rows, items and lines.

## Inventory

| Component | State | Operations | Talks to |
|---|---|---|---|
| REST pool (`scheduler.c` 27-55, 253-391) | job queue `indices`/`count`/`next`, its mutex and condition variable; `rest_pending` with its own | worker loop, dispatcher loop, the stop sequence | fetchers, database, snapshot |
| Fetch schedule (`scheduler.c` 21-25, 152-250, 394-410) | `source_health_t` of each source, `force_refresh`, `running` | RSS thread, dispatcher's scan, prune thread, `sleep_interruptible`, `force_refresh` | fetchers, database, API |
| Snapshot (`scheduler.c` 66-77, 104-150, 539-557) | `entries`, `news` and their counts under a read-write lock; `last_snapshot_time` | `update_snapshot`, the two getters | database, API servers |
| Lifecycle (`scheduler.c` 412-532, `main.c`) | thread handles and counts, the signal flag | create, start, stop, destroy; start-up and shutdown order | everything |
| Database (`db.c`) | tables `data_entries`, `news_items`, `source_status`; one mutex | insert, upsert, latest rows, history, prune, migrate | scheduler, API |
| WebSocket client (`fetch_ws.c`) | `running`, `connected`, the libwebsockets context; `was_connected` and the start of the attempt | callback, service thread, connect, disconnect | database, snapshot |
| Fetchers (`fetch_rss.c`, `fetch_rest.c`, the message of `fetch_ws.c`) | the array of the caller, slot by slot | download and parse: feeds, generic prices, Binance, CoinGecko, calendar, ticker | libcurl, libxml2, cJSON |
| HTTP API (`api_http.c`) | none of its own | six routes | getters, database, refresh |
| Unix API (`api_unix.c`) | listening socket, one client at a time | commands, start, stop | getters, refresh |
| Configuration (`config.c`) | `mc_config_t` | load, defaults, caps | main |
| `start.sh` | pid file, socket file | both, daemon, tui, stop, status | daemon |
| Terminal client (`clients/tui/src`) | tab, filters, cursor, scroll, rows | key handling, fetch, draw | HTTP API |
| Web dashboard (`clients/web/index.html`) | active tab, timers, data | `loadTab`, search, detail | HTTP API |

The vendored parsers under `backend/deps` are left aside.

What makes each correct, and what is hard about it:

- *Pool.* A source is fetched by one worker; a batch is over when all of it is
  stored; nobody sleeps through a wakeup; a stop ends every thread.  Hard: two
  mutexes, two condition variables, a counter set after the jobs are visible, a
  flag and health records that no lock guards.
- *Schedule.* Every source is fetched in time, none too early, failing ones are
  left alone, a refresh refetches.  Hard: one flag, three sleepers, two loops
  that read it twice for each source.
- *Snapshot.* Clients see consistent, ever newer data, and all of it in the
  end.  Hard: a throttle that drops updates, slow updates that overlap, an
  array that fills up, failures in the middle.
- *Lifecycle.* Threads end before what they use is freed.  Hard: half-started
  pools, a restart over a daemon that is still stopping.
- *Database.* Old rows go and new ones stay, a status row tells the truth, a
  migration may be interrupted and its errors are ignored.  Hard: rows are
  stored late and out of order, a crash may come between any two statements.
- *Fetchers.* An item yields its own fields or nothing.  Hard: slots that an
  uncounted item leaves behind, an array that still holds the fetch before,
  fields that are missing, empty, given twice or of another type.
- *Configuration.* Caps, defaults that come from another section, an early
  return for a file that cannot be read.
- *WebSocket client.* A connection that is lost or never made is replaced, and a
  disconnect ends the thread whatever it is doing.  (A connection that falls
  silent is kept, and a message in several fragments, each of which is parsed
  by itself, is dropped: the code promises nothing of either.)
- *Clients.* Cursor and lists agree after any key and any refresh; a late
  answer is not drawn into another tab.

PROJECT.json lists every hazard at its line, with the properties that watch it.

## Modules

| Module | What it models |
|---|---|
| `RestBatch` | the pool's promise: open a batch, take, finish, close; no locks |
| `RestPool` | the pool: workers, dispatcher and `mc_scheduler_stop` |
| `Snapshot` | the throttle, the fill, the publication and the readers |
| `FetchSchedule` | the scans, sleeps, refresh flag, health and status rows |
| `WsConn` | the thread and the callbacks of a WebSocket, connect and disconnect |
| `Lifecycle` | extends `WsConn`: `main`, creation and joins of all threads, the two servers, `start.sh` |
| `Board` | the promise of the tables: latest price, first text and region of a story, until they are pruned |
| `Store` | the tables: migration, inserts of several threads, prune, queries, crashes |
| `Selections` | the part of a list that a loop keeps, by counting |
| `JsonValue` | JSON values and the accessors of `fetch_rest.c` |
| `RestParser`, `FeedParser` | one item of an answer, for each parser |
| `Fetchers` | extends both: a fetch as a loop over items and slots |
| `ConfigLoad` | `mc_config_load` and the start of `main` |
| `Api` | the answers of the HTTP API the clients ask for |
| `Tui` | extends `Api`: the terminal client |
| `WebDashboard` | extends `Api`: the web page |
| `Clients` | extends both: a behaviour is one of either |
| `MCRestPool`, `MCSnapshot`, `MCFetchSchedule`, `MCLifecycle`, `MCStore`, `MCFetchers`, `MCConfigLoad`, `MCClients` | constants' values for TLC |
| `MCParsers` | composes `MCFetchers` with `MCConfigLoad`, so that one run explores both |
| `RestPoolProofs`, `SnapshotProofs`, `FetchScheduleProofs`, `LifecycleProofs`, `StoreProofs`, `ClientProofs` | the theorems about the module each is named after (`Clients` for the last) |
| `ParserProofs` | the theorems about `Fetchers` and `ConfigLoad` |
| `DataLemmas` | lemmas for the proofs: induction, recursive functions, selections, lists |

Several modules meet where one component's result is another's input.  The
outcomes of a fetch in `Fetchers` (items, none, failure) are the choices of
`RestPool` and `FetchSchedule`; the versions of `Snapshot` are the rows of
`Store`; what `Snapshot` publishes is what `Api` answers from.

### RestPool

One action for each stretch of code that other threads can observe: lock, test,
wait, claim, fetch, status row, health record, decrement for a worker; lock,
each source of the scan, unlock, store of `rest_pending`, broadcast, test, wait
and publish for the dispatcher; the store to `running`, broadcast, signal and
joins for the stop.  A `pthread_cond_wait` is `WorkerSleep` (mutex given up,
thread in the wait set `ready`) and `WorkerWake` (out of the wait set, mutex
taken again); spurious wakeups are `SpuriousWake`.  `rest_done_mutex` is held
over single loads and stores only, so those are single actions; the dispatcher's
timed wait may return at any time.  `rest_queue.count` is `Len(indices)`.  The
fetch has four outcomes: rows, none, error, and no memory for a calendar.
Which sources are due is left open here (any set), and decided in
`FetchSchedule`.

### Snapshot

A category holds a version number and `RowsAt` says how many rows it has in
that version: what a client can tell apart is how new and how many.  Time is
relative (ages), so that it needs no bound but that of a stalled update,
`MaxStall`.  The clock is read before the mutex is taken, as in the code; the
buffer is filled one query at a time while the database changes; a query or a
`malloc` may fail `MaxFaults` times.

### FetchSchedule

Time in seconds.  The threads that do not sleep or wait for the network run
before the next second begins.  `napping` is the inside of `sleep(1)`: the flag
is not looked at there.  A restart or a crash forgets the health of the sources
and keeps their rows.

The RSS thread fetches a feed as soon as its scan has found it due.  The
dispatcher puts REST sources into `queued`, unlocks the queue, stores
`rest_pending` and waits; of `WorkerCount` workers each claims the first job of
the queue when it has none (`Claim`), so that a batch of n jobs goes in
ceil(n / workers) rounds (`Rounds`).  A worker that is quick may end a job
between the unlock and the store, which wipes its decrement out: the model does
it, and remembers it in `overtaken`.  The batch then never ends (the violation
`BatchFinishes`), no REST source is fetched again, and `TriedInTime` exempts the
REST sources from then on, and only then.  Otherwise a REST source that has just
missed a batch waits for that one, the sleep of the dispatcher, and the rounds of
the next: `Slack`.  How the workers sleep and are woken is `RestPool`'s.

### WsConn and Lifecycle

`WsConn` has one action for each test, call or callback of `fetch_ws.c`; several
callbacks may run in one `lws_service`, and the loop sees only the flag they
leave.  `lws_create_context`, the connect call and `lws_service` may fail at any
time.  `Lifecycle` gives every daemon one connection, and follows `main`: what
is opened, which threads are created (any subset of what `MayFail` allows is
missing), and after the signal each stop, join and free.  The thread of the Unix
server tests its flag (`UnixTest`), then selects, and then accepts without
looking at the flag again: a client may be accepted after the stop, and the join
waits for it (`UnixAccept`).  A thread of the scheduler is only "run" or "done" here; that it ends when `running` is cleared is
`StopReturns` of `RestPool`.  Joining the slot of a worker that was never created
is undefined: main dies or goes on.  The script's actions are those of
`start.sh daemon` and `start.sh stop`; its one and two seconds are lower bounds,
so that a launch waits for nothing but main's own sleep.  When a process ends
its threads and its port go, the socket file stays.

### Store and Board

An item is a price (a symbol of a source) or a story (a url); its value or text
is its *edition*, and what a source delivers is the edition of the moment.  A
fetch takes several items at one second, and stores them one at a time, between
the statements of other threads: so rows come late and out of order, also those
of one price, which a stream and a REST source of one name share.  The mutex is
held over one statement, but over both of `mc_db_prune_old`: it reads the clock
before it takes the mutex (`PruneStart`), deletes prices (`PruneEntries`) and then
stories (`PruneNews`), and may fail before either (`PruneFails`).  Rows are kept
for `PRUNE_MAX_AGE_SEC`, which is half an hour (`scheduler.c:16`).  The migration has one action for each statement, and starts from a
file of any earlier version.  A prepared statement that names a column the file
lacks fails, which is why a story cannot be stored in a file whose `ALTER TABLE`
failed for a reason of its own.

A status row of success is written whatever the inserts have returned
(`scheduler.c:226-231`), so it does not stand for rows in the tables.  The history
variables `carried` and `told` therefore hold everything a fetch has delivered,
each delivery with a mark that SQLite refused it, and `OnlyRefusedMissing` says that
nothing else is missing.  `Crash` is the end of the process at any point.

`Board` has neither rows nor threads: of a price it knows the newest second and
the values of that second (SQLite may give any of several rows of rank one), of
a story its first text and the first region that a feed with one gave it.
`BoardSpec` maps `Store` to it, crashes and failures included.

### Selections, JsonValue, RestParser, FeedParser and Fetchers

A string is what the code can tell of it: a name, empty, one that begins with
a number (`Numeral`), or one that `tolower` changes (`Folded`).  cJSON has two
ways to find a member of an object: with its case (`Member`, the accessors of the
generic parser) and without (`MemberAnyCase`, the parsers of Binance and CoinGecko).  A path is the sequence of its segments.  `NaN` is a value
of its own, as the code tests it, and the percentage is an integer division.  An
item is one value of a small grammar; `Filled` says what its parser writes into
the slot, `Counts` whether the slot is kept.  `Fetchers` is the loop: a slot that is
not counted is given to the next item, and is cleared before, in an array that
holds an earlier fetch (`Stale`).  A feed's node is a sequence of children with
name, text and href; a document says whether its root declares a namespace, as
`//entry` then finds nothing.  The children are read one after the other by
`After`, a recursive function of their number.

What a loop keeps of a list is `Passing`, and of its positions `Picked`: the
element with so many chosen ones before it, as the loops of `ui.c` and
`config.c` count.  That is what `SelectSeq` gives, which the provers know
nothing of.  The guards of a `CASE` exclude each other: of two that hold TLA+
may take either, TLC takes the first, and only that would be the code's.

### ConfigLoad

One action for each section, in the order of the file's reading, as the default
interval of a source is what `[general]` has set by then.  A key is the
sequence of its value, empty if it is missing, so that an explicit -1 is not taken
for a missing key.  A number of the file has 64 bits; `Narrow` is the cast to
int, in the run to one of 8 bits (`IntMax = 127`).  A list of tabs may be missing, which
leaves the default ones, or empty, which leaves none; an array is as long as its
cap and longer.
A file that cannot be read leaves by the early return, before `~` is expanded.

### Api, Tui and WebDashboard

`Api` has the routes as functions of what the daemon holds, with the sizes of
their buffers and the names of the categories, those the client does not know
included.  `Tui` is the loop of `tui_run`: two fetches on every fourth tick, a
drawing, a key.  What a drawing leaves behind (`filtered_total`, the pop-up on
the screen) is a variable of its own, since the next key is handled with it.
`mode` is that of the code, and each key is an action guarded by it.
`disturbed` names what may be wrong with the cursor: "past" the end of a list that
a fetch or a typed letter has made shorter, or "askew", outside the window after
a page down that went up or a resize.  `Drawn`
counts the rows of the panel, the head lines of groups among them.  The daemon
may go down, come back or change between any two requests (`Serve`).

`WebDashboard` has one action for each turn of the page's event loop.  `pending` counts
the requests of each kind that are under way; any of them may be answered next.
An answer with news goes where it was asked for, one with entries is stored and
laid out under the tab that is active by then (`LandsOn`), as the code reads
`activeTab` after its `await`.

## Runs

| Run | Instance | Shows |
|---|---|---|
| `rest_pool` | 2 workers, 2 sources, buffers may fail | the pool's invariants; it implements `RestBatch`; jobs get claimed; a stop returns |
| `rest_pool_stuck` | 1 worker, 1 source | **violated**: a finished batch may never be noticed |
| `snapshot` | 2 updaters, 1 reader, 2 categories, faults | consistency, bounds, no overlap, no way back; stored rows become visible |
| `fetch_schedule` | 1 feed, 2 REST sources for 1 worker, a restart | in time but after an overtaken batch, not early, backoff kept, status true |
| `refresh_dropped` | intervals of 20 s | **violated**: a refresh does not refetch everything |
| `lifecycle` | 1 daemon, 2 workers, anything may fail | no use after free, reconnection, a stop ends the daemon |
| `restart` | 2 daemons, nothing fails | **violated**: a daemon is started that never serves |
| `store` | a stream and a REST source of one price, two feeds, 2 stories, 4 old schemas, 2 mishaps | the migration is completed, only what SQLite refused is missing, no older price, `Board` is implemented |
| `calendar` | a calendar, an event that changes | **violated**: a figure that comes later never gets in |
| `parsers` | every item of a grammar, alone and between others; every configuration of another | each parser against a reference definition; `main` goes on with a configuration in bounds |
| `atom` | Atom feeds | **violated**: a linked entry gives no story with its link |
| `clients` | 3 tabs in a terminal of 7 or 9 rows, narrow or wide, 4 tabs in a page, 3 requests in flight | cursor in sight, right page opened, lists and tab catch up |

Why these bounds are enough.  In the pool, two workers make every race of two
claims and of a claim with the dispatcher; two sources give a batch that a
worker can end while another claims, and a second batch that meets what the
first left.  `MaxFailures = 1` gives a failure and a recovery.  Liveness is
checked without symmetry.  In the snapshot, a stall as long as the throttle's
period is what lets two updates overlap; three rows for two categories of up to
two make the buffer overflow; `RowsSmall` has inserts that replace a row,
inserts that add one and prunes.  In the schedule, two REST
sources for one worker (`WorkerCount`) are the least that queue: the second waits
for the first, and of intervals of one and three seconds a source misses batches
that the other is in.  One REST source may fail (`MaxFailures`), twice in a row, which
reaches the cap; the sleeps are two seconds, so that a request can come before,
during and after a nap.  `AskedInFirstRun` leaves out requests after the restart,
which clears all that a request has set.  In the lifecycle, two workers give a hole with
a worker after it and one without; a second daemon is only of interest for what
daemons share, the port and the socket file, hence the run of its own.

In the store, three seconds with `MaxAge = 1` let a row be written, seen and
pruned while another is on its way for `MaxDelay`; two fetches are two sources that
overlap, or one that comes again: the stream and the REST source take the price
at two seconds and store it in either order; the two feeds share a story and
the second has a region and a story of its own, so that the order of their
inserts matters; a mishap is a crash or a failed migration statement, insert or
prune, at any point, and two of them are a crash in a migration that another
has cut short.  The parsers' arrays have two slots: an item that is not counted,
one that takes its slot, and one too many.  The configuration has an int of 8 bits,
so that 257 and 300 do not fit.  In the clients, a query of one letter makes the list
shorter and longer, and so does a daemon that has three or one crypto entries, of
which no more than `MAX_ENTRIES = 4` of all categories are read; a page of two lines
and two lines of room need scrolling; with 7 rows a terminal is too low for them,
and one that is too narrow has its smaller size taken up in part; three requests in flight are the two of a
refresh and a tab the user goes to in between.

### The five violations

1. `BatchFinishes` ("Wait for all workers to finish", `scheduler.c:366`).  The
   queue is unlocked with the jobs in it (354), and `rest_pending = batch_size`
   is stored afterwards (359).  A worker that is awake, having just started or
   just ended a job, can claim, fetch and decrement in between; the store wipes
   its decrement out, the count stays at one, and the dispatcher loops over
   its timed wait for ever.  The RSS thread and the WebSockets go on, REST data
   no longer change.  Storing the count before the unlock, or adding to it,
   closes the window.
2. `RefreshRefetches` (README 81).  The flag has one bit and three readers
   that clear it.
3. `StartedMeansServing` (`start.sh` 79-80).  The script waits a second for a
   daemon that may wait five for a silent client before it gives up its port.
   The new daemon does without HTTP, and `kill -0` finds it alive.
4. `CalendarCurrent` (README 12 and 185, `fetch_rest.c:634`).  An event that is
   known keeps its first summary, in which the actual figure is "-": the upsert
   touches the region and the country only.
5. `AtomLinked` (`fetch_rss.c:83` and 119).  `//entry` does not find elements of
   Atom's namespace, and a link, which has no text, is passed over before its
   `href` is looked for.

### Divergences without a run

Met while reading the code for the models; each is plain from a line or two.

- "24h rolling data with price history" (`src/README.md:16`): rows are pruned after
  `PRUNE_MAX_AGE_SEC`, 1800 seconds (`scheduler.c:16`), half an hour.  The models take
  the age as a constant.
- `[[source.ws]]` (`src/README.md:326`): the code reads `[[source.websocket]]`
  (`config.c:175`), and a source under the documented name is not found.
- `unix_socket_path` (`src/README.md:292`): the code reads `unix_socket`
  (`config.c:249`), and the documented key leaves the default.
- `src/README.md:216` shows 186 sources and line 233 a history of 288 points; the
  API serves no more than 64 and 100 (`api_http.c:161`, `Api`).
- The status row of a source says success, with no error, also when not one item
  could be stored (`scheduler.c:226-231`, 286-291, 305-308).
- The buffer of 2048 entries is filled in category order (`scheduler.c:125`):
  with the counts of README 268-273 the last category is not shown.
- `source_status` is keyed by the name (`db.c:435`), and the example configuration
  has five sources called "Frontier Markets": they clear each other's errors.
- Workers are counted and joined from the first slot (`scheduler.c:519`); if one in
  the middle could not be created, the last is not joined.  `NoUseAfterFree` is
  about the other cases (`NoHole`).
- "using defaults" (`main.c:119`) leaves `~` in the paths, as the early return of
  `mc_config_load` comes before `expand_tilde`.
- "Unique URL for upsert" (`fetch_rest.c:634`): the url of a calendar event has its
  date and title, not its currency, so that two countries' events of one title
  and time are one row.  `CalendarRight` states what the url is made of.
- Stories are pruned half an hour after they were first fetched, though the feed may
  still carry them; they then come back as new.
- Terminal client: page-down in a list that has become shorter can leave the
  cursor above the window; a resize in search or detail mode is not taken up, so
  that `max_y` stays behind; the heads of the groups of forex, indices and
  commodities push the cursor out of sight.  `CursorInView` names the first two
  (`disturbed`) and says that a jump to an end, a new tab or the end of a search
  sets them right, in a terminal of eight rows or more that has not become too
  narrow to be laid out anew; of the grouped tabs it says only
  that the cursor is within the offsets, not that its line is drawn.
- Terminal client: the pop-up shows the item at the cursor's position, and a fetch
  may put another there than the one Enter chose.  What o opens is what is shown
  (`OpensWhatIsShown`).
- Dashboard: a late answer with entries is stored and laid out under whatever
  tab is active, those of news included, until the next refresh
  (`SettlesOnActiveTab`); what is drawn from the cache on a click is hidden at
  once by the "Loading" of `loadTab`.

### Fairness

`RestPool`: weak fairness of every thread's steps, strong fairness of taking the
mutex (a pthread mutex is not handed over in order, but it is free again and
again and contended by a handful of threads), and weak fairness of the
dispatcher's timed wait, which has a deadline.  Nothing is assumed of spurious
wakeups, nor of the stop being requested.  Workers get their buffer in the
run: with no worker at all the jobs of a batch stay where they are, by the
code.  `Snapshot`: weak fairness of time and of the threads, strong fairness of
the writer's lock, and the prune thread keeps calling; not that the throttle
lets it through.  `FetchSchedule`'s properties are safety properties;
`TriedInTime` is a bound on waiting, in seconds.  `Lifecycle`: weak fairness of
`main` and of every thread, that of the Unix server as a whole (`UnixThread`: its
select ends after a second); a client of that server sends within the five
seconds of its socket's time-out and reads its answer (the code puts no limit on
`write`); strong fairness of `WsTimeout`, as an attempt that goes on comes to its
fifteenth second.  Callbacks, clients and the script need not happen.
`Clients`: weak fairness of the terminal's loop, as `getch` ends after half a
second, and in the browser of the timer and of the end of every request, which
the browser answers or fails; at most `MaxFailures` requests fail, and the user
goes to another tab at most `MaxClicks` times, since nothing settles under a user
who never does.  Keys, resizes and the daemon's changes need not happen.
`Store`, `Fetchers` and `ConfigLoad` state safety properties only.

### Mutants

Operators called `Slip...` are steps with one plausible mistake.  No step uses
them; PROJECT.json pairs each with the property that must fail when it takes
the place of the correct one.

## Proofs

Each module of proofs has the inductive invariant at its beginning, one lemma
per action that it is preserved, and the theorems at its end.  No property is
inductive by itself; what is added, and why:

**RestPool** (`RestPoolProofs`), for any finite set of workers and any number of
sources; and `Spec => BatchSpec`, under the mapping at the end of `RestPool`.

- `MutexInv` says who is where when the queue's mutex is held; `SleepInv` who
  may be in the wait set, and that a worker on its way into it has read a queue
  that is still empty (`NoSleeperWithJobs`, `NoSleeperAfterStop`).
- `QueueInv` and `JobInv`: the queue has no source twice, a claimed source is
  out of the queue and in the hands of one worker (`HealthExclusive`).
- `CountInv` is the heart.  `Unfinished` is the number of jobs in the queue and
  in hands.  Before the store to `rest_pending` the count runs below zero,
  by as many jobs as have been finished; after it the count is never less than
  `Unfinished`.  So the race can only make it too large: the dispatcher may
  wait too long (the violation above), but never goes on too early
  (`PublishAfterBatch`), and while it scans no worker is busy, which is why the
  health records need no lock.
- `HealthInv` relates the status row and the record of a failure between the
  two writes.

The refinement has a lemma per action that moves the abstract state
(`ClaimTakes`, `UnlockOpens`, `CheckCloses`, `FinishFinishes`); the others stutter.

**Snapshot** (`SnapshotProofs`), for any updaters and readers, any contents of
the database and any sizes of the buffers.

- `LockInv`: a writer excludes readers and other writers.  `PublishedInv` ties
  each count to the array it was published with, and `ReadInv` the count a
  reader has taken to the one still published.  Together they give `ReaderConsistent`.
- `ThrottleInv`: the time since `last_snapshot_time` is no longer than the age
  of any update in progress, so that whoever is admitted later comes a full
  period after it (`OneUpdateAtATime`).
- `VersionInv`: what an update has taken is no newer than the database and, as
  long as no update was slow, no older than what is published (`NoRegress`).

**FetchSchedule** (`FetchScheduleProofs`), for any feeds and REST sources, any
intervals, names and lengths of a fetch, and any number of workers.

- `TriedInTime` bounds a wait, so the invariant says how long a source can have
  waited at each place of its thread: `RssInv` counts the fetches since the RSS
  thread came past the source, or those and its sleep and the scan before it;
  `RestInv` counts the rounds a batch still takes: jobs are claimed in order by
  workers of which none is idle while a job waits, so that the work in hands and
  queue, divided by the workers, bounds what is left.  `BatchInv` says that
  `rest_pending` is never less than the jobs not done, and no more unless the
  batch was overtaken, so that a batch that was not ends when its jobs do.
  `BusyInv`, `SleepInv` and `ScanInv` say what the threads' counters mean there,
  `OverdueInv` that who waits is due, and `StoppedInv` carries the bound past the
  end of `running`.
- `FlagInv`: while the refresh flag is set, no source ahead of its thread has been
  fetched since the request.  With `DueInv`, for what has passed the test and is
  not yet fetched, it gives `EarlyOnlyIfAsked`.
- `HealthInv` ties the backoff to the failures in a row.  `BackoffIsPower` proves
  that the doubling loop of `health_record_failure` gives 2^n, or the cap,
  for every n, and `BackoffRespected` follows.
- `StatusNotBehind` needs only that names are the source's own, as it says itself.

**Lifecycle** (`LifecycleProofs`), for any daemons, any number of workers and
anything that may fail to be created.  `DaemonInv` follows `main`: what is open
at each call (`Quiet`, `Opened`), how many workers were counted (`Counted`), what
has been joined (`Joins`, `PoolOver`), which servers and connections are over
(`ServersOver`, `ConnOver`).  The row of joins does not change while the joins are
done.  Without a hole it holds every thread there is: it has as many slots as
there are workers, and the slots differ.  So what is freed after it is used by
nobody (`NoUseAfterFree`).

**Store** (`StoreProofs`), for any sources, items, deliveries, ages and earlier
files; and `Spec => BoardSpec`.

- `SchemaInv`: the statements that the migration has come past have left their
  mark (`SchemaWhole`).
- `CarriedInv`: what a fetch has delivered is in the table, still to be stored or
  refused by SQLite, unless it has been pruned; at the end nothing is still to be
  stored (`OnlyRefusedMissing`).
- `ShownInv`: the row last served is there or a newer one is; or it has been
  pruned, and is older than anything still to come (`NeverShownOlder`).  This
  needs `CutoffInv`, which bounds the cutoff of a prune that may wait for the mutex,
  and that no row is more than `MaxDelay` late, which is no
  longer than the age at which rows are pruned.
- `LatestInv` and `DataInv` give the abstract board its values.  In the refinement
  an insert of the newest price is `Board`'s, an insert of an older one stutters,
  and a prune takes from both what is old.

**Clients** (`ClientProofs`), for any tabs, lists, alphabets, page sizes and
heights of the terminal, grouped tabs included.  `CursorInv` says where the cursor
is, and what "past" and "askew" leave of that; `DrawnInv` that what a key finds is what was drawn, so that
the number the keys go by is that of the list, and the pop-up's item is the
cursor's (`CursorInView`, `OpensWhatIsShown`).  In the page, `WebInv` counts the
requests of all kinds; each step's effect on that number is followed in lemmas
about finite sets.

**Fetchers and ConfigLoad** (`ParserProofs`), for any documents and files of any
length.  One loop invariant serves all parsers.  `Kept(n)` are the items kept
of the first n, `Made(i)` is what a blank slot becomes of item i, and `SlotsInv`
says that slot j holds `Made` of the j-th item kept: this is where a slot that is
not counted, given to the next item and cleared before, leaves nothing behind.
What each parser gives is read off at the end (`FeedRight`, `EntriesRight`,
`CalendarRight`); `ItemIsStory` shows by induction over the children of a feed's
item that reading them in turn leaves the last text of each sort.  `ConfigInv`
says what each section of the file leaves to the next (`ConfigRight`); `NarrowIs`
shows that the cast gives an int, and the number itself if that is one.

### Induction

The library's theorems about induction take an operator as a parameter, which
the provers cannot instantiate.  `DataLemmas` proves induction for sets of
numbers from the pigeonhole principle (`SetInduction`: if a set with 0 and all
successors left out n, successor would inject its numbers up to n into those
without 0), and from it that recursive functions exist
(`RecursionExists`).  The backoff, the children of an item and the ranks of a
selection are proved through these.

### Assumptions

The assumptions on constants are those of the modules, and TLC evaluates each in
a run: sizes, counts and bounds are natural numbers; thread sets are finite; the
marks for nobody are no threads; the prune thread is an updater; buffers and
throttle are not empty.  Those that say more:

- `Store`: an insert is late by no more than the age at which rows are pruned
  (`MaxDelay <= MaxAge`; half an hour, against the length of a fetch), and an earlier file
  has no table or column that is not in the schema.
- `FetchSchedule`: the ages kept reach the longest backoff and the intervals, so
  that the cap of a counter hides nothing; backoff and sleeps are longer than a second.
- `Lifecycle`: a daemon has one connection; the slots of the workers differ, and
  none has the name of another thread.
- `Tui`: letters are characters, a page is not empty, the lists served are lists.
- `WebDashboard`: "crypto" is a tab, "status" and "sources" are none, news tabs are tabs.
- `Fetchers`: the items of a document are a list, and so are the children of a feed's item;
  the empty text is no date.
- `ConfigLoad`: the arrays of a file are lists, numbers are integers of any size (a
  value of another type is as if it were missing), the five default tabs have room,
  and an int holds a tier.

### What is not proved

- Liveness (`JobsGetClaimed`, `StopReturns`, `StoredBecomesVisible`,
  `LostIsReplaced`, `StopsWhenTold`, `CatchesUp`, `SettlesOnActiveTab`), which needs
  fairness and ENABLED: TLC checks it.
- The accessors of JSON: a path is followed by `FoldLeft` and a member found by
  `SelectSeq`, of which the provers have no definition.  The theorems about the
  parsers hold whatever these return; that they return the right value is
  checked by `parsers`, and only for its grammar.
- The properties of the violation runs, which do not hold.

### What the proofs changed in the models

- `ReadChild`, `Shape` and `RestParserOf` had a `CASE` with two guards that could
  hold at once (a child without text that has a known name; a parser of its own
  for an array; financial news with a configured price field).  TLC takes the
  first, TLA+ leaves it open, and the theorems could not be proved.  The guards are
  now disjoint, in the order of the code's tests.
- The reference definitions of `EntriesRight` were wrong for an item whose
  symbol is empty, which the small grammar did not tell; they now state the
  condition for being kept and the entry apart.
- What the provers have no definition of has been restated by counting
  (`Selections`) or as a recursive function (`After`, `Doubled`).

## Not modelled

- Scores, decay and order of news; volume, currency and times of a price; the
  contents of texts: HTML stripping, lengths, formats of dates but for whether
  they can be read.
- XML, JSON and TOML as text, HTTP headers and URLs.  An HTTP error is no failure
  of a request in the code: its body is a document like any other.
- Memory ordering.  `running` and `force_refresh` are `volatile`, not atomic;
  the models take single loads and stores as atomic and ordered.
- A wall clock that is set back (it stops the throttle until it has caught up).
- Failing writes of `source_status` (in `FetchSchedule`).
- The history and the region filter of the HTTP API, the text of the Unix
  socket's commands, routing: no state, and neither client depends on them.
- Of the clients, layout, colours, the launch of a browser, and the filters of
  the page, which choose among the lines of a list that is rendered whole.
- `--no-http` and `--no-unix`, which do as a server that fails to start does;
  creation of directories; building and `start.sh status`.
- Logging, error texts.

## Plan

1. *Done*: `RestBatch`, `RestPool` and its proofs, `Snapshot`, `FetchSchedule`,
   `WsConn`, `Lifecycle` with `start.sh`.
2. *Done*: `Board`, `Store`; the parsers and the configuration; `Api`, `Tui`,
   `WebDashboard`.
3. *Done*: the proofs.  Every invariant and every action property of a passing run, and both
   refinements, are theorems.
4. To come: theorems about the JSON accessors, so that the price of an item is proved
   down to its path; about what the violations leave standing (the jobs of a
   batch whose store came in time, the sources a refresh does reach); that a
   `Picked` list is what the loops of the accessors return for nested lists; and a
   statement of what sources of one name do to each other's status rows.
