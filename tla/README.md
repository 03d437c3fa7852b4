# EVE Market Dump in TLA+

TLA+ models of EVE Market Dump (EMD), the properties that make it correct, the
TLC configurations that check them and the TLAPS proofs of the ones that
matter most.  Source references are to the files of the repository (`src/...`).

EMD asks the ESI (the HTTP interface of EVE Online) for the whole state of the
market: the orders of every region, the daily histories of every traded type
and the places where orders are.  The repository has two generations of it: a
Go library with an example web server, and, under `src/archive`, the C daemon it
replaced, which writes dump files.  Both are modelled.

## 1. Inventory

### Go library and web server

| Part | State it keeps | Operations | What must hold |
|---|---|---|---|
| `esiFetch` (`esi.go:58-253`) | a recursion of attempts; each frame may hold an open response body | one attempt: wait for the backoff, take a token, send, read the answer; `retry()` with one trail less | no request too many or lost; every body closed; the call returns |
| shared backoff (`esi.go:52-53, 311-341`) | `esiTimeout` under `esiTimeoutMu`, shared by all goroutines | `esiSetTimeout`, `esiClearTimeout` | no request while the ESI asked for silence; a wait ends |
| SSO token (`esi.go:54-56, 255-309`) | `accessToken`, `accessTokenExpiry`, unlocked | `acquireSSOToken` | a cached token is one the login server still takes |
| history downloads (`history.go:126-313`) | a temporary file of rows, the dates seen, the trails of a market | `DownloadFullHistoryDump`, `DownloadIncrementalHistoryDump` | no market lost, repeated or mixed up through retries and skips; the dates index the rows |
| history snapshot (`history.go:52-124`) | one file descriptor and its offset under `fileMu`; `closed` | `GetHistoryDataForDay`, `Close` | readers do not disturb each other; the file goes in the end |
| order download (`order.go`) | the orders so far, region, page, page count | `DownloadOrderDump` | the dump is complete although the books move |
| location download (`location.go`) | tables of stations and systems; locations and refusals of one download | `DownloadLocationDump` | refusals survive failures |
| web server (`examples/web-server/main.go`) | `globalOrders`, `globalLocations`, `globalHistories`, each with a `RWMutex`; the channel `globalOrdersFetched`; `globalForbiddenLocations`; a context | a history, an order and an HTTP worker; four handlers; shutdown | nothing is replaced while it is read; requests are answered; all stop together |
| schedule of the histories (`main.go:105-148, 311-321`) | `expiration`, the time | which day is asked for, and when | no day left out, none asked for before it is out |
| regions, CSV tables, logging flag (`region.go`, `location.go:128-249`, `common.go`) | constants | read by `init`, which panics if they are malformed | not modelled: no behaviour |

The parts interact as follows.  The workers of the server call the downloads
of the library; those call `esiFetch`, which is where all goroutines meet: they
share the backoff, and the authenticated ones share the token.  The order
worker signals the history worker through a channel of capacity one when it has
fetched its first dump.  Workers hand data to the HTTP handlers through three
globals, under read and write locks; handlers write their answer to the client
while they hold the read lock.  A worker that returns cancels the context that
all of them watch, and `main` waits for them.

### C daemon (`src/archive/emd/src`)

| Part | State it keeps | Operations | What must hold |
|---|---|---|---|
| channels (`base.c:680-842`) | `ptr_fifo`: a ring, two semaphores, a mutex | `ptr_fifo_push`, `ptr_fifo_pop` with timeouts, `ptr_fifo_try_pop` | first in, first out; no pointer lost or owned twice; semaphores and ring agree; empty means empty |
| dates (`base.c:850-975`) | none | `date_parse`, `date_utc`, `date_incr`, 11:15 of today and tomorrow | dates of different makers agree; a loop over days visits each |
| dump files (`dump.c`) | `global_dump_record`: the files being written, under a mutex | open, write, close; burn on exit | what is left on disk after an exit is complete |
| hoardlings (`hoardling.c`, `main.c`) | three threads, three channels, the locations known and refused, a lent vector | orders to locations; request and response for the active markets; the end by signal | every known location is dumped; a vector has one writer; no thread waits for ever |
| histories (`hoardling.c:286-629`, `histories.c`) | the dumps on disk, the expiration, the rows of a round | the initial download of all days, then one day a day; a restart | each day published has a dump with its rows |
| ESI client (`esi.c`) | `esi_timeout` and the SSO token, each under a mutex | `esi_fetch`, `esi_timeout_set` (never shortens), `esi_timeout_clear`, `sso_access_token_acquire` | as for Go; the assertion on the length of a sleep |
| order download (`orders.c`) | the orders so far, region, page | `order_download_universe` | as for Go |
| contents (`orders.c`, `locations.c`, `histories.c`, `emdtojson.py`) | vectors | parse, write a dump; a Python reader | not modelled: one thread, field by field |
| `csv.c`, `systems.c`, `regions.c`, `secrets.c` | constants | sequential readers | not modelled: no behaviour |
| `server.c`, `test.c` | none | a stub that is not built, unit tests | not modelled |

The orders hoardling goes round without end: it downloads every order, writes a
dump, pushes the ids of the locations it saw to the locations hoardling (15
seconds for a free place, else they are dropped), and looks whether the histories
hoardling has lent it a vector to fill with the active markets.  The locations
hoardling looks ids up and dumps all it knows when it learned something.  The
histories hoardling lends its vector, waits up to three hours for it, downloads
the histories, dumps them, and sleeps until the next 11:15.  All three call
`esi_fetch`, and write files through the shared record.  `main` waits for a
signal, which a hoardling that gives up also sends; it then burns the record and
returns, while the threads still run.

### What is hard here

* **Shared waiting.** All callers share one backoff that any answer may move
  (either way in Go, forward only in C), while each waits on its own timer.
* **Retries.** Recursion in Go, whose deferred closes run only when the whole of
  it unwinds; a loop in C whose token was looked at before its first turn.
* **Shared file offset** of concurrent readers, and a `Close` that may come at
  any moment, be repeated, or fail half-way.
* **Moving data.** The books of the ESI change between two pages; days are
  published at 11:15 while downloads may last hours and be retried.
* **Locks held across network writes**, by handlers that take three of them.
* **Lent memory.** One thread writes a vector that lives on the stack of another.
* **Files and crashes.** Dumps are written under their final names; a process may
  be stopped at any step, and its successor takes what exists for complete.
* **Two calendars.** Days counted from 0 by one function and from 1 by another.
* **Partial failure.** One market in 300000, one page, one location or one write
  fails: it is retried, skipped, or fails all the rest.
* **Shutdown** that begins anywhere and must reach every worker wherever it waits.

`PROJECT.json` lists the forty hazards that matter most, each at its line with
the properties that cover it, or the reason why none does; section 5 has the rest.

## 2. Modules

| Module | Models | Abstracts |
|---|---|---|
| `RetryBudget` | *abstract*: what a caller of `esiFetch` or `esi_fetch` is promised | how |
| `EsiFetch`, `EsiProps` | `esiFetch`, `retry`, `esiSetTimeout`, `esiClearTimeout`, any number of goroutines | an answer is the branch it leads to; advice is a number in or out of range |
| `SsoToken` | `acquireSSOToken` and the login server | the form of the request; one caller, as the program has |
| `Locations` | `DownloadLocationDump`, `getUnknownLocations` and what `orderWorker` keeps | a location is its id and kind |
| `LocationWorker` | the composition of the two: each structure is fetched with a token acquired for it | `esiFetch` with its one trail is one request and one answer |
| `HistoryDownload` | both history downloads: one loop with two ways of keeping rows | `esiFetch` is one step with the outcomes of `RetryBudget`; prices and volumes |
| `HistorySnapshot` | readers and closers of one snapshot | a row is its market and day |
| `HistoryFiles` | the composition of the two: the full download writes the file, hands it over, and it is read and closed | |
| `OrderDump` | the loop over regions and pages, of `order.go` and of `orders.c`, and the players who move the books | an order is its id |
| `WebServer` | workers, handlers, `sync.RWMutex`, signal, shutdown | downloads are one step; dumps are numbers |
| `HistoryClock` | when the server asks for which day, on a machine in any time zone | time in ticks of three hours; an entry is its day, not its rows; a zone is the same all year |
| `BoundedQueue` | *abstract*: what a channel promises | how |
| `PtrFifo` | `struct ptr_fifo` and its three operations, step by step | a pointer is a model value; a deadline is that no permit came |
| `EsiArchive` | `esi_fetch`, backoff and token, any number of threads | answers are the branch they lead to; building a request is one step |
| `Hoardlings` | the three threads, their channels, the end by signal | a download is the locations and markets it yields; the three hours may be over at any step |
| `DumpRecord` | open, write, close and burn of dumps by several threads | the bytes; a file is absent, partial or complete |
| `HistoryArchive` | initial download, daily rounds, dates, restarts, failing dumps | half days; short years; a row is its market and day |
| `EsiFetchProofs`, `PtrFifoProofs`, `EsiArchiveProofs`, `LocationWorkerProofs`, `DumpRecordProofs` | the theorems about each | |
| `DownloadProofs` | the theorems about `OrderDump`, `HistoryDownload`, `HistorySnapshot` and `HistoryFiles` | |
| `WebServerProofs` | the theorems about `WebServer` and `HistoryClock` | |
| `HoardlingsProofs` | the theorems about `Hoardlings` and `HistoryArchive` | |
| `MC...` | constants of the small instances | |

`EsiFetch` and `EsiArchive` both implement `RetryBudget`; `PtrFifo` implements
`BoundedQueue`, which is what `Hoardlings` takes its channels to be, with the one
exception that `PtrFifo` shows (a permit that `try_pop` loses).

Conventions.  `pc` (or `at`, or `pc_<thread>`) is where a process is between two
of its shared steps; the code between two steps touches nothing another process
sees.  Instants are kept as the ticks that remain until them, so that time may go
on for ever in a finite state space; `HistoryClock` and `HistoryArchive`, which
need the calendar, have an absolute clock with a bound instead.  History
variables, which only properties read, are declared as such.  An operator marked
`mutant` is a variation of the one below it, a plausible bug; it is part of no
specification.  It shows that a property can fail: put in place of the original,
the run of that property reports it (`PROJECT.json`, "mutants").

### How state and actions correspond to the code

*EsiFetch.*  `trails[c]` is the parameter of the innermost frame, `open[c]` the
number of frames whose deferred `res.Body.Close()` (`esi.go:117`) has still to
run, `wake[c]` the timer of `esiClearTimeout` and `waitLeft[c]` the context of
`esi.go:81`.  `Call` and `EnterFrame` begin a frame; `CheckTimeout` is one turn
of the loop of `esiClearTimeout` up to its `select`, whose arms are `Wake` and
`GiveUpWaiting`; then `AcquireToken`, `Send`, and one action per kind of answer:
`TransportError` (nothing came), `ImplicitTimeout` (500, 503), `AdvisedTimeout`
(429, 420, 504), `EsiError` (another status), `Garbled` (a body that does not
decode) and `Ok`.  `Retry` either begins the next frame or returns
`ErrNoTrailsLeft`.  `esiSetTimeout(20)` after a 500 is a `time.Duration` of 20
nanoseconds, which is 0 ticks.  `esiTimeout` is replaced, not prolonged.

*SsoToken.*  `StoreToken` and `StoreExpiry` are the two assignments of
`esi.go:297-298`; `since` counts how long ago the caller read its clock; `life[k]`
is how long the login server will still take its k-th token.  Time passes at
every point: between the look at the expiry (`ReadExpiry`, `CheckExpiry`), the
second read of the token (`ReadToken`) and the request that carries it.  `seen`
and `lag` are history: the life of the token at that look, and the time since.

*Locations, LocationWorker.*  `known` and `forbidden` are the globals of the
server, `data` and `refused` the locals of `DownloadLocationDump`; `Fail` and
`EndDownload` are the two arms of `main.go:193-207`.  `bearer` is the token in
the header of the request under way; `SendRequest` is `esi.go:101-110`.

*HistoryDownload.*  `NextMarket` is the head of the loop, `FetchOk`,
`FetchSkip`, `FetchTransient` and `FetchFatal` the four things a fetch leads
to, `Sleep` the pause before `goto TryAgain`.  `trails` survives the jump and is
renewed for the next market.  `Keep` writes all rows of an answer (full) or the
first of the wanted day (incremental).

*HistorySnapshot, HistoryFiles.*  `offset` is the one offset of the shared
descriptor; `Read` is one turn of the reading loop; `CloseBegins` reads `closed`
before `Lock`, as the code does.  `DiskFails` lets the close and the removal
fail.  `tempFile` tells whether the file has been handed over.

*OrderDump.*  `MorePages` is the condition of the loop, `FetchPage` a turn of it,
`FailPage` every way out with an error, `outcome` how it returned.  `Place` and
`Expire` are the players.

*WebServer.*  Each worker's `pc` names the statement it is at.  A `RWMutex` is
its set of readers and the state of its one writer; a writer that waits keeps
new readers out, as Go's does.  `handleHistory` unlocks before it writes, the
others after.

*HistoryClock.*  `schedule` is where `historyWorker` is, `began` the `now` of the
code, `requestDate` and `expiration` its variables, `zone` how far the hours of
the machine are ahead of UTC.  `getElevenFifteenToday`, `getElevenFifteenTomorrow`
and `getYesterday` compute with days of that zone (`LocalDay`), as
`main.go:311-321` does with `now.Location()`, while the ESI publishes
(`Published`) at 11:15 UTC.  Time goes on in every state: a download, and the
retries that follow one that fails, may last past any number of midnights.

*PtrFifo.*  `push` and `pop` are the semaphores, `mu` the mutex.  A call is
`Call...`, then `Wait...` (or `Try...`), `Lock`, two steps on the ring, `Unlock`,
`Post...`.  `WaitExpires` is the timeout of `sem_timedwait`; `LockExpires` is
what becomes of a timeout of 0, which the semaphore takes for "for ever" and
`mutex_lock` for a deadline that has passed: a panic.  The code's `panic` returns
(`base.c:90-95`; SIGTERM is blocked, `main.c:180-184`), and the thread goes on in
the ring without the mutex until `main` exits.  The model stops it at the panic:
all that is shown of the channel holds up to the first one.  `errno` belongs to each
thread that asks it, and `OtherCalls` is the rest of the program leaving some
value there.  `TryMisread` is `ptr_fifo_try_pop` with an old `EAGAIN`.

*EsiArchive.*  `Call` is `esi_fetch`; `UseCachedToken`, `AskLogin`, `StoreToken`
and `TokenError` are `sso_access_token_acquire`, and `Issue` is the login server,
which gives the token its life at any time before the answer arrives; `given` and
`fresh` are that life and what is left of it, and `StoreToken` records an end that
counts from the answer (`esi.c:196`).  `Build` is the end of
`esi_build_request`, `LocalError` its error returns and those of the request; `Loop` the head of the loop of `esi_perform_request`;
`CheckTimeout` and `Wake` the recursion of `esi_timeout_clear`; then one action
per kind of answer.  `GatewayTimeout` is the constant it is in the code, whose
parser never believes a body.

*Hoardlings.*  `request` and `permits` are the ring and the pop semaphore of
`active_market_request`: they differ once `try_pop` has lost a permit.  `lent` is
which of two vectors is lent, `market_vec` what it holds.  `OrdersDump`,
`SendLocations` and `NoRequest`/`TakeRequest`/`Answer` are the three calls of the
loop of the orders hoardling; `LookUp` is one id; `GiveUp` the end of the three
hours, which are of the clock: it may happen at any step of the other threads, in
the middle of a cycle too.  `cycled` and `trouble` are history.  Every thread's own timeouts (15 seconds for a channel) are the disjunct
of a full channel.

*DumpRecord.*  `Fopen`, `RecordPush`, `WriteFails`, `Fclose` and `RecordPop` are
the steps of a dump; the record is searched by the value of a `FILE*` that has
been closed and may have been handed out again, as the code does.

*HistoryArchive.*  `Start` is the head of `hoardling_histories`; `Download` one
market of `undone` with all its retries; `Emit` a turn of the loop over the days
of the initial download, `DailyBegin` and `DailyDump` the two ends of a daily
round; `Dump` is `hoardling_histories_dump`.  `Stop` is a kill, a signal or the
end of trails, at any step; what it leaves is `disk`.

## 3. Runs

Every run finishes in under five minutes with two workers.  Bounds are chosen
so that each action and each disjunct of the next-state relation is taken.

| Run | Instance | Shows |
|---|---|---|
| `EsiFetch` | two goroutines with 1 and 2 trails, one authenticated; backoffs up to 2 ticks, wait limit 3; advice below, in and above each range | `RequestsAccountForTrails`, `BodiesAreReleased`, `TimerBeatsDeadline`, `NoRequestDuringBackoff`; `esiFetch` implements `RetryBudget` (`KeepsBudget`); `CallReturns` |
| `LocationWorker` | every dump of up to four orders at two structures, a station and an unknown station, over and over; three tokens of a life of 1 or 4 ticks, any time between any two steps | `CacheIsFresh` at every point of a refresh; `DeadOnlyByDelay`; `KnownOrForbiddenOnce`, `RefusalsAreKept` |
| `HistoryFiles` | two markets, histories of up to two days in any order, one of which may not parse, three trails; then two readers and a closer that closes twice, on a disk that may fail | `IncrementIsExact`, `ReadsWhatWasAnswered`, `FileGoesAway` |
| `OrderDump` | two regions of up to three orders, two to a page; two orders placed, one per region ends | `DumpIsComplete`, `MissesOnlyShifted` |
| `WebServer` | one request at a time of any kind, one order dump, two days | `NoDumpReplacedInUse`, `StopsTogether`, `RequestsAreAnswered`, no deadlock |
| `HistoryClock` | 3 hour ticks over five days, machines 15 and 9 hours west of UTC, on it and 6 hours east; a full download begun at any time of day 0; downloads and retries of any length | `AsksForPublishedDay`, `LeavesOutMidnightsOnly` |
| `PtrFifo` | two pushers, one popper without timeout, one try-popper, three pointers, two places | `PermitsAccount`, `RingHasRoom`, `OneOwner`; the channel implements `BoundedQueue` (`IsAQueue`); no deadlock |
| `EsiArchive` | two threads with 1 and 2 trails, one authenticated; advice from -1 to above every range; tokens of a life of 1 or 3 ticks, logins that take any time or never end | `SilenceKept`, `SleepIsShort`, `LiveForMargin`, `KeepsBudget`, `CallReturns` |
| `Hoardlings` | a station, a structure, a market, a channel of one place, a wait that may be over at any step | `DumpHasAllKnown`, `LentWhileWaiting`, `AnsweredByFirstCycle`, `WaitEnds` |
| `DumpRecord` | two threads, two dumps each, three `FILE*` | `RecordIsExact`, `BurnLeavesNoPartial`, `PartialHasWriter` |
| `HistoryArchive` | two markets, years of three, two and two days, four half days that begin on the first day of the third year, one failing dump, any number of restarts | `NoDayMissed`, `InitialLosesOnlyNewYear`, `DailyHasItsDay` |
| `PtrFifoEmpty` | as `PtrFifo` | *violated*: `EmptyMeansEmpty` |

Why these bounds are enough.  *EsiFetch*, *EsiArchive*: two callers are the
fewest that move each other's backoff, two trails the fewest with a retry that
has a successor and one that has not; the theorems cover all other values.
*HistoryFiles*: the file has a day whose rows are not adjacent, so that a reader
with a stolen offset misses one, and a market may be skipped before or after
another; a reader asks for that day as a Local or as a UTC time.  *OrderDump*:
three orders make two pages, and one placed or ended order moves an order across
the page boundary or changes the number of pages. *LocationWorker*: four orders
can repeat one location and name every kind; a token of one tick may end at any
step of the refresh or on the way to the send, one of four outlives them. *WebServer*: handlers take read
locks only and always in one order, so what a second one could wait for is a
writer, which the first meets as well; the second worker is a third party of the
orders' lock.  *HistoryClock*: 11:15 is a tick of its own, and the download can
begin and end on either side of it, of the local midnight and of that of UTC; the
four zones are one of each kind the properties tell apart, and every exception
the properties make does occur.  *PtrFifo*: two places are the fewest where
order matters, three pointers fill them with one more waiting; the theorems cover
other sizes.  *Hoardlings*: a full channel and an empty one, a known and a
refused location, a request that outlives a cycle, a download that fails before the one that
answers; three of its four properties are theorems.  *DumpRecord*: two dumps at once are what the record gets wrong; a
third pointer makes reuse a choice.  *HistoryArchive*: the rows of the
initial download go over the end of a leap year and of one that is not, and the
daily rounds, of days 4 and 5, name the last day of one year and the first of the
next, by a process that was started on time; other lengths and later rounds are
covered by the theorems.

`CHECK_DEADLOCK FALSE` is said for runs of something that ends: a download that
has returned, a clock at its bound, a process that has exited.

### Fairness

* `EsiFetch`: time passes; a runnable goroutine runs (weak).  `select` picks at
  random among the ready arms, so the end of the wait context is taken if it is
  ready again and again (strong fairness of `GiveUpWaiting`).  Nothing is
  assumed about the ESI beyond its answering or the 7 second timeout expiring.
* `EsiArchive`: time passes and runnable threads run, and a request to the ESI
  ends by its timeout (weak).  `esi_timeout_clear` has no context that ends its
  wait, and the login request no timeout, so `Login` is not fair, and
  `CallReturns` is under two conditions: the ESI stops asking for backoffs, and
  the call is not left at the login for ever.
* `HistoryFiles`, `WebServer`: runnable goroutines run (weak); Go's mutexes
  hand themselves to a waiter that has starved for 1 ms (strong fairness of
  taking a lock).  `RequestsAreAnswered` and `StopsTogether` assume also that a
  client takes the answer it asked for: the handler holds a read lock while it
  writes, so without that assumption both are false, and the server has no write
  timeout that would change it.  No signal and no failing listener is assumed.
* `Hoardlings`: each of the three threads runs, and `main` returns once it has
  its signal (weak).  No download is assumed to succeed.  That histories runs
  includes that the timer of `hoardling.c:340` goes off in the end, at no
  particular step of the others.

## 4. Proofs

Nothing is assumed but the named assumptions of the modules, which every run
evaluates for its constants.  Of the code's constants they keep only what the
arguments need: that a backoff that is believed is shorter than the wait allowed
(`EsiAssumption`: 120 s, 240 s, 15 min) or than the longest sleep
(`EsiArchiveAssumption`), that a channel has a place
(`PtrFifoAssumption`, `HoardlingsAssumption`), and that the ids of stations and
of structures differ (`LocationAssumption`, the ranges of `location.go:84`).
Sequences are assumed to be sequences: `OrderDumps`, `Books`, `Markets`,
`Answers`.  A zone is less than a day ahead of UTC or behind it
(`ClockAssumption`).  No assumption bounds how long a download, a login, a cycle or
the way of a request lasts, or the life of a token.  `ArchiveAssumption` counts days from two before the clock
begins, so that the day asked for at the start exists.  The theorems hold for all
other values: any number of threads, trails, markets, locations, orders, pages,
histories, readers and requests, any advice of the ESI, any life of a token, any
length of the day and of a year.

| Module | Theorem | States |
|---|---|---|
| `EsiFetchProofs` | `TypeCorrect` | `[]TypeOK`; no backoff exceeds the longest advice believed |
| | `TrailsAccounted` | `[]RequestsAccountForTrails` |
| | `BodiesReleased` | `[]BodiesAreReleased` |
| | `Refinement` | `KeepsBudget`: `EsiFetch` implements `RetryBudget` |
| | `AloneWaits` | `NoRequestDuringBackoff` |
| | `TimerFirst` | `[]TimerBeatsDeadline` |
| `EsiArchiveProofs` | `TypeCorrect` | `[]TypeOK` |
| | `SilenceIsKept` | `[]SilenceKept` |
| | `SleepsAreShort` | `[]SleepIsShort` |
| | `TokensLive` | `[]LiveForMargin` |
| | `Refinement` | `KeepsBudget`: `EsiArchive` implements `RetryBudget` |
| `PtrFifoProofs` | `TypeCorrect` | `[]TypeOK` |
| | `PlacesAccounted` | `[]PermitsAccount` |
| | `NoRingPanics` | `[]RingHasRoom` |
| | `NoPointerLost` | `[]OneOwner` |
| | `FifoIsAQueue` | `IsAQueue`: `PtrFifo` implements `BoundedQueue` |
| `HoardlingsProofs` | `LentOnlyWhileWaiting` | `[]LentWhileWaiting` |
| | `FirstCycleAnswers` | `[]AnsweredByFirstCycle` |
| | `AllKnownDumped` | `[]DumpHasAllKnown` |
| | `NoDumpMissed` | `[]NoDayMissed` |
| | `DayIsDumped` | `DailyHasItsDay` |
| | `OnlyNewYearLost` | `InitialLosesOnlyNewYear` |
| `WebServerProofs` | `DumpsAreSafe` | `[]NoDumpReplacedInUse` |
| | `DayIsPublished` | `[]AsksForPublishedDay` |
| | `MissedAreMidnights` | `LeavesOutMidnightsOnly` |
| `LocationWorkerProofs` | `TokenIsFresh` | `[]CacheIsFresh` |
| | `BearerDiesOnTheWay` | `DeadOnlyByDelay` |
| | `NoRefusalLost` | `[]RefusalsAreKept` |
| | `RecordedOnce` | `[]KnownOrForbiddenOnce` |
| `DumpRecordProofs` | `NoPartialLeft` | `[]BurnLeavesNoPartial` |
| | `PartialIsWritten` | `[]PartialHasWriter` |
| | `RecordCounts` | `[]RecordIsExact` |
| `DownloadProofs` | `FewAreMissed` | `[]MissesOnlyShifted` |
| | `DumpComplete` | `[]DumpIsComplete` |
| | `IncrementExact` | `[]IncrementIsExact` |
| | `ReadersAgree` | `[]ReadsWhatWasAnswered` |

*EsiFetch, accounts.*  `TypeOK` is not inductive: a retry needs `trails[c] >= 1`,
and the bound on open bodies needs to know how trails were spent.  The inductive
invariant `IInv` is the types with the two accounts: sent requests and trails
left add up, and bodies are no more than trails spent.  What a return, a retry
and a call do to the accounts are lemmas of their own (`ReturnKeepsBooks`,
`RetryKeepsBooks`, `CallKeepsBooks`), since six actions retry and six return.
For the refinement, a goroutine is busy when it is not idle.  The step that
needs the invariant is the failure for want of trails: the frame that finds one
trail left has, by the account, sent as many requests as there were trails,
which is what `Finish` of `RetryBudget` demands.

*EsiFetch, waiting.*  With several goroutines a later, shorter backoff may
replace a longer one (`esi.go:313`), so the last two are claims about a goroutine
that is alone: no other has called `esiFetch` yet.  `AloneInv` says of such a
goroutine that `esiTimeout` covers every backoff asked for, that none runs once
`esiClearTimeout` has returned, and that the shared backoff and the timer end
before its wait context.  `OthersStayQuiet` and `AloneBefore` show that one who
is alone after a step was so before it, and took that step, so that only its own
steps and the clock have to keep it.

*EsiArchive.*  In the daemon a backoff is never shortened, and so silence is
proved for any number of threads: `Backoffs` says that what the ESI asked for is
what `esi_timeout` holds.  `Tokens` is about a token that is `sound`: given for
longer than what is taken off and the margin, and promptly, within what is taken
off.  Its recorded end is never later than its end, and from the look at it on its
life and the ticks since add up to more than the margin.  Of another token nothing
is claimed, since the code gives no bound on the login.  `TrailsAdd` is the account
of the requests.

*PtrFifo.*  The places of the ring are shared out among the permits of the two
semaphores, the groups of threads that are inside a call, and the permits that
`try_pop` lost.  A step moves a thread from one group to the next; the lemmas on
the cardinality of a group that gains or loses a member make that arithmetic.
The room in the ring follows, since one who has the mutex is in such a group.
For the pointers the invariant goes down to the slots: who has the mutex is alone
at the ring (`MutexHeld`), a thread has a pointer in hand exactly at certain
points of its call (`HandsFull`), and the slots between the two indices are full,
the one just stored included (`RingFilled`).  Two of the four places a pointer
may be in never share it (`Disjoint`), and it is in one (`Somewhere`): together
they make the sum of `OneOwner`.  For the refinement the queue is `Waiting`, the
slots read in order; storing at the write index is a put (`StoredPuts`), moving
the read index a take (`AdvanceTakes`), and every other step leaves `Waiting`
alone, which is arithmetic modulo the capacity (`SlotsDiffer`, `Turn`).

*Hoardlings.*  `OneLent` counts the one vector that is under way; `Awaited` is
why a request is answered: without trouble it still has its permit, or has been
taken, and no cycle that downloaded the orders has ended since; one that failed to
download touches neither.  `AnsweredByFirstCycle` does not say when that cycle
ends.
For the dumps the invariant tells, at each point of a cycle of the locations
hoardling, what is known and not yet dumped.

*HistoryArchive.*  First the calendar: `YearStart` is a recursive function, whose
existence is proved by induction (see below), years follow each other
(`YearsPass`), every day is in one (`YearOfIs`), and two days have two names
(`NamesDiffer`).  `ArchiveClock` is the invariant of the schedule: while the
process runs, the expiration is an 11:15 after its start, and all days whose
11:15 lies between the two have a dump or a logged failure (`Caught`); a round
that began on the day it was due asks for the day of that expiration (`Asked`).
`Complete` says that a market that is done and was found has given every row
published when the round began: it needs `Asked`, since what is published is
counted from the clock, which goes on during the round.  For the initial
download, `Passed` says of every row dated before the next dump that it has been
dealt with.  The step that needs the rest of it is `date_incr`: from the last day
of a year it jumps over day 0 of the next, and the rows of that day are those the
property excepts, as long as there was a row of an earlier year.

*WebServer.*  `NoDumpReplacedInUse` speaks of program points only.  The invariant
gives each program point the locks it holds (`WorkersLock`, `HandlersLock`) and
a writer that is in no reader (`Exclusive`).

*HistoryClock.*  `DueOn(k)` ties the schedule to a local day: the histories expire
at its 11:15, the last entry is not older than two days before it (three, of a
full download east of UTC), and a download under way asks for the eve of its own
beginning, however long after the expiration that is.  An attempt that fails
leaves k as it is, one that ends moves to k + 1.  The days between two entries are
then counted by the midnights between k and the beginning of the attempt.

*LocationWorker.*  The expiry is 0 while the token is refreshed, and what will be
stored for a token is no later than its end (`Refreshing`).  A token about to be
sent was alive when its expiry was looked at, and what it has left and the ticks
since are at least what it had then (`InUse`): so it is dead at the send only if
these ticks used that up.  For refusals, each is `Listed`: in the globals, or with
the download under way.  For the locations, five lists (`known`, `forbidden`,
`data`, `refused`, `unknown`) have no repeats and no location in common (`Lists`,
`AllApart`); that `getUnknownLocations` gives new
ones only is proved for every list of orders (`UnknownIsNew`).

*OrderDump.*  With books that move, what is behind the cursor is not what was
downloaded.  `OnCourse` counts, of the orders now at the places the cursor has
passed, those that are missing: at most as many as ended; and if the cursor
stands beyond the end of the book, fewer by as many places.  An order that ends
either shifts one more order past the cursor, for which the first bound rises, or
shortens a book that had been passed, for which the second leaves room; one
placed at the end of a book that had been passed is missed, which the second
bound has made room for too.  When the last page comes, only the orders counted
are missed (`FewMissed`).  If no order ends, books only grow at their end
(`Grown`), and the dump is the regions before the cursor and the pages passed
(`Got`).

*HistoryDownload, HistoryFiles.*  `RowsKept` says the rows are the concatenation
of what each answer leaves, in the order of the markets, whatever retries and
skips there were, and that every row's day is among the dates of the snapshot.
The last is what the quick answer of `GetHistoryDataForDay` for a day it does not
list rests on.  Readers share one offset: `Exclusive` gives whoever is between
`Lock` and `Unlock` the mutex, and `FoundBy` says that what a reader has found
is the rows of its day among the first `offset` rows.

*Data and induction.*  The library's induction theorems take a predicate, which
the provers cannot instantiate; the same induction over a set of numbers can be
proved from the well-foundedness of `<` and cited (`NatSets`).  With it a
recursive function is shown to exist on every initial segment, hence to be what
its equation says, and facts about it follow: `UnknownIsNew`, `FlattenLast` (of
`FlattenSeq`), `AddDatesAdds`, `YearsPass`.

*DumpRecord.*  Until the burn each dump under way has an entry of its own, no two
entries are of one dump, and no path in it is freed (`RecordKept`).  A pop of the
last entry is then the pop of the caller's own, whatever `FILE*` it has got, and
the burn reaches every partial file.  For the count, `ListsExactly` adds that an
entry is of a dump being written or of one that failed, and `FailedIsPast` that
no writer comes back to a dump that failed; the record then counts both.

*Only model-checked.*  Liveness (`CallReturns` of both clients, `FileGoesAway`,
`RequestsAreAnswered`, `StopsTogether`, `WaitEnds`), which needs fairness and
`ENABLED`.  Every other property of a passing run is the conclusion of a theorem.
`RetryBudget` and `BoundedQueue` state no fairness, so that the refinements are
proved in full.

## 5. Where code and documents part

The run `PtrFifoEmpty` is found violated, as listed in `PROJECT.json`,
"findings": `base.c:816` asks `errno` and not what `sem_trywait` returned, so a
pointer that is there is reported as "empty" (`base.c:809`), and its permit is
lost; the request of the histories hoardling is then answered by nobody, and
after three hours the daemon ends itself.

Seen while modelling, kept in the models as the code has them, without a run.
In the Go program:

* `esi.go:313`: `esiSetTimeout` replaces a longer backoff by a shorter one, which
  the comment of `esi.go:80` does not expect.
* `esi.go:121`: the backoff after a 500 or a 503 is 20 ns, while 20 s are logged.
* `esi.go:257`: the cache of the token ignores its mutex and for which secrets
  it was filled.
* `history.go:109`: two goroutines that call `Close` at once: the second fails,
  against the comment of `history.go:107`.
* `history.go:62`: `Dates` are Local times, so asking for the UTC midnight of a
  day of the file finds nothing and reports no error.
* `history.go:150-190`: every error return after `os.CreateTemp` leaves the
  temporary file open and on disk, with no handle for anyone.
* `history.go:117`: when the removal fails, `closed` stays false, every later
  `Close` fails on the closed file, and the file stays.
* `main.go:178`: the history worker is told of orders before they are stored, and
  may take its markets from the empty initial dump (comment of `main.go:177`).
* `main.go:320`: a Local midnight is never `==` a UTC date, so every incremental
  day is served without rows (comment of `history.go:239`; on a machine whose
  zone is UTC itself `time.Local` still differs by pointer).
* `main.go:129`: an attempt that begins after midnight asks for the day that has
  just ended and is not out, and leaves out the one it was due for; each further
  midnight leaves out another.  `HistoryClock` does so: `LeavesOutMidnightsOnly`
  counts them, `AsksForPublishedDay` is about attempts of the day they were due.
* `main.go:311-321`: the 11:15 and the days are those of the machine's zone, while
  the ESI publishes in UTC: east of UTC the last day of the full download may
  miss, and a day be asked for before it is out; further west than 11:15 a day may
  be asked for again.  Both properties say where.
* `esi.go:257`, `299`: nothing holds a token from the look at its expiry to the
  send, with no margin: one that ends on the way gets its structure forbidden.
* `main.go:171`: a download that fails at once is tried again at once.
* `location.go:103`: any error status makes a structure forbidden for good.
* `location.go:97`: a station that is missing from the tables fails every
  download at the same point.

In the daemon:

* `base.c:559-572`: a timeout of 0, which should wait for ever (`base.c:738`,
  `775`), is for the mutex a deadline that has passed: contention is a panic.
* `base.c:911`: `date_parse` counts days from 0 and `date_utc` from 1, so initial
  and daily dumps name the same day differently; `date_incr` skips the first of
  January of the initial download and visits an empty last day of the year before.
* `esi.c:247`: the whole body is asked whether it is an integer, so the timeout
  of a 504 is never believed; if it were, up to `INT_MAX` seconds would pass, and
  the assertion of `esi.c:226` stop the daemon.
* `esi.c:548`: the body of an error that does not decode leaves an uninitialised
  string, which is destroyed all the same: undefined.
* `esi.c:588`: `modified` is read from the header "Expires".
* `esi.c:393-396`: an error returns with `sso_access_token_mu` held.
* `esi.c:118`: the request for a token has no timeout (`curl_easy_reset` at 57), so
  that a call may hang for ever; and the end of the token counts from after the
  answer (`esi.c:196`), so that a slow login gives a dead one to calls that neither
  wait nor retry.
* `esi.c:324`, `locations.c:208`: a call that waits for a long backoff sends an
  old token, and its refusal makes the structure forbidden for good.
* `dump.c:48`: `dump_record_pop` copies the entry it removes over the last one;
  unless it is the last, the record then lacks a dump under way and has a path
  that was freed (burnt, it is freed twice).
* `dump.c:172-177`: the file is closed before it is taken off the record.
* `dump.c:99-104`: a dump between `fopen` and its entry survives the burn.
* `dump.c:107-168`: a write that fails leaves half a dump under its final name and
  its entry in the record for good; sixteen of them fail the assertion of
  `dump.c:25`, with the mutex held.
* `hoardling.c:200`: a lent vector that cannot be filled is not given back.
* `hoardling.c:340`: the three hours are of the clock, and nothing bounds a download
  of all orders: a slow one that would have answered ends the daemon.  The answer
  is then written into memory of a thread that has returned.
* `hoardling.c:306`, `364`: half a dump counts as a dump, also after a restart.
* `hoardling.c:361-364`: a restart after 11:15 that finds the dump of two days ago
  misses the day before ("this does not realy mater").
* `hoardling.c:403`, `571`: the seventh try sleeps for an uninitialised time.
* `hoardling.c:536`: the vector of the markets is leaked by each daily round.
* `hoardling.c:547`: the branch of two days is dead.
* `hoardling.c:558`: every row is downloaded into the vector that is dumped, so
  the dump of a day holds all the days the ESI has, under the one date.
* `hoardling.c:101`: a location dump that fails is repeated only when another new
  location turns up.
* `locations.c`: the location dump has no length of its table, and
  `emdtojson.py:18` reads one; its checksum (line 14) leaves out the strings.

## 6. Not modelled

Regions, CSV tables and the logging flag are constants.  JSON decoding, the text
of pages, prices, names and log lines are data no property reads.  Several
authenticated goroutines (`esi.go:54-56` is read and written without its mutex)
are outside `SsoToken`, since the program has one.  The data race on the slice
header between `handleHistory` and the history worker's append is outside
`WebServer`, where reading an entry is one step.  An `X-Pages` that lies is
outside `OrderDump`.

Of the daemon, what one thread does alone to its own memory is left out: strings,
vectors, serialisation, the parsing of each field, the JSON and CSV readers, the
environment, `server.c` and `test.c`.  Of `esi.c`, the options of curl are
abstracted to their failure, and so are the mutexes that guard single reads and
writes.  Undefined behaviour after a double free or the free of an uninitialised
pointer is not followed, nor what the program does between a panic or a failed
assertion and its exit: both return (`base.c:90-104`) after burning the record,
and the assertion of `dump.c:25` on sixteen entries is left out of `DumpRecord`.
Also left out, since no property depends on them: the errors of `esi.go:89-98`
(`NewRequest`, no secrets) and of `os.CreateTemp` (`history.go:141-144`), and the
error return of `esi.c:393-396` with a mutex held.  Zones that change in the year,
and the rows of incremental entries, are outside `HistoryClock`.  56015 of the 60874 lines of C are the byte arrays of
`stations.csv.h` and `systems.csv.h`, generated from tables: they have no
behaviour, which bounds the share of the C lines that any model can cover.

## 7. Plan

1. **Done**: the Go program and the daemon, as above; every invariant and every
   action property the runs check is proved, and so are the refinements of
   `RetryBudget` (twice) and `BoundedQueue`.
2. **More to state and prove**: an abstract specification of the server (each
   handler answers from one dump of each kind) with `WebServer` as its
   refinement; one of a snapshot (a set of rows, read as a whole) with
   `HistorySnapshot` as its refinement; the deadlock freedom of the channel as an
   invariant.
3. **Further composition**: `Hoardlings` over several `PtrFifo` in place of
   queues, and `DumpRecord` under `HistoryArchive`, so that a partial dump is
   made by the steps that make it.
