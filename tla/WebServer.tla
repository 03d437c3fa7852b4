----------------------------- MODULE WebServer ------------------------------
(***************************************************************************)
(* src/examples/web-server/main.go: a history worker and an order worker    *)
(* fill three globals, each behind a sync.RWMutex, that the HTTP handlers   *)
(* encode to their clients under the read lock.  The exit of any worker, or *)
(* a signal, cancels the context of all.  The downloads of the library are  *)
(* single steps that succeed, or fail as they do once cancelled.            *)
(***************************************************************************)
EXTENDS Naturals, Sequences

CONSTANTS
  Request,   \* requests the HTTP server handles at a time
  MaxDumps,  \* bound on the order dumps downloaded
  MaxDates   \* bound on the days of history: dates are 1..MaxDates

Mutex == {"orders", "locations", "histories"}
Worker == {"history", "order", "http"}

ASSUME ServerAssumption ==
  /\ Request \cap Worker = {}
  /\ MaxDumps \in Nat /\ MaxDates \in Nat

Kind == {"index", "location", "order", "history"}

VARIABLES
  pc,         \* where each worker and main are
  readers,    \* readers[m]: who holds the read lock of m
  wlock,      \* wlock[m]: "free", or its one writer is "pending" or "in"
  orders,     \* number of the order dump served; 0 is the empty initial one
  fetched,    \* globalOrdersFetched: is there a token in the channel?
  histories,  \* dates of the entries of globalHistories
  active,     \* the order dump the active markets were last taken from
  todo,       \* dates the history worker still has to publish
  fullDone,   \* is its full download over?
  cancelled, \* is the context cancelled?
  at,         \* at[r]: where the handler of r is: a mutex, a step or "idle"
  kind,       \* kind[r]: which handler it is
  date,       \* date[r]: the date of a history request
  index       \* index[r]: the entry handleHistory found

historyVars == <<active, todo, fullDone>>
workerVars == <<pc, fetched, cancelled, historyVars>>
lockVars == <<readers, wlock>>
dataVars == <<orders, histories>>
handlerVars == <<at, kind, date, index>>
vars == <<workerVars, lockVars, dataVars, handlerVars>>

Init ==
  /\ pc = [history |-> "signal", order |-> "loop", http |-> "serve",
           main |-> "wait"]
  /\ readers = [m \in Mutex |-> {}] /\ wlock = [m \in Mutex |-> "free"]
  /\ orders = 0 /\ histories = <<>>
  /\ fetched = FALSE /\ active = 0 /\ todo = <<>> /\ fullDone = FALSE
  /\ cancelled = FALSE
  /\ at = [r \in Request |-> "idle"] /\ kind = [r \in Request |-> "index"]
  /\ date = [r \in Request |-> 1] /\ index = [r \in Request |-> 0]
-----------------------------------------------------------------------------
\* sync.RWMutex: a writer that waits keeps new readers out.
RLock(p, m) ==
  /\ wlock[m] = "free"
  /\ readers' = [readers EXCEPT ![m] = @ \cup {p}]
  /\ UNCHANGED wlock

RUnlock(p, ms) ==
  /\ readers' = [m \in Mutex |-> IF m \in ms THEN readers[m] \ {p} ELSE readers[m]]
  /\ UNCHANGED wlock

AnnounceLock(m) ==
  wlock' = [wlock EXCEPT ![m] = "pending"] /\ UNCHANGED readers

EnterLock(m) ==
  /\ readers[m] = {}
  /\ wlock' = [wlock EXCEPT ![m] = "in"]
  /\ UNCHANGED readers

Unlock(m) == wlock' = [wlock EXCEPT ![m] = "free"] /\ UNCHANGED readers

Step(p, from, to) == pc[p] = from /\ pc' = [pc EXCEPT ![p] = to]

\* A step of a worker that moves its program counter and nothing else, and one
\* that does something to a lock besides.
Move(p, from, to) ==
  Step(p, from, to)
  /\ UNCHANGED <<fetched, cancelled, historyVars, lockVars, dataVars, handlerVars>>
Locking(p, from, to, lockStep) ==
  Step(p, from, to) /\ lockStep
  /\ UNCHANGED <<fetched, cancelled, historyVars, dataVars, handlerVars>>
-----------------------------------------------------------------------------
\* historyWorker.  It waits for the signal of the order worker.
AwaitOrders ==
  \/ cancelled /\ Move("history", "signal", "returned")
  \/ /\ fetched /\ Step("history", "signal", "rlock") /\ fetched' = FALSE
     /\ UNCHANGED <<cancelled, historyVars, lockVars, dataVars, handlerVars>>

\* getActiveMarkets, for the full download or for an incremental one.
LockMarkets == Locking("history", "rlock", "active", RLock("history", "orders"))
ReadMarkets ==
  /\ Step("history", "active", IF fullDone THEN "increment" ELSE "full")
  /\ active' = orders
  /\ RUnlock("history", {"orders"})
  /\ UNCHANGED <<fetched, cancelled, todo, fullDone, dataVars, handlerVars>>

\* DownloadFullHistoryDump: no markets, no dates.  Its latest dates remain to
\* be published; an error ends the worker.
FullDownload ==
  \/ Move("history", "full", "returned")
  \/ /\ Step("history", "full", "put")
     /\ \E n \in 0..MaxDates :
          (active = 0 => n = 0) /\ todo' = [d \in 1..n |-> d]
     /\ UNCHANGED <<fetched, cancelled, active, fullDone, lockVars, dataVars,
                    handlerVars>>

\* GetHistoryDataForDay for the next date, which a cancelled context fails.
PutNextDate ==
  /\ todo # <<>>
  /\ \/ cancelled /\ Move("history", "put", "returned")
     \/ Locking("history", "put", "lock", AnnounceLock("histories"))

EnterHistories == Locking("history", "lock", "append", EnterLock("histories"))

AppendHistory ==
  /\ Step("history", "append", IF fullDone THEN "loop" ELSE "put")
  /\ histories' = Append(histories, Head(todo)) /\ todo' = Tail(todo)
  /\ Unlock("histories")
  /\ UNCHANGED <<fetched, cancelled, active, fullDone, orders, handlerVars>>

\* snapshot.Close ends the full download, or the worker.
CloseSnapshot ==
  /\ todo = <<>>
  /\ \/ Move("history", "put", "returned")
     \/ /\ Step("history", "put", "loop") /\ fullDone' = TRUE
        /\ UNCHANGED <<fetched, cancelled, active, todo, lockVars, dataVars,
                       handlerVars>>

LastDate == IF histories = <<>> THEN 0 ELSE histories[Len(histories)]

\* The loop: the worker sleeps until 11:15, or until the context ends.
HistoryLoop ==
  \/ cancelled /\ Move("history", "loop", "returned")
  \/ ~cancelled /\ LastDate < MaxDates /\ Move("history", "loop", "rlock")

\* An error is retried at once; otherwise yesterday's entry is published.
IncrementalDownload ==
  \/ Move("history", "increment", "loop")
  \/ /\ Step("history", "increment", "lock") /\ AnnounceLock("histories")
     /\ todo' = <<LastDate + 1>>
     /\ UNCHANGED <<fetched, cancelled, active, fullDone, dataVars, handlerVars>>

HistoryStep ==
  \/ AwaitOrders \/ LockMarkets \/ ReadMarkets \/ FullDownload \/ PutNextDate
  \/ EnterHistories \/ AppendHistory \/ CloseSnapshot \/ HistoryLoop
  \/ IncrementalDownload
-----------------------------------------------------------------------------
\* orderWorker.  It sleeps until the dump expires, or until the context ends.
OrderLoop ==
  \/ cancelled /\ Move("order", "loop", "returned")
  \/ ~cancelled /\ orders < MaxDumps /\ Move("order", "loop", "fetch")

\* DownloadOrderDump; an error is retried at once.
FetchOrders == Move("order", "fetch", "tell") \/ Move("order", "fetch", "loop")

\* The signal to the history worker, dropped if one is pending.
TellHistory ==
  /\ Step("order", "tell", "announce") /\ fetched' = TRUE
  /\ UNCHANGED <<cancelled, historyVars, lockVars, dataVars, handlerVars>>

AwaitOrdersLock == Locking("order", "announce", "lock", AnnounceLock("orders"))

EnterAnyway ==   \* mutant: the readers are not waited for
  Locking("order", "lock", "write", AnnounceLock("orders"))

EnterOrders == Locking("order", "lock", "write", EnterLock("orders"))

WriteOrdersLocked ==   \* mutant: the unlock is deferred to the end
  /\ Step("order", "write", "rlock") /\ orders' = orders + 1
  /\ UNCHANGED <<fetched, cancelled, historyVars, lockVars, histories, handlerVars>>

WriteOrders ==
  /\ Step("order", "write", "rlock") /\ orders' = orders + 1
  /\ Unlock("orders")
  /\ UNCHANGED <<fetched, cancelled, historyVars, histories, handlerVars>>

\* getUnknownLocations: whether there are any is the orders' business.
LockLocations == Locking("order", "rlock", "unknown", RLock("order", "locations"))
ReadLocations ==
  \E next \in {"fetchLocations", "loop"} :
    Locking("order", "unknown", next, RUnlock("order", {"locations"}))

\* DownloadLocationDump, and the new locations appended to the known ones.
FetchLocations ==
  \/ Move("order", "fetchLocations", "loop")
  \/ Locking("order", "fetchLocations", "lockLocations", AnnounceLock("locations"))
EnterLocations ==
  Locking("order", "lockLocations", "writeLocations", EnterLock("locations"))
WriteLocations == Locking("order", "writeLocations", "loop", Unlock("locations"))

OrderStep ==
  \/ OrderLoop \/ FetchOrders \/ TellHistory \/ AwaitOrdersLock \/ EnterOrders
  \/ WriteOrders \/ LockLocations \/ ReadLocations \/ FetchLocations
  \/ EnterLocations \/ WriteLocations
-----------------------------------------------------------------------------
\* httpServerWorker: the context ends or the listener fails; Shutdown waits at
\* most one second for the handlers, so it returns whatever they do.
HttpStep ==
  Move("http", "serve", "shutdown") \/ Move("http", "shutdown", "returned")

\* cancel(): every worker's context ends.
CancelContext ==
  cancelled' = TRUE
  /\ UNCHANGED <<fetched, historyVars, lockVars, dataVars, handlerVars>>

\* The goroutine around each worker: mainWg.Done(), then cancel().
WgDone(w) == Move(w, "returned", "cancel")
ExitQuietly(w) == Move(w, "cancel", "exited")   \* mutant: no cancel()
WorkerCancels(w) == Step(w, "cancel", "exited") /\ CancelContext

\* main: a signal, or the end of the context, then mainWg.Wait().
Signal == Step("main", "wait", "join") /\ CancelContext
MainStep ==
  \/ cancelled /\ Move("main", "wait", "join")
  \/ /\ \A w \in Worker : pc[w] \in {"cancel", "exited"}
     /\ Move("main", "join", "done")
-----------------------------------------------------------------------------
\* The handlers.  They stop with the process, when main returns.
Alive == pc["main"] # "done"

\* The lock a handler takes first, and what it does once it has lock m.
First(k) == CASE k \in {"index", "location"} -> "locations"
              [] k = "order" -> "orders"
              [] k = "history" -> "histories"
After(k, m) ==
  IF k = "index" /\ m = "locations" THEN "histories"
  ELSE IF k = "index" /\ m = "histories" THEN "orders"
  ELSE IF k = "history" THEN "search" ELSE "send"

Accept(r) ==
  /\ Alive /\ pc["http"] = "serve" /\ at[r] = "idle"
  /\ \E k \in Kind :
       /\ kind' = [kind EXCEPT ![r] = k]
       /\ at' = [at EXCEPT ![r] = First(k)]
       /\ IF k = "history" THEN \E d \in 1..MaxDates : date' = [date EXCEPT ![r] = d]
                           ELSE UNCHANGED date
  /\ UNCHANGED <<index, workerVars, lockVars, dataVars>>

HandlerLocks(r) ==
  /\ Alive /\ at[r] \in Mutex
  /\ RLock(r, at[r])
  /\ at' = [at EXCEPT ![r] = After(kind[r], at[r])]
  /\ UNCHANGED <<kind, date, index, workerVars, dataVars>>

\* The handler returns; what it held in its variables is gone.
Finish(r) ==
  /\ at' = [at EXCEPT ![r] = "idle"]
  /\ kind' = [kind EXCEPT ![r] = "index"]
  /\ date' = [date EXCEPT ![r] = 1]
  /\ index' = [index EXCEPT ![r] = 0]

\* handleHistory gives the lock back before it writes, or answers 404.
Search(r) ==
  /\ Alive /\ at[r] = "search"
  /\ RUnlock(r, {"histories"})
  /\ \/ /\ \A n \in DOMAIN histories : histories[n] # date[r]
        /\ Finish(r)
     \/ \E n \in DOMAIN histories :
          /\ histories[n] = date[r]
          /\ \A m \in 1..(n - 1) : histories[m] # date[r]
          /\ at' = [at EXCEPT ![r] = "send"]
          /\ index' = [index EXCEPT ![r] = n]
          /\ UNCHANGED <<kind, date>>
  /\ UNCHANGED <<workerVars, dataVars>>

\* The client has taken the whole answer: the read locks are released.
Sent(r) ==
  /\ Alive /\ at[r] = "send"
  /\ Finish(r)
  /\ RUnlock(r, Mutex)
  /\ UNCHANGED <<workerVars, dataVars>>

Handle(r) == HandlerLocks(r) \/ Search(r) \/ Sent(r)

\* The process is gone.
Terminated == ~Alive /\ UNCHANGED vars

Next ==
  \/ Alive /\ (HistoryStep \/ OrderStep \/ HttpStep)
  \/ Alive /\ \E w \in Worker : WgDone(w) \/ WorkerCancels(w)
  \/ Signal \/ MainStep
  \/ \E r \in Request : Accept(r) \/ Handle(r)
  \/ Terminated

Spec == Init /\ [][Next]_vars

\* Goroutines run; an RWMutex admits every reader and its writer in turn; and
\* clients take the answers they asked for.  The listener need not fail, nor
\* a signal come.
FairSpec ==
  /\ Spec
  /\ WF_vars(Alive /\ HistoryStep) /\ SF_vars(Alive /\ LockMarkets)
  /\ SF_vars(Alive /\ EnterHistories)
  /\ WF_vars(Alive /\ OrderStep) /\ SF_vars(Alive /\ LockLocations)
  /\ WF_vars(Alive /\ (cancelled \/ pc["http"] # "serve") /\ HttpStep)
  /\ \A w \in Worker : WF_vars(Alive /\ (WgDone(w) \/ WorkerCancels(w)))
  /\ WF_vars(MainStep)
  /\ \A r \in Request : WF_vars(Handle(r)) /\ SF_vars(HandlerLocks(r))
-----------------------------------------------------------------------------
\* Who reads the orders and the locations, and who writes them, as the program
\* points say, whatever the locks.
SendsOrders == \E r \in Request : at[r] = "send" /\ kind[r] \in {"index", "order"}
SendsLocations ==
  \E r \in Request : at[r] = "send" /\ kind[r] \in {"index", "location"}

\* No dump is replaced while a handler encodes it to a client or the history
\* worker takes its markets from it.
NoDumpReplacedInUse ==
  /\ pc["order"] = "write" => ~SendsOrders /\ pc["history"] # "active"
  /\ pc["order"] = "writeLocations" => ~SendsLocations

\* Whichever worker returns first, or if a signal comes, the others return too
\* and main ends: no worker waits for ever for a lock, a signal or a sleep.
StopsTogether ==
  (cancelled \/ \E w \in Worker : pc[w] = "returned") ~> pc["main"] = "done"

\* A request is answered, unless the process stops: the order of the locks that
\* handleIndex takes and the writers' turns never block each other.
RequestsAreAnswered ==
  \A r \in Request : at[r] # "idle" ~> (at[r] = "idle" \/ ~Alive)
=============================================================================
