--------------------------- MODULE WebServerProofs ---------------------------
(***************************************************************************)
(* The dumps of the example server are not replaced while they are read,    *)
(* for any number of requests.  NoDumpReplacedInUse speaks of program       *)
(* points only; the inductive invariant relates them to the locks.          *)
(* Below, the schedule of its history worker.                               *)
(***************************************************************************)
EXTENDS WebServer, HistoryClock, TLAPS

Place == Mutex \cup {"idle", "search", "send"}

\* The types the argument needs.
Types ==
  /\ DOMAIN pc = Worker \cup {"main"}
  /\ DOMAIN readers = Mutex
  /\ wlock \in [Mutex -> {"free", "pending", "in"}]
  /\ at \in [Request -> Place] /\ kind \in [Request -> Kind]

\* A writer that is in has no reader beside it.
Exclusive == \A m \in Mutex : wlock[m] = "in" => readers[m] = {}

\* Workers write under the lock, and the history worker reads under it.
WorkersLock ==
  /\ pc["order"] = "write" => wlock["orders"] = "in"
  /\ pc["order"] = "writeLocations" => wlock["locations"] = "in"
  /\ pc["history"] = "active" => "history" \in readers["orders"]

\* A handler takes the locks of its kind in their order, and keeps them.
HandlerLocksHeld(r) ==
  /\ kind[r] = "location" => at[r] \in {"locations", "send", "idle"}
  /\ kind[r] = "order" => at[r] \in {"orders", "send", "idle"}
  /\ kind[r] = "index" => at[r] # "search"
  /\ kind[r] = "history" => at[r] \in {"histories", "search", "send", "idle"}
  /\ at[r] = "send" /\ kind[r] \in {"index", "order"} => r \in readers["orders"]
  /\ at[r] = "send" /\ kind[r] \in {"index", "location"} => r \in readers["locations"]
  /\ at[r] \in {"histories", "orders"} /\ kind[r] = "index" => r \in readers["locations"]

HandlersLock == \A r \in Request : HandlerLocksHeld(r)

IInv == Types /\ Exclusive /\ WorkersLock /\ HandlersLock

LEMMA InitLocks == Init => IInv
BY DEF Init, IInv, Types, Exclusive, WorkersLock, HandlersLock, HandlerLocksHeld,
       Worker, Mutex, Place, Kind

\* Nothing a worker does moves a handler or takes a lock away from it.
LEMMA HistoryLocks ==
  ASSUME IInv, HistoryStep
  PROVE  IInv'
<1> USE ServerAssumption DEF IInv, Types, Worker, Mutex, Step, Locking, Move,
      historyVars, lockVars, dataVars, handlerVars
<1>1. UNCHANGED handlerVars /\ Types' /\ pc'["order"] = pc["order"]
  BY DEF HistoryStep, AwaitOrders, LockMarkets, ReadMarkets, FullDownload, PutNextDate,
         EnterHistories, AppendHistory, CloseSnapshot, HistoryLoop,
         IncrementalDownload, RLock, RUnlock, AnnounceLock, EnterLock, Unlock
<1>2. Exclusive' /\ WorkersLock'
  BY DEF Exclusive, WorkersLock, HistoryStep, AwaitOrders, LockMarkets, ReadMarkets,
         FullDownload, PutNextDate, EnterHistories, AppendHistory, CloseSnapshot,
         HistoryLoop, IncrementalDownload, RLock, RUnlock, AnnounceLock, EnterLock,
         Unlock
<1>3. \A m \in Mutex, r \in Request : r \in readers[m] => r \in readers'[m]
  BY DEF HistoryStep, AwaitOrders, LockMarkets, ReadMarkets, FullDownload, PutNextDate,
         EnterHistories, AppendHistory, CloseSnapshot, HistoryLoop,
         IncrementalDownload, RLock, RUnlock, AnnounceLock, EnterLock, Unlock
<1>4. HandlersLock'
  BY <1>1, <1>3 DEF HandlersLock, HandlerLocksHeld
<1> QED
  BY <1>1, <1>2, <1>4

LEMMA OrderLocks ==
  ASSUME IInv, OrderStep
  PROVE  IInv'
<1> USE ServerAssumption DEF IInv, Types, Worker, Mutex, Step, Locking, Move,
      historyVars, lockVars, dataVars, handlerVars
<1>1. UNCHANGED handlerVars /\ Types' /\ pc'["history"] = pc["history"]
  BY DEF OrderStep, OrderLoop, FetchOrders, TellHistory, AwaitOrdersLock, EnterOrders,
         WriteOrders, LockLocations, ReadLocations, FetchLocations, EnterLocations,
         WriteLocations, RLock, RUnlock, AnnounceLock, EnterLock, Unlock
<1>2. Exclusive' /\ WorkersLock'
  BY DEF Exclusive, WorkersLock, OrderStep, OrderLoop, FetchOrders, TellHistory,
         AwaitOrdersLock, EnterOrders, WriteOrders, LockLocations, ReadLocations,
         FetchLocations, EnterLocations, WriteLocations, RLock, RUnlock,
         AnnounceLock, EnterLock, Unlock
<1>3. \A m \in Mutex, r \in Request : r \in readers[m] => r \in readers'[m]
  BY DEF OrderStep, OrderLoop, FetchOrders, TellHistory, AwaitOrdersLock, EnterOrders,
         WriteOrders, LockLocations, ReadLocations, FetchLocations, EnterLocations,
         WriteLocations, RLock, RUnlock, AnnounceLock, EnterLock, Unlock
<1>4. HandlersLock'
  BY <1>1, <1>3 DEF HandlersLock, HandlerLocksHeld
<1> QED
  BY <1>1, <1>2, <1>4

\* What is left of the workers and main touches no lock.
LEMMA OtherWorkersLock ==
  ASSUME IInv,
         \/ HttpStep \/ Signal \/ MainStep
         \/ \E w \in Worker : WgDone(w) \/ WorkerCancels(w)
  PROVE  IInv'
<1> USE DEF IInv, Types, Worker, Mutex, Step, Move, CancelContext, HttpStep, Signal,
            MainStep, WgDone, WorkerCancels, historyVars, lockVars, dataVars,
            handlerVars
<1>1. UNCHANGED <<handlerVars, lockVars>>
  OBVIOUS
<1>2. Types' /\ Exclusive'
  BY <1>1 DEF Exclusive
<1>3. WorkersLock'
  BY <1>1 DEF WorkersLock
<1>4. HandlersLock'
  BY <1>1 DEF HandlersLock, HandlerLocksHeld
<1> QED
  BY <1>2, <1>3, <1>4

\* A handler adds itself to readers of a lock nobody writes, or removes itself.
LEMMA RequestLocks ==
  ASSUME IInv, NEW r \in Request, Accept(r) \/ Handle(r)
  PROVE  IInv'
<1> USE ServerAssumption DEF IInv, Types, Worker, Mutex, Kind, workerVars, lockVars,
      dataVars
<1>1. UNCHANGED <<pc, wlock>>
  BY DEF Accept, Handle, HandlerLocks, Search, Sent, RLock, RUnlock
<1>2. Types'
  BY <1>1 DEF Accept, Handle, HandlerLocks, Search, Sent, Finish, RLock, RUnlock, Place,
              First, After
<1>3. /\ \A m \in Mutex : wlock[m] # "free" => readers'[m] \subseteq readers[m]
      /\ \A m \in Mutex, p \in Worker : p \in readers[m] => p \in readers'[m]
      /\ \A m \in Mutex, q \in Request \ {r} : q \in readers[m] => q \in readers'[m]
  BY DEF Accept, Handle, HandlerLocks, Search, Sent, RLock, RUnlock
<1>4. Exclusive' /\ WorkersLock'
  BY <1>1, <1>3 DEF Exclusive, WorkersLock
<1>5. ASSUME NEW q \in Request \ {r} PROVE HandlerLocksHeld(q)'
  <2>1. at'[q] = at[q] /\ kind'[q] = kind[q]
    BY DEF Accept, Handle, HandlerLocks, Search, Sent, Finish
  <2> QED
    BY <1>3, <2>1 DEF HandlersLock, HandlerLocksHeld
<1>6. HandlerLocksHeld(r)'
  <2>1. CASE Accept(r)
    BY <2>1 DEF Accept, First, HandlerLocksHeld
  <2>2. CASE HandlerLocks(r)
    BY <2>2 DEF HandlerLocks, RLock, After, HandlersLock, HandlerLocksHeld
  <2>3. CASE Search(r)
    BY <2>3 DEF Search, Finish, RUnlock, HandlersLock, HandlerLocksHeld
  <2>4. CASE Sent(r)
    BY <2>4 DEF Sent, Finish, HandlerLocksHeld
  <2> QED
    BY <2>1, <2>2, <2>3, <2>4 DEF Handle
<1>7. HandlersLock'
  BY <1>5, <1>6 DEF HandlersLock
<1> QED
  BY <1>2, <1>4, <1>7

LEMMA NextLocks == IInv /\ [Next]_vars => IInv'
<1> SUFFICES ASSUME IInv, [Next]_vars PROVE IInv'
  OBVIOUS
<1>1. CASE UNCHANGED vars
  BY <1>1 DEF vars, workerVars, lockVars, handlerVars, IInv, Types, Exclusive,
              WorkersLock, HandlersLock, HandlerLocksHeld
<1>2. CASE Next
  BY <1>1, <1>2, HistoryLocks, OrderLocks, OtherWorkersLock, RequestLocks
     DEF Next, Terminated
<1> QED
  BY <1>1, <1>2

\* The order worker writes only when it is the writer that is in, and who sends
\* or reads is a reader of the same lock.
LEMMA LocksProtect == IInv => NoDumpReplacedInUse
BY DEF IInv, Types, Exclusive, WorkersLock, HandlersLock, HandlerLocksHeld,
       NoDumpReplacedInUse, SendsOrders, SendsLocations, Mutex

\* For any number of requests, no dump is replaced while a handler encodes it or
\* the history worker takes its markets from it.
THEOREM DumpsAreSafe == Spec => []NoDumpReplacedInUse
  BY InitLocks, NextLocks, LocksProtect, PTL DEF Spec
-----------------------------------------------------------------------------
(***************************************************************************)
(* The schedule of the history worker: module HistoryClock, for any machine *)
(* and downloads of any length.  Days are quotients: two lemmas say all     *)
(* that is needed of them.                                                  *)
(***************************************************************************)

LEMMA DivIs ==
  ASSUME NEW d \in Nat \ {0}, NEW k \in Int, NEW t \in Int, k * d <= t, t < k * d + d
  PROVE  t \div d = k
OBVIOUS

LEMMA DivBounds ==
  ASSUME NEW d \in Nat \ {0}, NEW t \in Int
  PROVE  /\ t \div d \in Int
         /\ (t \div d) * d <= t /\ t < (t \div d) * d + d
OBVIOUS

\* Whole days do not decrease with time.
LEMMA DivAtLeast ==
  ASSUME NEW d \in Nat \ {0}, NEW k \in Int, NEW t \in Int, k * d <= t
  PROVE  k <= t \div d
<1> DEFINE q == t \div d
<1>1. q \in Int /\ t < q * d + d
  BY DivBounds
<1> HIDE DEF q
<1>2. SUFFICES ASSUME q + 1 <= k PROVE FALSE
  BY <1>1
<1>3. (q + 1) * d <= k * d
  BY <1>1, <1>2
<1>4. (q + 1) * d = q * d + d
  BY <1>1
<1> QED
  BY <1>1, <1>3, <1>4

LEMMA DivMonotonic ==
  ASSUME NEW d \in Nat \ {0}, NEW s \in Int, NEW t \in Int, s <= t
  PROVE  s \div d <= t \div d
<1> DEFINE q == s \div d
<1>1. q \in Int /\ q * d <= s
  BY DivBounds
<1> HIDE DEF q
<1>2. q * d \in Int
  BY <1>1
<1>3. q <= t \div d
  BY <1>1, <1>2, DivAtLeast
<1> QED
  BY <1>3 DEF q

ClockTypes ==
  /\ now \in Nat /\ began \in Nat /\ began <= now
  /\ zone \in Int /\ -Day < zone /\ zone < Day
  /\ expiration \in Int /\ requestDate \in Int
  /\ globalHistories \in Seq(Int)

LastDay == globalHistories[Len(globalHistories)]

\* The histories expire at 11:15 of local day k: the last entry is not older than
\* two days, but for the joint, and, but in the far west, of a day gone by.  A
\* download under way asks for the eve of its beginning.
DueOn(k) ==
  /\ expiration + zone = k * Day + ElevenFifteen
  /\ Len(globalHistories) >= Latest /\ LastDay \in Int
  /\ k - 2 - Joint <= LastDay
  /\ zone >= -ElevenFifteen => LastDay + 1 <= LocalDay(now)
  /\ schedule = "incremental" =>
       /\ expiration <= began /\ requestDate = LocalDay(began) - 1
       /\ zone >= -ElevenFifteen => LastDay <= requestDate

\* What every step of the schedule keeps.
ClockInv ==
  /\ ClockTypes
  /\ IF schedule = "full" THEN globalHistories = <<>> ELSE \E k \in Int : DueOn(k)

\* The schedule begins with the full download.
LEMMA ClockBegins == ClockInit => ClockInv
BY ClockAssumption DEF ClockInv, ClockInit, ClockTypes

\* Local days are integers, which only time makes greater.
LEMMA LocalDays ==
  ASSUME ClockTypes, NEW s \in Int, NEW t \in Int, s <= t
  PROVE  LocalDay(s) \in Int /\ LocalDay(s) <= LocalDay(t)
<1>1. s + zone \in Int /\ t + zone \in Int /\ s + zone <= t + zone /\ Day \in Nat \ {0}
  BY ClockAssumption DEF ClockTypes
<1> QED
  BY <1>1, DivBounds, DivMonotonic DEF LocalDay

\* The expiration is on day k.
LEMMA ExpiresOn ==
  ASSUME ClockTypes, NEW k \in Int, expiration + zone = k * Day + ElevenFifteen
  PROVE  LocalDay(expiration) = k
<1>1. k * Day \in Int /\ expiration + zone \in Int
  BY ClockAssumption DEF ClockTypes
<1>2. k * Day <= expiration + zone /\ expiration + zone < k * Day + Day
  BY <1>1, ClockAssumption
<1> QED
  BY <1>1, <1>2, DivIs, ClockAssumption DEF LocalDay

\* FullEnds: whenever it began and ended, on whatever machine, its last day is
\* not older than two days before the expiration, or three east of UTC.
LEMMA FullKeeps == ClockInv /\ FullEnds => ClockInv'
<1> SUFFICES ASSUME ClockInv, FullEnds PROVE ClockInv'
  OBVIOUS
<1> USE ClockAssumption
<1>1. ClockTypes /\ schedule' = "loop" /\ UNCHANGED <<now, zone, began, requestDate>>
  BY DEF ClockInv, FullEnds
<1> DEFINE b == LocalDay(began)
           last == Published(now)
<1>2. b \in Int /\ b * Day \in Int /\ b * Day <= began + zone
  <2>1. began + zone \in Int
    BY <1>1 DEF ClockTypes
  <2>2. b \in Int /\ b * Day <= began + zone
    BY <2>1, DivBounds DEF LocalDay
  <2> QED
    BY <2>2
<1>3. last \in Int
  <2>1. now - ElevenFifteen \in Int
    BY <1>1 DEF ClockTypes
  <2>2. (now - ElevenFifteen) \div Day \in Int
    BY <2>1, DivBounds
  <2> QED
    BY <2>2 DEF Published
<1>4. ASSUME NEW k \in Int, k * Day <= began - ElevenFifteen PROVE k - 1 <= last
  <2>1. now - ElevenFifteen \in Int /\ k * Day \in Int /\ k * Day <= now - ElevenFifteen
    BY <1>1, <1>4 DEF ClockTypes
  <2>2. k <= (now - ElevenFifteen) \div Day /\ (now - ElevenFifteen) \div Day \in Int
    BY <2>1, DivAtLeast, DivBounds
  <2> QED
    BY <2>2 DEF Published
<1>5. zone >= -ElevenFifteen => last + 1 <= LocalDay(now)
  <2> SUFFICES ASSUME zone >= -ElevenFifteen PROVE last + 1 <= LocalDay(now)
    OBVIOUS
  <2>1. now - ElevenFifteen \in Int /\ now + zone \in Int /\ now - ElevenFifteen <= now + zone
    BY <1>1 DEF ClockTypes
  <2>2. /\ (now - ElevenFifteen) \div Day <= (now + zone) \div Day
        /\ (now - ElevenFifteen) \div Day \in Int
        /\ (now + zone) \div Day \in Int
    BY <2>1, DivMonotonic, DivBounds
  <2>3. (now - ElevenFifteen) \div Day - 1 + 1 <= (now + zone) \div Day
    BY <2>2
  <2> QED
    BY <2>3 DEF Published, LocalDay
<1>6. /\ globalHistories' = [n \in 1..Latest |-> last - Latest + n]
      /\ expiration' = IF began < b * Day + ElevenFifteen - zone
                       THEN b * Day + ElevenFifteen - zone
                       ELSE (b + 1) * Day + ElevenFifteen - zone
  BY DEF FullEnds, ExpirationAfterFull, getElevenFifteenToday, getElevenFifteenTomorrow
<1> HIDE DEF b, last
<1>7. /\ globalHistories' \in Seq(Int) /\ Len(globalHistories') = Latest
      /\ LastDay' = last
  <2>1. globalHistories' \in Seq(Int) /\ Len(globalHistories') = Latest
    BY <1>3, <1>6
  <2>2. globalHistories'[Latest] = last - Latest + Latest
    BY <1>6
  <2> QED
    BY <1>3, <2>1, <2>2 DEF LastDay
<1> DEFINE J == IF zone > 0 THEN 1 ELSE 0
<1>8. PICK k \in Int : /\ expiration' + zone = k * Day + ElevenFifteen
                       /\ k - 2 - J <= last
  <2>1. /\ (b - 1) * Day = b * Day - Day /\ (b - 2) * Day = b * Day - 2 * Day
        /\ (b + 1) * Day = b * Day + Day
    BY <1>2
  <2>2. CASE began < b * Day + ElevenFifteen - zone
    <3>1. expiration' + zone = b * Day + ElevenFifteen
      BY <1>1, <1>2, <1>6, <2>2 DEF ClockTypes
    <3>2. CASE zone > 0
      <4>1. (b - 2) * Day <= began - ElevenFifteen
        BY <1>1, <1>2, <2>1, <3>2 DEF ClockTypes
      <4>2. (b - 2) - 1 <= last
        BY <1>2, <1>4, <4>1
      <4> QED
        BY <1>2, <1>3, <3>1, <3>2, <4>2
    <3>3. CASE zone <= 0
      <4>1. (b - 1) * Day <= began - ElevenFifteen
        BY <1>1, <1>2, <2>1, <3>3 DEF ClockTypes
      <4>2. (b - 1) - 1 <= last
        BY <1>2, <1>4, <4>1
      <4> QED
        BY <1>2, <1>3, <3>1, <3>3, <4>2
    <3> QED
      BY <1>1, <3>2, <3>3 DEF ClockTypes
  <2>3. CASE ~(began < b * Day + ElevenFifteen - zone)
    <3>1. expiration' + zone = (b + 1) * Day + ElevenFifteen /\ b + 1 \in Int
      BY <1>1, <1>2, <1>6, <2>1, <2>3 DEF ClockTypes
    <3>2. CASE zone > 0
      <4>1. (b - 1) * Day <= began - ElevenFifteen
        BY <1>1, <1>2, <2>1, <2>3, <3>2 DEF ClockTypes
      <4>2. (b - 1) - 1 <= last
        BY <1>2, <1>4, <4>1
      <4>3. (b + 1) - 2 - J <= last
        BY <1>2, <1>3, <3>2, <4>2
      <4> QED
        BY <3>1, <4>3
    <3>3. CASE zone <= 0
      <4>1. b * Day <= began - ElevenFifteen
        BY <1>1, <1>2, <2>1, <2>3, <3>3 DEF ClockTypes
      <4>2. b - 1 <= last
        BY <1>2, <1>4, <4>1
      <4>3. (b + 1) - 2 - J <= last
        BY <1>2, <1>3, <3>3, <4>2
      <4> QED
        BY <3>1, <4>3
    <3> QED
      BY <1>1, <3>2, <3>3 DEF ClockTypes
  <2> QED
    BY <2>2, <2>3
<1>9. ClockTypes'
  <2>1. expiration' \in Int
    BY <1>1, <1>2, <1>6 DEF ClockTypes
  <2> QED
    BY <1>1, <1>7, <2>1 DEF ClockTypes
<1>10. DueOn(k)'
  <2>1. Joint' = J
    BY <1>1, <1>7 DEF Joint
  <2>2. LocalDay(now)' = LocalDay(now)
    BY <1>1 DEF LocalDay
  <2> QED
    BY <1>1, <1>3, <1>5, <1>7, <1>8, <2>1, <2>2 DEF DueOn
<1> QED
  BY <1>1, <1>9, <1>10 DEF ClockInv

LEMMA BeginKeeps == ClockInv /\ IncrementalBegins => ClockInv'
<1> SUFFICES ASSUME ClockInv, IncrementalBegins PROVE ClockInv'
  OBVIOUS
<1>1. PICK k \in Int : DueOn(k)
  BY DEF ClockInv, IncrementalBegins
<1>2. /\ ClockTypes /\ began' = now /\ expiration <= now /\ schedule' = "incremental"
      /\ requestDate' = LocalDay(now) - 1
      /\ UNCHANGED <<now, zone, expiration, globalHistories>>
  BY DEF ClockInv, IncrementalBegins, getYesterday, ClockTypes
<1>3. LocalDay(now) \in Int
  BY <1>2, LocalDays DEF ClockTypes
<1>4. ClockTypes'
  BY <1>2, <1>3 DEF ClockTypes
<1>5. LocalDay(began)' = LocalDay(now) /\ LocalDay(now)' = LocalDay(now)
  BY <1>2 DEF LocalDay
<1>6. DueOn(k)'
  BY <1>1, <1>2, <1>3, <1>5 DEF DueOn, LastDay, Joint
<1> QED
  BY <1>2, <1>4, <1>6 DEF ClockInv

\* What the download under way appends: of the day after the last, or of one as
\* much later as the attempt is.
LEMMA EntryFollows ==
  ASSUME ClockInv, IncrementalEnds
  PROVE  /\ requestDate <= LastDay + 1 + Behind + Joint
         /\ requestDate < LastDay => zone < -ElevenFifteen
<1>1. PICK k \in Int : DueOn(k)
  BY DEF ClockInv, IncrementalEnds
<1>2. ClockTypes /\ schedule = "incremental"
  BY DEF ClockInv, IncrementalEnds
<1>3. LocalDay(expiration) = k
  BY <1>1, <1>2, ExpiresOn DEF DueOn
<1>4. LocalDay(began) \in Int
  BY <1>2, LocalDays DEF ClockTypes
<1>5. Joint \in Int
  BY DEF Joint
<1>6. Behind = LocalDay(began) - k /\ requestDate = LocalDay(began) - 1
  BY <1>1, <1>2, <1>3 DEF Behind, DueOn
<1>7. k - 2 - Joint <= LastDay /\ LastDay \in Int
  BY <1>1 DEF DueOn
<1>8. requestDate <= LastDay + 1 + Behind + Joint
  BY <1>4, <1>5, <1>6, <1>7
<1>9. requestDate < LastDay => zone < -ElevenFifteen
  BY <1>1, <1>2, <1>7, ClockAssumption DEF DueOn, ClockTypes
<1> QED
  BY <1>8, <1>9

\* IncrementalEnds: the next download is due a day later.
LEMMA EndKeeps == ClockInv /\ IncrementalEnds => ClockInv'
<1> SUFFICES ASSUME ClockInv, IncrementalEnds PROVE ClockInv'
  OBVIOUS
<1>1. PICK k \in Int : DueOn(k)
  BY DEF ClockInv, IncrementalEnds
<1>2. /\ ClockTypes /\ schedule = "incremental" /\ schedule' = "loop"
      /\ globalHistories' = Append(globalHistories, requestDate)
      /\ expiration' = expiration + Day
      /\ UNCHANGED <<now, zone, began, requestDate>>
  BY DEF ClockInv, IncrementalEnds
<1>3. /\ globalHistories' \in Seq(Int) /\ Len(globalHistories') > Latest
      /\ LastDay' = requestDate
  BY <1>1, <1>2, ClockAssumption DEF ClockTypes, DueOn, LastDay
<1>4. /\ requestDate = LocalDay(began) - 1 /\ expiration <= began
      /\ expiration + zone = k * Day + ElevenFifteen
  BY <1>1, <1>2 DEF DueOn
<1>5. /\ LocalDay(began) \in Int /\ LocalDay(began) <= LocalDay(now)
      /\ LocalDay(expiration) <= LocalDay(began) /\ LocalDay(now) \in Int
  <2>1. began \in Int /\ now \in Int /\ expiration \in Int /\ began <= now
    BY <1>2 DEF ClockTypes
  <2>2. LocalDay(began) \in Int /\ LocalDay(began) <= LocalDay(now)
    BY <1>2, <2>1, LocalDays
  <2>3. LocalDay(expiration) <= LocalDay(began)
    BY <1>2, <1>4, <2>1, LocalDays
  <2>4. LocalDay(now) \in Int
    BY <1>2, <2>1, LocalDays
  <2> QED
    BY <2>2, <2>3, <2>4
<1>6. k <= LocalDay(began)
  BY <1>2, <1>4, <1>5, ExpiresOn
<1>7. expiration' + zone = (k + 1) * Day + ElevenFifteen
  <2>1. (k + 1) * Day = k * Day + Day /\ k * Day \in Int
    BY ClockAssumption
  <2> QED
    BY <1>2, <1>4, <2>1, ClockAssumption DEF ClockTypes
<1>8. ClockTypes'
  BY <1>2, <1>3, ClockAssumption DEF ClockTypes
<1>9. Joint' = 0
  <2>1. Len(globalHistories') # Latest
    BY <1>3, ClockAssumption
  <2> QED
    BY <2>1 DEF Joint
<1>10. LocalDay(now)' = LocalDay(now)
  BY <1>2 DEF LocalDay
<1>11. DueOn(k + 1)'
  <2>1. (k + 1) - 2 - 0 <= requestDate /\ requestDate + 1 <= LocalDay(now)
    BY <1>4, <1>5, <1>6
  <2>2. Len(globalHistories') >= Latest /\ requestDate \in Int
    BY <1>2, <1>3, ClockAssumption DEF ClockTypes
  <2> QED
    BY <1>2, <1>3, <1>7, <1>9, <1>10, <2>1, <2>2 DEF DueOn
<1> QED
  BY <1>2, <1>8, <1>11 DEF ClockInv

LEMMA FailKeeps == ClockInv /\ IncrementalFails => ClockInv'
<1> SUFFICES ASSUME ClockInv, IncrementalFails PROVE ClockInv'
  OBVIOUS
<1>1. PICK k \in Int : DueOn(k)
  BY DEF ClockInv, IncrementalFails
<1>2. /\ ClockTypes /\ schedule' = "loop"
      /\ UNCHANGED <<now, zone, began, requestDate, expiration, globalHistories>>
  BY DEF ClockInv, IncrementalFails
<1>3. DueOn(k)'
  BY <1>1, <1>2 DEF DueOn, LastDay, Joint, LocalDay
<1> QED
  BY <1>2, <1>3 DEF ClockInv, ClockTypes

\* Time may pass at every point.
LEMMA TickKeeps == ClockInv /\ Tick => ClockInv'
<1> SUFFICES ASSUME ClockInv, Tick PROVE ClockInv'
  OBVIOUS
<1>1. /\ ClockTypes /\ now' = now + 1
      /\ UNCHANGED <<zone, schedule, began, requestDate, expiration, globalHistories>>
  BY DEF ClockInv, Tick
<1>2. ClockTypes'
  BY <1>1 DEF ClockTypes
<1>3. CASE schedule = "full"
  BY <1>1, <1>2, <1>3 DEF ClockInv
<1>4. CASE schedule # "full"
  <2>1. PICK k \in Int : DueOn(k)
    BY <1>4 DEF ClockInv
  <2>2. LocalDay(now)' = LocalDay(now + 1)
    BY <1>1 DEF LocalDay
  <2>3. /\ LocalDay(now) \in Int /\ LocalDay(now + 1) \in Int
        /\ LocalDay(now) <= LocalDay(now + 1)
    BY <1>1, LocalDays DEF ClockTypes
  <2>4. LocalDay(began)' = LocalDay(began) /\ LastDay' = LastDay /\ Joint' = Joint
    BY <1>1 DEF LocalDay, LastDay, Joint
  <2>5. DueOn(k)'
    BY <1>1, <2>1, <2>2, <2>3, <2>4 DEF DueOn
  <2> QED
    BY <1>1, <1>2, <1>4, <2>5 DEF ClockInv
<1> QED
  BY <1>3, <1>4

\* Every step of the schedule keeps the invariant.
LEMMA NextClock == ClockInv /\ [ClockNext]_clockVars => ClockInv'
<1> SUFFICES ASSUME ClockInv, [ClockNext]_clockVars PROVE ClockInv'
  OBVIOUS
<1>1. CASE UNCHANGED clockVars
  <2>1. UNCHANGED <<now, zone, schedule, began, requestDate, expiration, globalHistories>>
    BY <1>1 DEF clockVars
  <2> QED
    BY <2>1 DEF ClockInv, ClockTypes, DueOn, LastDay, Joint, LocalDay
<1> QED
  BY <1>1, FullKeeps, BeginKeeps, EndKeeps, FailKeeps, TickKeeps DEF ClockNext

\* For any length of a day, zone, time of publication and length of downloads, an
\* attempt begun on the day of the expiration, and east of UTC late enough, asks
\* for a day that is out when it begins.
THEOREM DayIsPublished == ClockSpec => []AsksForPublishedDay
<1>1. ASSUME ClockInv, schedule = "incremental", Behind = 0, began >= expiration + zone
      PROVE  requestDate <= Published(began)
  <2>1. PICK k \in Int : DueOn(k)
    BY <1>1 DEF ClockInv
  <2>2. ClockTypes
    BY <1>1 DEF ClockInv
  <2>3. LocalDay(expiration) = k /\ LocalDay(began) \in Int
    BY <2>1, <2>2, ExpiresOn, LocalDays DEF DueOn, ClockTypes
  <2>4. requestDate = k - 1
    BY <1>1, <2>1, <2>3 DEF DueOn, Behind
  <2>5. /\ began - ElevenFifteen \in Int /\ k * Day \in Int
        /\ k * Day <= began - ElevenFifteen
    BY <1>1, <2>1, <2>2, ClockAssumption DEF DueOn, ClockTypes
  <2>6. /\ k <= (began - ElevenFifteen) \div Day
        /\ (began - ElevenFifteen) \div Day \in Int
    BY <2>5, DivAtLeast, DivBounds, ClockAssumption
  <2> QED
    BY <2>4, <2>6 DEF Published
<1>2. ClockInv => AsksForPublishedDay
  BY <1>1 DEF AsksForPublishedDay
<1> QED
  BY <1>2, ClockBegins, NextClock, PTL DEF ClockSpec

\* However long downloads and retries take, on any machine, two entries are no
\* more days apart than one, the midnights passed before the attempt began, and
\* one at the end of a full download east of UTC.
THEOREM MissedAreMidnights == ClockSpec => LeavesOutMidnightsOnly
<1>1. ASSUME ClockInv, [ClockNext]_clockVars,
             globalHistories # <<>>, globalHistories' # globalHistories
      PROVE  /\ globalHistories'[Len(globalHistories')]
                  <= globalHistories[Len(globalHistories)] + 1 + Behind + Joint
             /\ globalHistories'[Len(globalHistories')]
                  < globalHistories[Len(globalHistories)] => zone < -ElevenFifteen
  <2>1. IncrementalEnds
    BY <1>1 DEF ClockNext, clockVars, ClockInv, FullEnds, IncrementalBegins,
                IncrementalFails, Tick
  <2>2. globalHistories'[Len(globalHistories')] = requestDate
    BY <1>1, <2>1 DEF ClockInv, ClockTypes, IncrementalEnds
  <2> QED
    BY <1>1, <2>1, <2>2, EntryFollows DEF LastDay
<1> QED
  BY <1>1, ClockBegins, NextClock, PTL DEF ClockSpec, LeavesOutMidnightsOnly
=============================================================================
