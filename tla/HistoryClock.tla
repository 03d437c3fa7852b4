---------------------------- MODULE HistoryClock ----------------------------
(***************************************************************************)
(* When historyWorker of src/examples/web-server/main.go asks for which     *)
(* day.  Time is counted in ticks of UTC from the midnight that begins day  *)
(* 0; the worker computes in the hours of its machine, which are `zone'     *)
(* ticks ahead of UTC, all year long.  The ESI publishes the history of a   *)
(* day at 11:15 UTC of the next.  Downloads and their retries take any      *)
(* time.  An entry of globalHistories is its day: what an incremental one   *)
(* holds is not modelled, since == never takes a local midnight for the UTC *)
(* midnight that time.Parse makes of a date of the ESI.                     *)
(***************************************************************************)
EXTENDS Integers, Sequences

CONSTANTS
  Day,            \* ticks in a day
  ElevenFifteen,  \* tick of the day that stands for 11:15
  Zones,          \* ticks that the hours of a machine may be ahead of UTC
  Latest,         \* dates of a full download that are published (10)
  MaxTime         \* bound on the time

ASSUME ClockAssumption ==
  /\ Day \in Nat /\ ElevenFifteen \in 1..(Day - 1)
  /\ Zones \subseteq (1 - Day)..(Day - 1)
  /\ Latest \in Nat \ {0} /\ MaxTime \in Nat

VARIABLES
  now,
  zone,            \* now.Location()
  schedule,        \* "full" download, the "loop", an "incremental" download
  began,           \* when the download under way, or the last one, began
  requestDate,     \* the day the incremental download asks for
  expiration,      \* when the histories expire
  globalHistories  \* the days of its entries

clockVars == <<now, zone, schedule, began, requestDate, expiration, globalHistories>>

LocalDay(t) == (t + zone) \div Day
\* The last day whose history is out at time t.
Published(t) == (t - ElevenFifteen) \div Day - 1

getElevenFifteenToday(t) == LocalDay(t) * Day + ElevenFifteen - zone
getElevenFifteenLater(t) == (LocalDay(t) + 2) * Day + ElevenFifteen - zone   \* mutant
getElevenFifteenTomorrow(t) == (LocalDay(t) + 1) * Day + ElevenFifteen - zone
getToday(t) == LocalDay(t)   \* mutant of getYesterday
getYesterday(t) == LocalDay(t) - 1

\* The full download may begin at any time of day.
ClockInit ==
  /\ now \in 0..(Day - 1) /\ began = now
  /\ zone \in Zones
  /\ schedule = "full" /\ expiration = 0 /\ globalHistories = <<>>
  /\ requestDate = 0

ExpirationAfterFull(t) ==
  IF t < getElevenFifteenToday(t)
  THEN getElevenFifteenToday(t) ELSE getElevenFifteenTomorrow(t)

\* The latest dates found are published: the last market is read at the end.
FullEnds ==
  /\ schedule = "full" /\ schedule' = "loop"
  /\ globalHistories' = [n \in 1..Latest |-> Published(now) - Latest + n]
  /\ expiration' = ExpirationAfterFull(began)
  /\ UNCHANGED <<now, zone, began, requestDate>>

IncrementalBegins ==
  /\ schedule = "loop" /\ now >= expiration
  /\ schedule' = "incremental"
  /\ requestDate' = getYesterday(now)
  /\ began' = now
  /\ UNCHANGED <<now, zone, expiration, globalHistories>>

IncrementalEnds ==
  /\ schedule = "incremental" /\ schedule' = "loop"
  /\ globalHistories' = Append(globalHistories, requestDate)
  /\ expiration' = expiration + Day
  /\ UNCHANGED <<now, zone, began, requestDate>>

\* An error: the loop starts over, with the same expiration.
IncrementalFails ==
  /\ schedule = "incremental" /\ schedule' = "loop"
  /\ UNCHANGED <<now, zone, began, requestDate, expiration, globalHistories>>

Tick ==
  /\ now < MaxTime
  /\ now' = now + 1
  /\ UNCHANGED <<zone, schedule, began, requestDate, expiration, globalHistories>>

ClockNext ==
  FullEnds \/ IncrementalBegins \/ IncrementalEnds \/ IncrementalFails \/ Tick

ClockSpec == ClockInit /\ [][ClockNext]_clockVars
-----------------------------------------------------------------------------
\* Local midnights from the expiration to the attempt under way.
Behind == LocalDay(began) - LocalDay(expiration)

\* "here we assume that every market is up to date at 11:15" (main.go:127): a
\* day that is not out is asked for only by an attempt that begins after the
\* local midnight that follows the expiration, or, east of UTC, between the
\* local 11:15 and that of UTC.
AsksForPublishedDay ==
  schedule = "incremental" /\ Behind = 0 /\ began >= expiration + zone
    => requestDate <= Published(began)

\* What the dates of the full download may miss besides: east of UTC it expires
\* at an 11:15 at which its last day may not be the one before the next.
Joint == IF zone > 0 /\ Len(globalHistories) = Latest THEN 1 ELSE 0

\* However long downloads and retries take, the days left out between two
\* entries are at most the midnights passed between the expiration and the
\* attempt that succeeded (main.go:129 asks for the eve of that attempt); and no
\* entry is of an earlier day than the one before it, but on a machine further
\* west than eleven hours and a quarter.
LeavesOutMidnightsOnly ==
  [][globalHistories # <<>> /\ globalHistories' # globalHistories
       => LET last == globalHistories[Len(globalHistories)]
              next == globalHistories'[Len(globalHistories')]
          IN  /\ next <= last + 1 + Behind + Joint
              /\ next < last => zone < -ElevenFifteen]_clockVars
=============================================================================
