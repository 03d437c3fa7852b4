--------------------------- MODULE HistoryArchive ---------------------------
(***************************************************************************)
(* src/archive/emd/src: the histories hoardling of hoardling.c with the     *)
(* dates of base.c and the downloads of histories.c.  Once, all the days    *)
(* the ESI has are downloaded and dumped day by day; then, every day at     *)
(* 11:15, the day before.  The process may be stopped at any step and       *)
(* started again: the dumps stay.                                           *)
(* Time counts half days: instant 2d is the morning of day d, 2d + 1 what   *)
(* follows its 11:15, when the ESI publishes day d - 1.                     *)
(***************************************************************************)
EXTENDS Integers

CONSTANTS
  ActiveMarket, \* active markets, as the orders hoardling answers them
  Traded,       \* the days on which each has a row
  FirstYear,    \* year of day 0
  ShortYear,    \* days of a year that is not leap (365)
  Begin, End,   \* bounds: the instants the model goes through
  MaxFailures   \* bound: dumps the disk fails

\* Days count from some day before the clock begins, by two days at least.
ASSUME ArchiveAssumption ==
  /\ Traded \in [ActiveMarket -> SUBSET Nat]
  /\ FirstYear \in Nat /\ ShortYear \in Nat \ {0}
  /\ Begin \in Nat /\ Begin >= 4

VARIABLES
  pc,          \* off, initial, emit, sleep, daily
  now,         \* the clock
  disk,        \* the dumps in dump_dir: the rows of each name
  expiration, eleven_fifteen_today,
  undone,      \* markets still to be downloaded in this round
  bit_vec,     \* rows downloaded in this round (on disk, in the initial one)
  date,        \* the name of the next dump
  last_day,    \* of the initial download
  \* History variables.
  skipped,     \* markets of this round that were not found
  began,       \* instant at which the daily round began
  started,     \* instant at which the process was started
  late,        \* has one of this process begun a day or more after it was due?
  undumped,    \* names of the dumps of this process that were refused or failed
  failures     \* dumps the disk has failed

roundVars == <<undone, bit_vec, skipped>>
clockVars == <<expiration, eleven_fifteen_today, started>>
archiveVars == <<pc, now, disk, clockVars, roundVars, date, last_day, began,
                 late, undumped, failures>>

-----------------------------------------------------------------------------
\* base.c: dates.  A date is a year and a day of the year.

date_is_leap_year(year) == year % 400 = 0 \/ (year % 4 = 0 /\ year % 100 # 0)

DaysIn(year) == ShortYear + (IF date_is_leap_year(year) THEN 1 ELSE 0)

\* The first day of each year (of gmtime_r and strptime).
YearStart[y \in Nat] ==
  IF y <= FirstYear THEN 0 ELSE YearStart[y - 1] + DaysIn(y - 1)

YearOf(day) ==
  CHOOSE y \in FirstYear..(FirstYear + day) :
    YearStart[y] <= day /\ day < YearStart[y + 1]

\* date_parse takes tm_yday as it is: the days of a year count from 0 ...
date_parse(day) == [year |-> YearOf(day), day |-> day - YearStart[YearOf(day)]]

\* ... and in date_utc they count from 1.
date_utc(instant) ==
  LET d == date_parse(instant \div 2) IN [d EXCEPT !.day = @ + 1]

date_is_beforeByDay(a, b) == a.year <= b.year /\ a.day < b.day   \* mutant

date_is_before(a, b) == a.year < b.year \/ (a.year = b.year /\ a.day < b.day)

\* The day after, of days that count from 1.
date_incr(d) ==
  IF d.day >= DaysIn(d.year) THEN [year |-> d.year + 1, day |-> 1]
  ELSE [d EXCEPT !.day = @ + 1]

time_eleven_fifteen_today(t) == 2 * (t \div 2) + 1
time_eleven_fifteen_tomorrow(t) == time_eleven_fifteen_today(t) + 2

-----------------------------------------------------------------------------
Published(m) == {d \in Traded[m] : time_eleven_fifteen_tomorrow(2 * d) <= now}

NoDate == [year |-> 0, day |-> 0]

ArchiveInit ==
  /\ pc = "off" /\ now = Begin
  /\ disk = <<>>
  /\ expiration = 0 /\ eleven_fifteen_today = 0 /\ started = 0
  /\ undone = {} /\ bit_vec = {} /\ skipped = {}
  /\ date = NoDate /\ last_day = NoDate
  /\ began = 0 /\ late = FALSE /\ undumped = {} /\ failures = 0

dump_does_exist(name) == name \in DOMAIN disk

\* hoardling_histories_dump: a dump of that name is never replaced (E_FULL).  One
\* that cannot be opened leaves nothing, one that cannot be written or closed a
\* part of it; the round goes on.
Dump(name, rows) ==
  LET put(some) == [x \in DOMAIN disk \cup {name} |->
                      IF x = name THEN some ELSE disk[x]]
  IN \/ ~dump_does_exist(name) /\ disk' = put(rows) /\ UNCHANGED <<undumped, failures>>
     \/ /\ ~dump_does_exist(name) /\ failures < MaxFailures
        /\ disk' \in {disk, put({})}
        /\ undumped' = undumped \cup {name} /\ failures' = failures + 1
     \/ /\ dump_does_exist(name) /\ UNCHANGED <<disk, failures>>
        /\ undumped' = undumped \cup {name}

\* The active markets arrive, and the downloads of a round begin.
BeginRound ==
  /\ undone' = ActiveMarket /\ bit_vec' = {} /\ skipped' = {}

\* A round is over: it leaves nothing but what it dumped.
EndRound ==
  /\ pc' = "sleep"
  /\ undone' = {} /\ bit_vec' = {} /\ skipped' = {}
  /\ date' = NoDate /\ last_day' = NoDate /\ began' = 0

\* The hoardling is started; two days ago decides if a full download is due.
Start ==
  /\ pc = "off"
  /\ started' = now
  /\ eleven_fifteen_today' = time_eleven_fifteen_today(now)
  /\ expiration' = IF now < time_eleven_fifteen_today(now)
                   THEN time_eleven_fifteen_today(now)
                   ELSE time_eleven_fifteen_tomorrow(now)
  /\ IF dump_does_exist(date_utc(now - 4))
     THEN pc' = "sleep" /\ UNCHANGED roundVars
     ELSE pc' = "initial" /\ BeginRound
  /\ UNCHANGED <<now, disk, date, last_day, began, late,
                 undumped, failures>>

\* The rows of a market, all of them or, if one does not parse, none.
history_parse(m) == {<<m, d>> : d \in Published(m)}

\* history_download of one market: its rows, or a 400 or 404 that skips it.
history_download(m) ==
  \/ bit_vec' = bit_vec \cup history_parse(m) /\ UNCHANGED skipped
  \/ skipped' = skipped \cup {m} /\ UNCHANGED bit_vec

\* The next market, tried until it is done or no trail is left (Stop).  The daily
\* round puts every row where it should put those of the day: history_download
\* is handed bit_vec, and market_bit_vec stays empty.
Download(m) ==
  /\ pc \in {"initial", "daily"} /\ m \in undone
  /\ undone' = undone \ {m}
  /\ history_download(m)
  /\ UNCHANGED <<pc, now, disk, clockVars, date, last_day, began, late,
                 undumped, failures>>

\* Days of the rows downloaded.
Days == {b[2] : b \in bit_vec}

\* The first and the last day, and the snapshot is closed and opened to read.
InitialDone ==
  /\ pc = "initial" /\ undone = {}
  /\ Days # {}
  /\ LET first == CHOOSE d \in Days : \A e \in Days : d <= e
         last == CHOOSE d \in Days : \A e \in Days : d >= e
     IN date' = date_parse(first) /\ last_day' = date_parse(last)
  /\ pc' = "emit"
  /\ UNCHANGED <<now, disk, clockVars, roundVars, began, late,
                 undumped, failures>>

\* What is left of the snapshot, which is read again in chunks for each day.
RowsOf(day) == {b \in bit_vec : date_parse(b[2]) = day}

\* One turn of the loop over the days: the rows of the day are dumped.
Emit ==
  /\ pc = "emit"
  /\ date_is_before(date, last_day) \/ date = last_day
  /\ Dump(date, RowsOf(date))
  /\ date' = date_incr(date)
  /\ UNCHANGED <<pc, now, clockVars, roundVars, last_day, began, late>>

EmitDone ==
  /\ pc = "emit"
  /\ ~date_is_before(date, last_day) /\ date # last_day
  /\ EndRound
  /\ UNCHANGED <<now, disk, clockVars, late, undumped, failures>>

DailyBeginToday ==   \* mutant: the day that is not over
  /\ pc = "sleep" /\ now >= expiration
  /\ began' = now
  /\ late' = (late \/ now \div 2 > expiration \div 2)
  /\ date' = date_utc(now)
  /\ BeginRound
  /\ pc' = "daily"
  /\ UNCHANGED <<now, disk, clockVars, last_day, undumped, failures>>

\* The head of the daily loop, when the expiration has come.  The branch of two
\* days is dead: the expiration is never before the first 11:15.
DailyBegin ==
  /\ pc = "sleep" /\ now >= expiration
  /\ began' = now
  /\ late' = (late \/ now \div 2 > expiration \div 2)
  /\ date' = IF now < eleven_fifteen_today THEN date_utc(now - 4) ELSE date_utc(now - 2)
  /\ BeginRound
  /\ pc' = "daily"
  /\ UNCHANGED <<now, disk, clockVars, last_day, undumped, failures>>

DailyDumpEveryOther ==   \* mutant: the expiration moves by two days
  /\ pc = "daily" /\ undone = {}
  /\ Dump(date, bit_vec)
  /\ expiration' = expiration + 4
  /\ EndRound
  /\ UNCHANGED <<now, eleven_fifteen_today, started, late>>

DailyDump ==
  /\ pc = "daily" /\ undone = {}
  /\ Dump(date, bit_vec)
  /\ expiration' = expiration + 2
  /\ EndRound
  /\ UNCHANGED <<now, eleven_fifteen_today, started, late>>

\* The hoardling quits: nothing was found, no trail is left, no active markets
\* came.  Or the process is stopped, at any step.
Stop ==
  /\ pc # "off"
  /\ pc' = "off"
  /\ undone' = {} /\ bit_vec' = {} /\ skipped' = {}
  /\ date' = NoDate /\ last_day' = NoDate
  /\ expiration' = 0 /\ eleven_fifteen_today' = 0 /\ started' = 0
  /\ began' = 0 /\ late' = FALSE /\ undumped' = {}
  /\ UNCHANGED <<now, disk, failures>>

\* The clock goes on, also during a round; whoever is due is woken in time.
Tick ==
  /\ now < End
  /\ ~(pc = "sleep" /\ now >= expiration)
  /\ now' = now + 1
  /\ UNCHANGED <<pc, disk, clockVars, roundVars, date, last_day, began, late,
                 undumped, failures>>

ArchiveNext ==
  \/ Start \/ InitialDone \/ Emit \/ EmitDone \/ DailyBegin \/ DailyDump
  \/ Stop \/ Tick \/ \E m \in ActiveMarket : Download(m)

ArchiveSpec == ArchiveInit /\ [][ArchiveNext]_archiveVars

-----------------------------------------------------------------------------
\* The loop over the days of the initial download dumps every row under the
\* day date_parse gave it, unless that dump was refused or failed and logged, or
\* the day is the first of January of a later year: date_incr skips a day 0.
InitialLosesOnlyNewYear ==
  [][EmitDone => \A b \in bit_vec :
       LET d == date_parse(b[2]) IN
         \/ d \in DOMAIN disk /\ b \in disk[d]
         \/ d \in undumped
         \/ d.day = 0 /\ \E c \in bit_vec : YearOf(c[2]) < d.year]_archiveVars

\* A daily round that began after the 11:15 of its day, however long it took,
\* dumps the day before with the row of every market found that traded on it,
\* unless that dump was refused or failed:
\* "we assume that every market is up to date at 11:15".
DailyHasItsDay ==
  [][DailyDump /\ began % 2 = 1 /\ date \notin undumped' =>
       \A m \in ActiveMarket \ skipped : \A d \in Traded[m] :
         date = date_utc(2 * d) => <<m, d>> \in disk'[date]]_archiveVars

\* As long as each daily round of a process began on the day it was due, every
\* day published since that process was started, up to its latest round, has a
\* dump, or one that failed and was logged: a day is missed silently only across
\* a restart, or because a round took over a day.
NoDayMissed ==
  pc \in {"sleep", "daily"} /\ ~late =>
    \A t \in (started + 1)..(expiration - 1) :
      t % 2 = 1 =>
        dump_does_exist(date_utc(t - 2)) \/ date_utc(t - 2) \in undumped
=============================================================================
