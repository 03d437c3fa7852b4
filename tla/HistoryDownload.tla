-------------------------- MODULE HistoryDownload ---------------------------
(***************************************************************************)
(* src/history.go: DownloadFullHistoryDump and                              *)
(* DownloadIncrementalHistoryDump, one loop over the markets.  The first    *)
(* writes every day of every market to a temporary file, the second keeps   *)
(* the row of one day.  A call to esiFetch is one step, whose outcomes are  *)
(* those of module RetryBudget.                                             *)
(***************************************************************************)
EXTENDS Naturals, SequencesExt

CONSTANTS
  Markets,     \* the sequence of markets asked for
  Answers,     \* histories the ESI may answer: sequences of days
  BadDay,      \* a day whose text does not parse as a date
  RequestDay,  \* the UTC day the incremental download wants
  MaxTrails    \* calls to esiFetch for a market (3)

ASSUME DownloadAssumption ==
  /\ MaxTrails \in Nat \ {0}
  /\ RequestDay # BadDay
  /\ Markets \in Seq(ToSet(Markets))
  /\ Answers \subseteq Seq(UNION {ToSet(days) : days \in Answers})

VARIABLES
  kind,       \* "full" or "incremental"
  pc,         \* "market": take the next; "fetch" it; "sleep" before a retry
  i,          \* index of the market being downloaded
  trails,     \* what is left of MaxTrails for it
  cancelled,  \* is the context cancelled?
  tempFile,   \* the temporary file: "none", "open", "handed" to the caller
  rows,       \* rows written to the file, or kept in memory
  dates,      \* snapshot.Dates
  result,     \* "none", then how the function returned: "ok" or "error"
  answered    \* history variable: the answer for each market done, or <<>>

vars == <<kind, pc, i, trails, cancelled, tempFile, rows, dates, result, answered>>

Init ==
  /\ kind \in {"full", "incremental"}
  /\ pc = "market" /\ i = 0 /\ trails = 0 /\ cancelled = FALSE
  /\ tempFile = IF kind = "full" THEN "open" ELSE "none"
  /\ rows = <<>> /\ dates = <<>> /\ answered = <<>>
  /\ result = "none"
-----------------------------------------------------------------------------
\* The rows of the given days, for the current market.
RowsOf(days) == [n \in DOMAIN days |-> [market |-> Markets[i], day |-> days[n]]]

\* The incremental download looks at the days up to the one it wants.
Wanted(days) == Contains(days, RequestDay)
Reads(days) ==
  IF kind = "incremental" /\ Wanted(days)
  THEN SubSeq(days, 1, SelectInSeq(days, LAMBDA d : d = RequestDay))
  ELSE days

KeepLatest(days) ==   \* mutant: only the last day of a history is looked at
  IF kind = "full" THEN RowsOf(days)
  ELSE IF days # <<>> /\ Last(days) = RequestDay THEN RowsOf(<<RequestDay>>)
  ELSE <<>>

Keep(days) ==
  IF kind = "full" THEN RowsOf(days)
  ELSE IF Wanted(days) THEN RowsOf(<<RequestDay>>) ELSE <<>>

\* snapshotAddDate
AddDate(ds, d) == IF Contains(ds, d) THEN ds ELSE Append(ds, d)

AddDates(ds, days) ==
  LET with[n \in 0..Len(days)] ==
        IF n = 0 THEN ds ELSE AddDate(with[n - 1], days[n])
  IN with[Len(days)]

\* An error return.  Nothing closes or removes the temporary file, and the
\* caller gets no handle to it.
Fail ==
  /\ pc' = "done"
  /\ result' = "error"
  /\ UNCHANGED <<kind, i, trails, cancelled, tempFile, rows, dates, answered>>

\* The head of the loop looks at the context before every market.
NextMarket ==
  /\ pc = "market" /\ i < Len(Markets)
  /\ \/ cancelled /\ Fail
     \/ /\ ~cancelled
        /\ pc' = "fetch"
        /\ i' = i + 1
        /\ trails' = MaxTrails
        /\ UNCHANGED <<kind, cancelled, tempFile, rows, dates, result, answered>>

\* The market is done with what the ESI answered.
Done(days) ==
  /\ pc' = "market"
  /\ rows' = rows \o Keep(days)
  /\ dates' = IF kind = "full" THEN AddDates(dates, days) ELSE dates
  /\ answered' = Append(answered, days)
  /\ UNCHANGED <<kind, i, trails, cancelled, tempFile, result>>

\* esiFetch returns a history whose days, as far as they are read, parse.
FetchOk ==
  /\ pc = "fetch"
  /\ \E days \in Answers : ~Contains(Reads(days), BadDay) /\ Done(days)

\* 400 or 404: the market is skipped.
FetchSkip ==
  /\ pc = "fetch"
  /\ Done(<<>>)

\* An error that may pass, while trails are left: a fifteen minute break.
FetchTransient ==
  /\ pc = "fetch" /\ trails > 1
  /\ pc' = "sleep"
  /\ UNCHANGED <<kind, i, trails, cancelled, tempFile, rows, dates, result,
                 answered>>

\* Any other error: another status, a cancelled context, the last trail, a day
\* that does not parse, a row that cannot be written.
FetchFatal ==
  /\ pc = "fetch"
  /\ Fail

Sleep ==
  /\ pc = "sleep"
  /\ \/ /\ trails' = trails - 1
        /\ pc' = "fetch"
        /\ UNCHANGED <<kind, i, cancelled, tempFile, rows, dates, result, answered>>
     \/ cancelled /\ Fail

\* sort.Sort, of dates that differ.
Sorted(ds) ==
  {s \in [DOMAIN ds -> ToSet(ds)] :
     ToSet(s) = ToSet(ds) /\ \A m, n \in DOMAIN s : m < n => s[m] < s[n]}

\* The loop is over: the dates are sorted and the file handed to the caller.
Return ==
  /\ pc = "market" /\ i = Len(Markets)
  /\ pc' = "done" /\ result' = "ok"
  /\ dates' \in Sorted(dates)
  /\ tempFile' = IF kind = "full" THEN "handed" ELSE "none"
  /\ UNCHANGED <<kind, i, trails, cancelled, rows, answered>>

Cancel ==
  /\ ~cancelled /\ pc # "done"
  /\ cancelled' = TRUE
  /\ UNCHANGED <<kind, pc, i, trails, tempFile, rows, dates, result, answered>>

Download ==
  \/ NextMarket \/ FetchOk \/ FetchSkip \/ FetchTransient \/ FetchFatal
  \/ Sleep \/ Return

Next == Download \/ Cancel
-----------------------------------------------------------------------------
\* An incremental download that succeeds has one row for each market whose
\* history holds the day, in the order asked for, and no other.
IncrementIsExact ==
  result = "ok" /\ kind = "incremental" =>
    /\ Len(answered) = Len(Markets)
    /\ rows = FlattenSeq([n \in DOMAIN answered |->
                 IF Contains(answered[n], RequestDay)
                 THEN <<[market |-> Markets[n], day |-> RequestDay]>> ELSE <<>>])
=============================================================================
