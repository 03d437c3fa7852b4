---------------------------- MODULE HistoryFiles ----------------------------
(***************************************************************************)
(* The life of a history snapshot: DownloadFullHistoryDump (module          *)
(* HistoryDownload) writes it, row by row, and hands it to goroutines that  *)
(* read days of it and close it (module HistorySnapshot).                   *)
(***************************************************************************)
EXTENDS HistoryDownload

CONSTANTS
  Reader,    \* goroutines that call GetHistoryDataForDay
  Closer,    \* goroutines that call Close
  Requests,  \* the times readers ask for
  Closes,    \* how often each closer calls Close
  DiskFails  \* may closing or removing the file fail?

ASSUME FilesAssumption ==
  /\ Reader \cap Closer = {} /\ "no one" \notin Reader \cup Closer
  /\ Requests # {} /\ \A t \in Requests : t = [day |-> t.day, loc |-> t.loc]
  /\ Closes \in Nat \ {0}
  /\ DiskFails \in BOOLEAN

\* The variables of HistorySnapshot; at and returned are its pc and result.
VARIABLES at, fileMu, offset, fileOpen, onDisk, closed, request, found,
          returned, closesLeft

Snapshot == INSTANCE HistorySnapshot WITH pc <- at, result <- returned

handleVars == <<at, fileMu, fileOpen, onDisk, closed, request, found, returned,
                closesLeft>>
filesVars == <<vars, handleVars, offset>>

FilesInit == Init /\ Snapshot!Init

\* The download writes at the end of the file, and nobody has its handle yet.
WriteSnapshot ==
  /\ Next
  /\ offset' = IF kind = "full" THEN Len(rows') ELSE offset
  /\ UNCHANGED handleVars

\* The handle is used once the download has returned it.
UseSnapshot ==
  /\ tempFile = "handed"
  /\ Snapshot!Next
  /\ UNCHANGED <<kind, pc, i, trails, cancelled, tempFile, result, answered>>

FilesNext == WriteSnapshot \/ UseSnapshot

\* The goroutine that downloads runs, those that read and close do, and a mutex
\* of Go is handed to whoever waits for it.
Handed(step) == tempFile = "handed" /\ step /\ UNCHANGED vars
FilesSpec ==
  /\ FilesInit /\ [][FilesNext]_filesVars
  /\ WF_filesVars(Download /\ WriteSnapshot)
  /\ \A r \in Reader :
       /\ WF_filesVars(Handed(Snapshot!Seek(r) \/ Snapshot!Read(r)))
       /\ SF_filesVars(Handed(Snapshot!Lock(r)))
  /\ \A c \in Closer :
       /\ WF_filesVars(Handed(Snapshot!CloseBegins(c) \/ Snapshot!CloseFile(c)
                                \/ Snapshot!RemoveFile(c)))
       /\ SF_filesVars(Handed(Snapshot!Lock(c)))
-----------------------------------------------------------------------------
\* Every row the ESI answered for the markets done, in the order asked for.
AnsweredRows ==
  FlattenSeq([n \in DOMAIN answered |->
                [k \in DOMAIN answered[n] |->
                   [market |-> Markets[n], day |-> answered[n][k]]]])

\* Those of a day.
OfDay(all, d) ==
  FlattenSeq([n \in DOMAIN all |-> IF all[n].day = d THEN <<all[n]>> ELSE <<>>])

\* A reader of a Local day that succeeds has exactly the rows the ESI answered
\* for it, market by market, whatever was retried or skipped on the way, and
\* although all readers move one file offset: the file, its Dates and the lock
\* agree.
ReadsWhatWasAnswered ==
  \A r \in Reader :
    at[r] = "idle" /\ returned[r] = "ok" /\ request[r].loc = "Local" =>
      /\ Len(answered) = Len(Markets)
      /\ found[r] = OfDay(AnsweredRows, request[r].day)

\* The download ends, and a program that calls Close gets rid of the file it
\* was handed, whoever reads meanwhile, or learns that the disk failed.  (The
\* file of a full download that fails is not handed to anybody, and stays.)
FileGoesAway ==
  <>[](\/ result # "none" /\ tempFile # "handed"
       \/ closed /\ ~onDisk
       \/ \E c \in Closer : returned[c] = "error")
=============================================================================
