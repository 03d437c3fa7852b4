-------------------------- MODULE HistorySnapshot ---------------------------
(***************************************************************************)
(* The handle of src/history.go: goroutines share one temporary file, whose *)
(* offset GetHistoryDataForDay moves under fileMu, and Close closes and     *)
(* removes it.  A time is a record of the day and its location: == on       *)
(* time.Time compares both, and the Dates of a snapshot are Local.          *)
(***************************************************************************)
EXTENDS Naturals, SequencesExt

CONSTANTS
  Reader,    \* goroutines that call GetHistoryDataForDay
  Closer,    \* goroutines that call Close
  Requests,  \* the times readers ask for
  Closes,    \* how often each closer calls Close
  DiskFails  \* may closing or removing the file fail?

NoOne == "no one"
Process == Reader \cup Closer

VARIABLES
  rows,       \* the rows of the file, which the download has written
  dates,      \* s.Dates
  pc,         \* where the goroutine is
  fileMu,     \* who holds the lock
  offset,     \* rows before the file's offset
  fileOpen,   \* is the descriptor open?
  onDisk,     \* is the file in its directory?
  closed,     \* s.closed
  request,    \* the time a reader asks for
  found,      \* the rows it has found
  result,     \* how the latest call of the goroutine returned
  closesLeft  \* calls to Close to come

vars == <<rows, dates, pc, fileMu, offset, fileOpen, onDisk, closed, request,
          found, result, closesLeft>>
disk == <<offset, fileOpen, onDisk>>

Local(d) == [day |-> d, loc |-> "Local"]
Dates == {Local(dates[n]) : n \in DOMAIN dates}

Init ==
  /\ pc = [p \in Process |-> "idle"]
  /\ fileMu = NoOne
  /\ offset = Len(rows) /\ fileOpen = TRUE /\ onDisk = TRUE /\ closed = FALSE
  /\ request = [r \in Reader |-> CHOOSE t \in Requests : TRUE]
  /\ found = [r \in Reader |-> <<>>]
  /\ result = [p \in Process |-> "none"]
  /\ closesLeft = [c \in Closer |-> Closes]
-----------------------------------------------------------------------------
\* Return from a call; the deferred Unlock runs if the lock is held.
Return(p, how) ==
  /\ pc' = [pc EXCEPT ![p] = "idle"]
  /\ result' = [result EXCEPT ![p] = how]
  /\ fileMu' = IF fileMu = p THEN NoOne ELSE fileMu

\* Get looks the time up in Dates, which nothing writes any more.
GetBegins(r) ==
  /\ pc[r] = "idle"
  /\ \E t \in Requests :
       /\ request' = [request EXCEPT ![r] = t]
       /\ found' = [found EXCEPT ![r] = <<>>]
       /\ \/ t \notin Dates /\ Return(r, "ok")
          \/ /\ t \in Dates
             /\ pc' = [pc EXCEPT ![r] = "lock"]
             /\ UNCHANGED <<result, fileMu>>
  /\ UNCHANGED <<disk, closed, closesLeft>>

LockNothing(p) ==   \* mutant: no mutual exclusion
  /\ pc[p] = "lock"
  /\ pc' = [pc EXCEPT ![p] = IF p \in Reader THEN "seek" ELSE "close"]
  /\ UNCHANGED <<fileMu, disk, closed, request, found, result, closesLeft>>

Lock(p) ==
  /\ pc[p] = "lock" /\ fileMu = NoOne
  /\ fileMu' = p
  /\ pc' = [pc EXCEPT ![p] = IF p \in Reader THEN "seek" ELSE "close"]
  /\ UNCHANGED <<disk, closed, request, found, result, closesLeft>>

\* The seek fails on a closed file.
Seek(r) ==
  /\ pc[r] = "seek"
  /\ \/ /\ fileOpen
        /\ offset' = 0
        /\ pc' = [pc EXCEPT ![r] = "read"]
        /\ UNCHANGED <<fileMu, result>>
     \/ /\ ~fileOpen
        /\ Return(r, "error")
        /\ UNCHANGED offset
  /\ UNCHANGED <<fileOpen, onDisk, closed, request, found, closesLeft>>

\* One round of the loop: the context, then a row or the end of the file.
Read(r) ==
  /\ pc[r] = "read"
  /\ \/ /\ Return(r, "canceled")
        /\ UNCHANGED <<offset, found>>
     \/ /\ ~fileOpen
        /\ Return(r, "error")
        /\ UNCHANGED <<offset, found>>
     \/ /\ fileOpen /\ offset = Len(rows)
        /\ Return(r, "ok")
        /\ UNCHANGED <<offset, found>>
     \/ /\ fileOpen /\ offset < Len(rows)
        /\ offset' = offset + 1
        /\ found' = IF rows[offset'].day = request[r].day
                    THEN [found EXCEPT ![r] = Append(@, rows[offset'])] ELSE found
        /\ UNCHANGED <<pc, fileMu, result>>
  /\ UNCHANGED <<fileOpen, onDisk, closed, request, closesLeft>>

\* Close reads s.closed before it takes the lock.
CloseBegins(c) ==
  /\ pc[c] = "idle" /\ closesLeft[c] > 0
  /\ closesLeft' = [closesLeft EXCEPT ![c] = @ - 1]
  /\ \/ closed /\ Return(c, "ok")
     \/ /\ ~closed
        /\ pc' = [pc EXCEPT ![c] = "lock"]
        /\ UNCHANGED <<result, fileMu>>
  /\ UNCHANGED <<disk, closed, request, found>>

\* Closing a closed file is an error.  A close that fails closes it all the same.
CloseFile(c) ==
  /\ pc[c] = "close"
  /\ \/ /\ fileOpen
        /\ fileOpen' = FALSE
        /\ pc' = [pc EXCEPT ![c] = "remove"]
        /\ UNCHANGED <<result, fileMu>>
     \/ /\ fileOpen /\ DiskFails
        /\ fileOpen' = FALSE
        /\ Return(c, "error")
     \/ /\ ~fileOpen
        /\ Return(c, "error")
        /\ UNCHANGED fileOpen
  /\ UNCHANGED <<offset, onDisk, closed, request, found, closesLeft>>

RemoveForgotten(c) ==   \* mutant: the file is not removed
  /\ pc[c] = "remove"
  /\ closed' = TRUE
  /\ Return(c, "ok")
  /\ UNCHANGED <<disk, request, found, closesLeft>>

\* If the removal fails, s.closed stays as it is.
RemoveFile(c) ==
  /\ pc[c] = "remove"
  /\ \/ /\ onDisk' = FALSE
        /\ closed' = TRUE
        /\ Return(c, "ok")
     \/ /\ DiskFails
        /\ Return(c, "error")
        /\ UNCHANGED <<onDisk, closed>>
  /\ UNCHANGED <<offset, fileOpen, request, found, closesLeft>>

Get(r) == GetBegins(r) \/ Lock(r) \/ Seek(r) \/ Read(r)
CloseSteps(c) == CloseBegins(c) \/ Lock(c) \/ CloseFile(c) \/ RemoveFile(c)

\* Nobody writes the rows and the dates any more.
Next ==
  /\ (\E r \in Reader : Get(r)) \/ (\E c \in Closer : CloseSteps(c))
  /\ UNCHANGED <<rows, dates>>
=============================================================================
