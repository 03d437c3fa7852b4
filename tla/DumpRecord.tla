----------------------------- MODULE DumpRecord -----------------------------
(***************************************************************************)
(* src/archive/emd/src/dump.c: writer threads open, write and close dumps;  *)
(* a shared record lists the ones being written, so that the process can    *)
(* close and remove them when it ends (dump_record_burn, called by main     *)
(* after a signal).  A FILE* is a value that fopen may return again once it *)
(* has been closed.  dump_record_pop copies the entry it removes over the   *)
(* last one, where it should copy the last one over it: it loses an entry,  *)
(* and keeps one whose path is freed, unless it removes the last.           *)
(***************************************************************************)
EXTENDS Integers, Sequences, SequencesExt, FiniteSets

CONSTANTS
  Writer,      \* threads that write dumps
  MaxDumps,    \* bound: dumps each of them writes
  Fp,          \* values of type FILE*
  NoFp

Dump == Writer \X (1..MaxDumps)

ASSUME DumpRecordAssumption == MaxDumps \in Nat /\ NoFp \notin Fp

VARIABLES
  pc,       \* where the writer is: idle, opened, recorded, closed
  n,        \* the dump it writes, or has written last
  fp,       \* the FILE* of that dump
  file,     \* what is at the path of each dump: none, partial, complete
  open,     \* the FILE* values that are open
  record,   \* global_dump_record: the FILE* and the dump whose path is held
  freed,    \* the dumps whose path in the record has been freed
  stage,    \* of the process: run, signalled, burnt, exited
  \* History variables.
  clashed,  \* has dump_record_pop removed an entry that was not the last?
  failed,   \* dumps given up because of a write that failed
  covered   \* dumps that have been in the record before the burn

vars == <<pc, n, fp, file, open, record, freed, stage, clashed, failed,
          covered>>

Init ==
  /\ pc = [w \in Writer |-> "idle"] /\ n = [w \in Writer |-> 0]
  /\ fp = [w \in Writer |-> NoFp]
  /\ file = [d \in Dump |-> "none"] /\ open = {}
  /\ record = <<>> /\ freed = {}
  /\ stage = "run" /\ clashed = FALSE /\ failed = {} /\ covered = {}

Current(w) == <<w, n[w]>>
Running == stage # "exited"

-----------------------------------------------------------------------------
\* dump_open_write, up to fopen.
Fopen(w) ==
  /\ Running /\ pc[w] = "idle" /\ n[w] < MaxDumps
  /\ \E f \in Fp \ open : open' = open \cup {f} /\ fp' = [fp EXCEPT ![w] = f]
  /\ n' = [n EXCEPT ![w] = @ + 1]
  /\ file' = [file EXCEPT ![<<w, n[w] + 1>>] = "partial"]
  /\ pc' = [pc EXCEPT ![w] = "opened"]
  /\ UNCHANGED <<record, freed, stage, clashed, failed, covered>>

\* dump_record_push, under the record's mutex.  (Its assertion on sixteen
\* entries, and the panic for want of memory, are left out.)
RecordPush(w) ==
  /\ Running /\ pc[w] = "opened"
  /\ record' = Append(record, [fp |-> fp[w], dump |-> Current(w)])
  /\ pc' = [pc EXCEPT ![w] = "recorded"]
  /\ covered' = IF stage = "burnt" THEN covered ELSE covered \cup {Current(w)}
  /\ UNCHANGED <<n, fp, file, open, freed, stage, clashed, failed>>

\* A write fails.  Of the header, and of dump_close_write, the FILE is closed;
\* of the contents it is not.  The entry stays in the record in both cases.
WriteFails(w) ==
  /\ Running /\ pc[w] = "recorded"
  /\ open' \in {open, open \ {fp[w]}}
  /\ failed' = failed \cup {Current(w)}
  /\ pc' = [pc EXCEPT ![w] = "idle"]
  /\ UNCHANGED <<n, fp, file, record, freed, stage, clashed, covered>>

FcloseUnchecked(w) ==   \* mutant: the write of the checksum is not looked at
  /\ Running /\ pc[w] = "recorded"
  /\ file' \in {file, [file EXCEPT ![Current(w)] = IF @ = "partial" THEN "complete" ELSE @]}
  /\ open' = open \ {fp[w]}
  /\ pc' = [pc EXCEPT ![w] = "closed"]
  /\ UNCHANGED <<n, fp, record, freed, stage, clashed, failed, covered>>

\* dump_close_write, up to fclose: all of the dump is on disk (if its path is).
Fclose(w) ==
  /\ Running /\ pc[w] = "recorded"
  /\ file' = [file EXCEPT ![Current(w)] = IF @ = "partial" THEN "complete" ELSE @]
  /\ open' = open \ {fp[w]}
  /\ pc' = [pc EXCEPT ![w] = "closed"]
  /\ UNCHANGED <<n, fp, record, freed, stage, clashed, failed, covered>>

RecordPopNone(w) ==   \* mutant: the entry is not found
  /\ Running /\ pc[w] = "closed"
  /\ pc' = [pc EXCEPT ![w] = "idle"]
  /\ UNCHANGED <<n, fp, file, open, record, freed, stage, clashed, failed, covered>>

\* Its last step: dump_record_pop, by the value of a FILE* already closed.
RecordPop(w) ==
  /\ Running /\ pc[w] = "closed"
  /\ LET hits == {i \in DOMAIN record : record[i].fp = fp[w]}
         last == Len(record)
     IN \/ hits = {} /\ UNCHANGED <<record, freed, clashed>>
        \/ \E i \in hits :
             /\ \A k \in hits : i <= k
             /\ freed' = freed \cup {record[i].dump}
             /\ record' = Front([record EXCEPT ![last] = record[i]])
             /\ clashed' = (clashed \/ i # last)
  /\ pc' = [pc EXCEPT ![w] = "idle"]
  /\ UNCHANGED <<n, fp, file, open, stage, failed, covered>>

\* A SIGINT or SIGTERM; the threads have it blocked.
Signal ==
  /\ stage = "run" /\ stage' = "signalled"
  /\ UNCHANGED <<pc, n, fp, file, open, record, freed, clashed, failed, covered>>

Listed == {record[i].dump : i \in DOMAIN record} \ freed

BurnAllButLast ==   \* mutant: off by one
  /\ stage = "signalled" /\ stage' = "burnt"
  /\ LET burnt == 1..(Len(record) - 1) IN
       /\ file' = [d \in Dump |-> IF d \in {record[i].dump : i \in burnt} \ freed
                                  THEN "none" ELSE file[d]]
       /\ open' = open \ {record[i].fp : i \in burnt}
       /\ freed' = freed \cup {record[i].dump : i \in burnt}
  /\ record' = <<>>
  /\ UNCHANGED <<pc, n, fp, clashed, failed, covered>>

\* dump_record_burn, under the mutex: every file of the record is closed and
\* its path unlinked.  (A path that has been freed unlinks nothing here; the
\* burn of a panic or a failed assertion, before any signal, is left out.)
Burn ==
  /\ stage = "signalled" /\ stage' = "burnt"
  /\ file' = [d \in Dump |-> IF d \in Listed THEN "none" ELSE file[d]]
  /\ open' = open \ {record[i].fp : i \in DOMAIN record}
  /\ record' = <<>>
  /\ freed' = freed \cup {record[i].dump : i \in DOMAIN record}
  /\ UNCHANGED <<pc, n, fp, clashed, failed, covered>>

\* main returns, and the threads are no more.
Exit ==
  /\ stage = "burnt" /\ stage' = "exited"
  /\ UNCHANGED <<pc, n, fp, file, open, record, freed, clashed, failed, covered>>

Write(w) == Fopen(w) \/ RecordPush(w) \/ WriteFails(w) \/ Fclose(w) \/ RecordPop(w)

Next == Signal \/ Burn \/ Exit \/ \E w \in Writer : Write(w)

Spec == Init /\ [][Next]_vars

-----------------------------------------------------------------------------
Recorded == {w \in Writer : pc[w] \in {"recorded", "closed"}}

\* As long as dumps end in the reverse of the order in which they began, the
\* record lists, once each, the dumps being written and the ones given up: a
\* write that fails leaves its entry for the life of the process, and counts
\* towards the 16 after which dump_record_push stops it.
RecordIsExact ==
  stage \in {"run", "signalled"} /\ ~clashed =>
    /\ Listed = {Current(w) : w \in Recorded} \cup failed
    /\ Len(record) = Cardinality(Recorded) + Cardinality(failed)

\* "to avoid producing a corrupted dump this file will be removed": when the
\* process has ended, no dump that was recorded before the burn is left half
\* written, though its thread went on writing after the burn, unless dumps had
\* ended in another order.  (One opened but not yet recorded may be left.)
BurnLeavesNoPartial ==
  stage = "exited" /\ ~clashed => \A d \in covered : file[d] # "partial"

\* While the process runs, who finds half a dump under its final name finds
\* its writer still at it, or a write that has failed and been logged.
PartialHasWriter ==
  stage = "run" => \A d \in Dump : file[d] = "partial" =>
    d \in failed \/ \E w \in Writer : d = Current(w) /\ pc[w] \in {"opened", "recorded"}
=============================================================================
