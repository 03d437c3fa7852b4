-------------------------- MODULE DumpRecordProofs ---------------------------
(***************************************************************************)
(* What the record of dump.c is for, for any threads, dumps and FILE*       *)
(* values: no dump that was recorded before the burn is left half written   *)
(* when the process has ended, unless dump_record_pop has removed an entry  *)
(* that was not the last.  For that, every dump under way has its own entry *)
(* and no two entries are of one dump.  RecordIsExact comes last: what the  *)
(* record counts towards its limit of 16.                                   *)
(***************************************************************************)
EXTENDS DumpRecord, SequenceTheorems, FiniteSetTheorems, TLAPS

Entry == [fp : Fp \cup {NoFp}, dump : Dump]

Types ==
  /\ pc \in [Writer -> {"idle", "opened", "recorded", "closed"}]
  /\ n \in [Writer -> 0..MaxDumps] /\ fp \in [Writer -> Fp \cup {NoFp}]
  /\ file \in [Dump -> {"none", "partial", "complete"}]
  /\ record \in Seq(Entry)
  /\ stage \in {"run", "signalled", "burnt", "exited"} /\ clashed \in BOOLEAN
  /\ covered \subseteq Dump /\ freed \subseteq Dump
  /\ \A w \in Writer : pc[w] # "idle" => n[w] > 0

\* A dump is recorded once it is open, and its file is opened once.
CoveredIsOpened ==
  \A w \in Writer, k \in 1..MaxDumps : <<w, k>> \in covered =>
    k <= n[w] /\ (k = n[w] => pc[w] # "opened")

\* fclose comes before dump_record_pop.
ClosedIsWhole == \A w \in Writer : pc[w] = "closed" => file[Current(w)] # "partial"

\* Until the burn the record has one entry for each dump it lists, all of whose
\* paths are held, and it has the own entry of each dump under way.
EntriesDistinct ==
  \A i, j \in 1..Len(record) : record[i].dump = record[j].dump => i = j
EntriesHeld == \A i \in 1..Len(record) : record[i].dump \in covered \ freed
FreedIsCovered == freed \subseteq covered
EntryOfWriter(w) ==
  \E i \in 1..Len(record) : record[i] = [fp |-> fp[w], dump |-> Current(w)]
WritersRecorded ==
  \A w \in Writer : pc[w] \in {"recorded", "closed"} => EntryOfWriter(w)
PartialRecorded ==
  \A d \in covered : file[d] = "partial" => \E i \in 1..Len(record) : record[i].dump = d

RecordKept ==
  EntriesDistinct /\ EntriesHeld /\ FreedIsCovered /\ WritersRecorded /\ PartialRecorded

Burnt == \A d \in covered : file[d] # "partial"

IInv ==
  /\ Types /\ CoveredIsOpened /\ ClosedIsWhole
  /\ stage \in {"run", "signalled"} /\ ~clashed => RecordKept
  /\ stage \in {"burnt", "exited"} /\ ~clashed => Burnt

LEMMA CurrentType ==
  ASSUME Types, NEW w \in Writer, n[w] > 0
  PROVE  Current(w) \in Dump
BY DumpRecordAssumption DEF Types, Current, Dump

LEMMA InitRecord == Init => IInv
<1> SUFFICES ASSUME Init PROVE IInv
  OBVIOUS
<1>1. Types
  <2>1. record \in Seq(Entry)
    BY DEF Init
  <2>2. n \in [Writer -> 0..MaxDumps] /\ \A w \in Writer : pc[w] = "idle"
    BY DumpRecordAssumption DEF Init
  <2>3. pc \in [Writer -> {"idle", "opened", "recorded", "closed"}]
    BY DEF Init
  <2>4. fp \in [Writer -> Fp \cup {NoFp}]
    BY DEF Init
  <2>5. file \in [Dump -> {"none", "partial", "complete"}]
    BY DEF Init
  <2> QED
    BY <2>1, <2>2, <2>3, <2>4, <2>5 DEF Init, Types
<1>2. CoveredIsOpened /\ ClosedIsWhole
  BY DEF Init, CoveredIsOpened, ClosedIsWhole
<1>3. EntriesDistinct /\ EntriesHeld /\ FreedIsCovered /\ WritersRecorded /\ PartialRecorded
  BY DEF Init, EntriesDistinct, EntriesHeld, FreedIsCovered, WritersRecorded, PartialRecorded
<1> QED
  BY <1>1, <1>2, <1>3 DEF Init, IInv, RecordKept

\* A dump that is opened has never been in the record.
LEMMA FopenRecord ==
  ASSUME IInv, NEW w \in Writer, Fopen(w)
  PROVE  IInv'
<1> USE DEF IInv, Fopen
<1> DEFINE d == <<w, n[w] + 1>>
<1>1. /\ d \in Dump /\ d \notin covered
      /\ n' \in [Writer -> 0..MaxDumps] /\ n'[w] = n[w] + 1
      /\ \A v \in Writer \ {w} : n'[v] = n[v] /\ pc'[v] = pc[v] /\ fp'[v] = fp[v]
      /\ pc'[w] = "opened"
      /\ \A c \in Dump \ {d} : file'[c] = file[c]
  BY DumpRecordAssumption DEF Types, Dump, CoveredIsOpened
<1>2. Types'
  BY <1>1 DEF Types
<1>3. CoveredIsOpened'
  BY <1>1 DEF CoveredIsOpened, Types
<1>4. \A v \in Writer \ {w} : Current(v)' = Current(v) /\ Current(v) # d
  BY <1>1 DEF Current
<1>5. ClosedIsWhole'
  <2>1. ASSUME NEW v \in Writer, pc'[v] = "closed" PROVE file'[Current(v)'] # "partial"
    <3>1. v # w /\ pc[v] = "closed" /\ Current(v)' = Current(v) /\ Current(v) # d
      BY <1>1, <1>4, <2>1
    <3>2. Current(v) \in Dump
      BY <3>1, CurrentType DEF Types
    <3> QED
      BY <1>1, <3>1, <3>2 DEF ClosedIsWhole
  <2> QED
    BY <2>1 DEF ClosedIsWhole
<1>6. \A c \in covered : file'[c] = file[c]
  BY <1>1 DEF Types
<1>7. ASSUME RecordKept PROVE RecordKept'
  <2>1. WritersRecorded'
    <3>1. ASSUME NEW v \in Writer, pc'[v] \in {"recorded", "closed"} PROVE EntryOfWriter(v)'
      BY <1>1, <1>4, <1>7, <3>1 DEF RecordKept, WritersRecorded, EntryOfWriter
    <3> QED
      BY <3>1 DEF WritersRecorded
  <2>2. PartialRecorded'
    BY <1>6, <1>7 DEF RecordKept, PartialRecorded
  <2> QED
    BY <1>7, <2>1, <2>2 DEF RecordKept, EntriesDistinct, EntriesHeld, FreedIsCovered
<1>8. Burnt => Burnt'
  BY <1>6 DEF Burnt
<1> QED
  BY <1>2, <1>3, <1>5, <1>7, <1>8

\* A new entry is of a dump no other entry is of.
LEMMA PushRecord ==
  ASSUME IInv, NEW w \in Writer, RecordPush(w)
  PROVE  IInv'
<1> USE DEF IInv, RecordPush
<1> DEFINE e == [fp |-> fp[w], dump |-> Current(w)]
           last == Len(record) + 1
<1>1. Current(w) \in Dump /\ Current(w) \notin covered
  BY CurrentType DEF Types, CoveredIsOpened, Current, Dump
<1>2. /\ \A v \in Writer \ {w} : pc'[v] = pc[v]
      /\ pc'[w] = "recorded"
      /\ \A v \in Writer : Current(v)' = Current(v)
  BY DEF Types, Current
<1>3. /\ e \in Entry /\ record' \in Seq(Entry)
      /\ Len(record) \in Nat /\ Len(record') = last /\ record'[last] = e
      /\ \A i \in 1..Len(record) : record'[i] = record[i] /\ record[i] \in Entry
  <2>1. e \in Entry
    BY <1>1 DEF Types, Entry
  <2>2. record \in Seq(Entry) /\ record' = Append(record, e)
    BY DEF Types
  <2> HIDE DEF e
  <2> QED
    BY <2>1, <2>2
<1>4. Types'
  BY <1>1, <1>2, <1>3 DEF Types
<1>5. CoveredIsOpened'
  BY <1>1, <1>2 DEF CoveredIsOpened, Types, Current
<1>6. ClosedIsWhole'
  BY <1>2 DEF ClosedIsWhole
<1>7. ASSUME stage \in {"run", "signalled"}, RecordKept PROVE RecordKept'
  <2>1. covered' = covered \cup {Current(w)}
    BY <1>7
  <2>2. EntriesDistinct'
    BY <1>1, <1>3, <1>7 DEF RecordKept, EntriesDistinct, EntriesHeld
  <2>3. EntriesHeld' /\ FreedIsCovered'
    BY <1>1, <1>3, <1>7, <2>1 DEF RecordKept, EntriesHeld, FreedIsCovered
  <2>4. WritersRecorded'
    <3>1. ASSUME NEW v \in Writer, pc'[v] \in {"recorded", "closed"}, v # w
          PROVE EntryOfWriter(v)'
      BY <1>2, <1>3, <1>7, <3>1 DEF RecordKept, WritersRecorded, EntryOfWriter
    <3>2. EntryOfWriter(w)'
      BY <1>2, <1>3 DEF EntryOfWriter
    <3> QED
      BY <3>1, <3>2 DEF WritersRecorded
  <2>5. PartialRecorded'
    BY <1>3, <1>7, <2>1 DEF RecordKept, PartialRecorded
  <2> QED
    BY <2>2, <2>3, <2>4, <2>5 DEF RecordKept
<1>8. stage \in {"burnt", "exited"} /\ Burnt => Burnt'
  \* The threads go on after the burn: their dumps are not covered.
  <2>1. ASSUME stage = "exited" PROVE FALSE
    BY <2>1 DEF Running
  <2> QED
    BY <2>1 DEF Burnt
<1> QED
  BY <1>4, <1>5, <1>6, <1>7, <1>8

\* A dump that is given up keeps its entry, and so does one that is closed.
LEMMA EndOfWriteRecord ==
  ASSUME IInv, NEW w \in Writer, WriteFails(w) \/ Fclose(w)
  PROVE  IInv'
<1> USE DEF IInv, WriteFails, Fclose
<1>1. Current(w) \in Dump
  BY CurrentType DEF Types
<1>2. /\ \A v \in Writer \ {w} : pc'[v] = pc[v]
      /\ \A v \in Writer : Current(v)' = Current(v)
      /\ \A v \in Writer : pc'[v] \in {"recorded", "closed"} => pc[v] \in {"recorded", "closed"}
      /\ \A v \in Writer : pc'[v] = "opened" => pc[v] = "opened"
  BY DEF Types, Current
<1>3. /\ file' \in [Dump -> {"none", "partial", "complete"}]
      /\ \A d \in Dump : file'[d] = "partial" => file[d] = "partial"
  BY <1>1 DEF Types
<1>4. Types'
  BY <1>2, <1>3 DEF Types
<1>5. CoveredIsOpened'
  BY <1>2 DEF CoveredIsOpened, Types
<1>6. ClosedIsWhole'
  <2>1. pc'[w] = "closed" => file'[Current(w)] # "partial"
    BY <1>1 DEF Types
  <2>2. ASSUME NEW v \in Writer \ {w}, pc'[v] = "closed" PROVE file'[Current(v)] # "partial"
    BY <1>2, <1>3, <2>2, CurrentType DEF ClosedIsWhole, Types
  <2> QED
    BY <1>2, <2>1, <2>2 DEF ClosedIsWhole
<1>7. RecordKept => RecordKept'
  <2>1. RecordKept => WritersRecorded'
    BY <1>2 DEF RecordKept, WritersRecorded, EntryOfWriter
  <2>2. RecordKept => PartialRecorded'
    BY <1>3 DEF RecordKept, PartialRecorded, Types
  <2> QED
    BY <2>1, <2>2 DEF RecordKept, EntriesDistinct, EntriesHeld, FreedIsCovered
<1>8. Burnt => Burnt'
  BY <1>3 DEF Burnt, Types
<1> QED
  BY <1>4, <1>5, <1>6, <1>7, <1>8

LEMMA FrontKeeps ==
  ASSUME NEW S, NEW s \in Seq(S), Len(s) > 0
  PROVE  /\ Front(s) \in Seq(S) /\ Len(Front(s)) = Len(s) - 1
         /\ \A k \in 1..(Len(s) - 1) : Front(s)[k] = s[k]
<1> DEFINE l == Len(s) - 1
<1>1. l \in Nat
  OBVIOUS
<1>2. \A k \in 1..l : s[k] \in S
  OBVIOUS
<1>3. /\ SubSeq(s, 1, l) \in Seq(S)
      /\ Len(SubSeq(s, 1, l)) = IF 1 <= l THEN l - 1 + 1 ELSE 0
      /\ \A k \in 1..(l - 1 + 1) : SubSeq(s, 1, l)[k] = s[1 + k - 1]
  <2> HIDE DEF l
  <2> QED
    BY <1>1, <1>2, SubSeqProperties
<1> HIDE DEF l
<1>4. Len(SubSeq(s, 1, l)) = l
  BY <1>1, <1>3
<1>5. \A k \in 1..l : SubSeq(s, 1, l)[k] = s[k]
  <2> TAKE k \in 1..l
  <2>1. k \in 1..(l - 1 + 1) /\ 1 + k - 1 = k
    BY <1>1
  <2> QED
    BY <1>3, <2>1
<1> QED
  BY <1>3, <1>4, <1>5 DEF Front, l

\* What dump_record_pop does to the record: nothing, or the entries but the last
\* stay where they are.
LEMMA PopStep ==
  ASSUME Types, NEW w \in Writer, RecordPop(w)
  PROVE  /\ record \in Seq(Entry)
         /\ \A k \in 1..Len(record) : record[k].dump \in Dump
         /\ \/ /\ \A k \in 1..Len(record) : record[k].fp # fp[w]
               /\ UNCHANGED <<record, freed, clashed>>
            \/ \E i \in 1..Len(record) :
                 /\ record[i].fp = fp[w]
                 /\ \A k \in 1..Len(record) : record[k].fp = fp[w] => i <= k
                 /\ freed' = freed \cup {record[i].dump}
                 /\ record' \in Seq(Entry) /\ Len(record') = Len(record) - 1
                 /\ \A k \in 1..(Len(record) - 1) : record'[k] = record[k]
                 /\ clashed' = (clashed \/ i # Len(record))
<1> DEFINE hits == {i \in DOMAIN record : record[i].fp = fp[w]}
           last == Len(record)
<1>1. record \in Seq(Entry) /\ last \in Nat /\ DOMAIN record = 1..last
      /\ \A k \in 1..last : record[k] \in Entry /\ record[k].dump \in Dump
  <2>1. \A k \in 1..last : record[k] \in Entry
    BY DEF Types
  <2>2. record \in Seq(Entry) /\ last \in Nat /\ DOMAIN record = 1..last
    BY DEF Types
  <2> QED
    BY <2>1, <2>2 DEF Entry
<1>2. CASE hits = {} /\ UNCHANGED <<record, freed, clashed>>
  BY <1>1, <1>2
<1>3. CASE hits # {}
  <2>1. PICK i \in hits :
          /\ \A k \in hits : i <= k
          /\ freed' = freed \cup {record[i].dump}
          /\ record' = Front([record EXCEPT ![last] = record[i]])
          /\ clashed' = (clashed \/ i # last)
    BY <1>3 DEF RecordPop
  <2>2. i \in 1..last /\ last > 0 /\ record[i] \in Entry
    BY <1>1
  <2> DEFINE moved == [record EXCEPT ![last] = record[i]]
  <2>3. /\ moved \in Seq(Entry) /\ Len(moved) = last
        /\ \A k \in 1..(last - 1) : moved[k] = record[k]
    BY <1>1, <2>2
  <2>4. /\ record' \in Seq(Entry) /\ Len(record') = last - 1
        /\ \A k \in 1..(last - 1) : record'[k] = record[k]
    <3> HIDE DEF moved
    <3>1. record' = Front(moved)
      BY <2>1 DEF moved
    <3>2. /\ record' \in Seq(Entry) /\ Len(record') = Len(moved) - 1
          /\ \A k \in 1..(Len(moved) - 1) : record'[k] = moved[k]
      BY <2>2, <2>3, <3>1, FrontKeeps
    <3> QED
      BY <2>3, <3>2
  <2>5. record[i].fp = fp[w] /\ \A k \in 1..last : record[k].fp = fp[w] => i <= k
    BY <1>1, <2>1
  <2> QED
    BY <1>1, <2>1, <2>2, <2>4, <2>5
<1> QED
  BY <1>2, <1>3 DEF RecordPop

\* A pop that has not met another's entry has taken the caller's own, the last.
LEMMA PopTakesOwn ==
  ASSUME Types, RecordKept, NEW w \in Writer, RecordPop(w), ~clashed'
  PROVE  /\ Len(record) > 0 /\ record[Len(record)].dump = Current(w)
         /\ Len(record') = Len(record) - 1
         /\ \A k \in 1..(Len(record) - 1) : record'[k] = record[k]
         /\ freed' = freed \cup {Current(w)}
         /\ ~clashed
<1>1. PICK k \in 1..Len(record) : record[k] = [fp |-> fp[w], dump |-> Current(w)]
  BY DEF RecordPop, RecordKept, WritersRecorded, EntryOfWriter
<1>2. record[k].fp = fp[w] /\ record[k].dump = Current(w)
  BY <1>1
<1>3. Len(record) \in Nat
  BY DEF Types
<1>4. PICK i \in 1..Len(record) :
        /\ \A l \in 1..Len(record) : record[l].fp = fp[w] => i <= l
        /\ freed' = freed \cup {record[i].dump}
        /\ Len(record') = Len(record) - 1
        /\ \A l \in 1..(Len(record) - 1) : record'[l] = record[l]
        /\ clashed' = (clashed \/ i # Len(record))
  BY <1>2, PopStep
<1>5. i = Len(record) /\ ~clashed
  BY <1>4, Zenon
<1>6. k = i
  BY <1>2, <1>3, <1>4, <1>5
<1> QED
  BY <1>2, <1>3, <1>4, <1>5, <1>6

LEMMA PopRecord ==
  ASSUME IInv, NEW w \in Writer, RecordPop(w)
  PROVE  IInv'
<1> USE DEF IInv
<1> DEFINE last == Len(record)
<1>1. /\ \A v \in Writer \ {w} : pc'[v] = pc[v]
      /\ pc'[w] = "idle" /\ pc[w] = "closed"
      /\ \A v \in Writer : Current(v)' = Current(v)
      /\ UNCHANGED <<n, fp, file, stage, covered>>
  BY DEF Types, Current, RecordPop
<1>2. last \in Nat
  BY DEF Types
<1>3. Types'
  <2>1. freed \subseteq Dump /\ record \in Seq(Entry) /\ clashed \in BOOLEAN
    BY DEF Types
  <2>2. record' \in Seq(Entry) /\ freed' \subseteq Dump
    BY <2>1, PopStep
  <2>3. clashed' \in BOOLEAN
    BY <2>1, PopStep, Zenon
  <2> QED
    BY <1>1, <2>2, <2>3 DEF Types, RecordPop
<1>4. CoveredIsOpened' /\ ClosedIsWhole'
  BY <1>1 DEF CoveredIsOpened, ClosedIsWhole
<1>5. ASSUME RecordKept, ~clashed' PROVE RecordKept'
  <2>1. /\ last > 0 /\ record[last].dump = Current(w)
        /\ Len(record') = last - 1
        /\ \A k \in 1..(last - 1) : record'[k] = record[k]
        /\ freed' = freed \cup {Current(w)}
    BY <1>5, PopTakesOwn
  <2>2. \A k \in 1..(last - 1) : record[k].dump # Current(w)
    BY <1>2, <1>5, <2>1 DEF RecordKept, EntriesDistinct
  <2>3. EntriesDistinct'
    BY <1>2, <1>5, <2>1 DEF RecordKept, EntriesDistinct
  <2>4. EntriesHeld' /\ FreedIsCovered'
    <3>1. Current(w) \in covered
      BY <1>2, <1>5, <2>1 DEF RecordKept, EntriesHeld
    <3>2. \A k \in 1..(last - 1) : record[k].dump \in covered \ freed
      BY <1>2, <1>5 DEF RecordKept, EntriesHeld
    <3> QED
      BY <1>1, <1>2, <1>5, <2>1, <2>2, <3>1, <3>2 DEF RecordKept, EntriesHeld, FreedIsCovered
  <2>5. WritersRecorded'
    <3>1. ASSUME NEW v \in Writer, pc'[v] \in {"recorded", "closed"}
          PROVE EntryOfWriter(v)'
      <4>1. v # w /\ pc[v] \in {"recorded", "closed"} /\ Current(v) # Current(w)
        BY <1>1, <3>1 DEF Current
      <4>2. PICK k \in 1..last : record[k] = [fp |-> fp[v], dump |-> Current(v)]
        BY <1>5, <4>1 DEF RecordKept, WritersRecorded, EntryOfWriter
      <4>3. k # last
        BY <2>1, <4>1, <4>2
      <4> QED
        BY <1>1, <1>2, <2>1, <4>2, <4>3 DEF EntryOfWriter
    <3> QED
      BY <3>1 DEF WritersRecorded
  <2>6. PartialRecorded'
    <3>1. ASSUME NEW d \in covered, file[d] = "partial"
          PROVE \E k \in 1..Len(record') : record'[k].dump = d
      <4>1. d # Current(w)
        BY <1>1, <3>1 DEF ClosedIsWhole
      <4>2. PICK k \in 1..last : record[k].dump = d
        BY <1>5, <3>1 DEF RecordKept, PartialRecorded
      <4>3. k # last
        BY <2>1, <4>1, <4>2
      <4> QED
        BY <1>2, <2>1, <4>2, <4>3
    <3> QED
      BY <1>1, <3>1 DEF PartialRecorded
  <2> QED
    BY <2>3, <2>4, <2>5, <2>6 DEF RecordKept
<1>6. Burnt => Burnt'
  BY <1>1 DEF Burnt
<1>7. ~clashed' => ~clashed
  BY PopStep DEF Types
<1> QED
  BY <1>1, <1>3, <1>4, <1>5, <1>6, <1>7

\* The burn removes every file that is listed.
LEMMA BurnRecord ==
  ASSUME IInv, Burn
  PROVE  IInv'
<1> USE DEF IInv, Burn
<1>1. /\ file' \in [Dump -> {"none", "partial", "complete"}]
      /\ \A d \in Dump : file'[d] = "partial" => file[d] = "partial" /\ d \notin Listed
  BY DEF Types
<1>2. Types'
  <2>1. record' \in Seq(Entry)
    OBVIOUS
  <2>2. freed' \subseteq Dump
    <3>1. \A i \in DOMAIN record : record[i] \in Entry
      BY DEF Types
    <3> QED
      BY <3>1 DEF Types, Entry
  <2> QED
    BY <1>1, <2>1, <2>2 DEF Types
<1>3. CoveredIsOpened'
  BY DEF CoveredIsOpened
<1>4. \A v \in Writer : Current(v)' = Current(v)
  BY DEF Current
<1>5. ClosedIsWhole'
  BY <1>1, <1>4, CurrentType DEF ClosedIsWhole, Types
<1>6. RecordKept => Burnt'
  <2>1. ASSUME RecordKept, NEW d \in covered, file'[d] = "partial" PROVE FALSE
    <3>1. file[d] = "partial" /\ d \notin Listed
      BY <1>1, <2>1 DEF Types
    <3>2. PICK i \in 1..Len(record) : record[i].dump = d
      BY <2>1, <3>1 DEF RecordKept, PartialRecorded
    <3>3. d \notin freed
      BY <2>1, <3>2 DEF RecordKept, EntriesHeld
    <3> QED
      BY <3>1, <3>2, <3>3 DEF Listed, Types
  <2> QED
    BY <2>1 DEF Burnt
<1> QED
  BY <1>2, <1>3, <1>5, <1>6

LEMMA OtherRecord ==
  ASSUME IInv, Signal \/ Exit \/ UNCHANGED vars
  PROVE  IInv'
<1> USE DEF IInv, Signal, Exit, vars
<1>1. UNCHANGED <<pc, n, fp, file, record, freed, clashed, covered>>
  OBVIOUS
<1>2. Types' /\ CoveredIsOpened' /\ ClosedIsWhole'
  BY <1>1 DEF Types, CoveredIsOpened, ClosedIsWhole, Current
<1>3. (RecordKept => RecordKept') /\ (Burnt => Burnt')
  BY <1>1 DEF RecordKept, EntriesDistinct, EntriesHeld, FreedIsCovered, WritersRecorded,
        EntryOfWriter, Current, PartialRecorded, Burnt
<1> QED
  BY <1>2, <1>3 DEF Types

LEMMA NextRecord == IInv /\ [Next]_vars => IInv'
BY FopenRecord, PushRecord, EndOfWriteRecord, PopRecord, BurnRecord, OtherRecord
   DEF Next, Write

\* BurnLeavesNoPartial for every number of threads and dumps and every choice
\* of FILE* values: dump_record_burn removes what is half written, and what is
\* opened after it was never recorded in time.
THEOREM NoPartialLeft == Spec => []BurnLeavesNoPartial
<1>1. IInv => BurnLeavesNoPartial
  BY DEF IInv, Burnt, BurnLeavesNoPartial
<1> QED
  BY InitRecord, NextRecord, <1>1, PTL DEF Spec

\* PartialHasWriter, for any threads and dumps: a writer that goes on to its
\* next dump has closed its last one, or given it up.
THEOREM PartialIsWritten == Spec => []PartialHasWriter
<1> DEFINE Written(d) ==
             d \in failed \/ \E w \in Writer : d = Current(w) /\ pc[w] \in {"opened", "recorded"}
<1>1. Init => PartialHasWriter
  BY DEF Init, PartialHasWriter
<1>2. ASSUME IInv, PartialHasWriter, [Next]_vars PROVE PartialHasWriter'
  <2> SUFFICES ASSUME stage' = "run", NEW d \in Dump, file'[d] = "partial" PROVE Written(d)'
    BY DEF PartialHasWriter
  <2>1. ASSUME NEW w \in Writer, Fopen(w) PROVE Written(d)'
    <3>1. /\ pc'[w] = "opened" /\ Current(w)' = <<w, n[w] + 1>>
          /\ \A v \in Writer \ {w} : pc'[v] = pc[v] /\ Current(v)' = Current(v)
      BY <1>2, <2>1 DEF IInv, Types, Fopen, Current
    <3>2. CASE d = <<w, n[w] + 1>>
      BY <3>1, <3>2
    <3>3. CASE d # <<w, n[w] + 1>>
      <4>1. file[d] = "partial" /\ stage = "run" /\ failed' = failed /\ pc[w] = "idle"
        BY <1>2, <2>1, <3>3 DEF IInv, Types, Fopen
      <4>2. Written(d)
        BY <1>2, <4>1 DEF PartialHasWriter
      <4> QED
        BY <3>1, <4>1, <4>2
    <3> QED
      BY <3>2, <3>3
  <2>2. ASSUME NEW w \in Writer, RecordPush(w) \/ RecordPop(w) PROVE Written(d)'
    <3>1. /\ stage = "run" /\ file[d] = "partial" /\ failed' = failed
          /\ \A v \in Writer : Current(v)' = Current(v)
          /\ \A v \in Writer \ {w} : pc'[v] = pc[v]
          /\ pc'[w] = "recorded" \/ pc[w] = "closed"
      BY <1>2, <2>2 DEF IInv, Types, RecordPush, RecordPop, Current
    <3>2. Written(d)
      BY <1>2, <3>1 DEF PartialHasWriter
    <3> QED
      BY <3>1, <3>2
  <2>3. ASSUME NEW w \in Writer, WriteFails(w) \/ Fclose(w) PROVE Written(d)'
    <3>1. /\ stage = "run" /\ file[d] = "partial" /\ failed \subseteq failed'
          /\ \A v \in Writer : Current(v)' = Current(v)
          /\ \A v \in Writer \ {w} : pc'[v] = pc[v]
          /\ d = Current(w) => d \in failed'
      <4>1. Current(w) \in Dump
        BY <1>2, <2>3, CurrentType DEF IInv, Types, WriteFails, Fclose
      <4> QED
        BY <1>2, <2>3, <4>1 DEF IInv, Types, WriteFails, Fclose, Current
    <3>2. Written(d)
      BY <1>2, <3>1 DEF PartialHasWriter
    <3> QED
      BY <3>1, <3>2
  <2>4. CASE UNCHANGED vars
    BY <1>2, <2>4 DEF PartialHasWriter, Current, vars
  <2>5. CASE Signal \/ Burn \/ Exit
    BY <2>5 DEF Signal, Burn, Exit
  <2> QED
    BY <1>2, <2>1, <2>2, <2>3, <2>4, <2>5 DEF Next, Write
<1> QED
  BY InitRecord, NextRecord, <1>1, <1>2, PTL DEF Spec

-----------------------------------------------------------------------------
\* The dumps of the record are the ones being written and the ones given up,
\* which no writer comes back to.
Given(w, k) == k <= n[w] /\ (k = n[w] => pc[w] = "idle")
FailedIsPast ==
  failed \subseteq Dump /\ \A w \in Writer, k \in 1..MaxDumps : <<w, k>> \in failed => Given(w, k)
ListsExactly ==
  \A d \in Dump : (\E i \in 1..Len(record) : record[i].dump = d) <=>
    (d \in failed \/ \E w \in Recorded : d = Current(w))
Exact ==
  FailedIsPast /\ (stage \in {"run", "signalled"} /\ ~clashed => ListsExactly)

\* A pop that clashed' is not set by has removed the dump just closed.
LEMMA ListedByPop ==
  ASSUME IInv, Exact, NEW w \in Writer, RecordPop(w),
         stage \in {"run", "signalled"}, ~clashed'
  PROVE  ListsExactly'
<1>1. Types /\ ~clashed
  BY PopStep DEF IInv
<1>2. RecordKept /\ ListsExactly
  BY <1>1 DEF IInv, Exact
<1>3. /\ Len(record) > 0 /\ record[Len(record)].dump = Current(w)
      /\ Len(record') = Len(record) - 1
      /\ \A k \in 1..(Len(record) - 1) : record'[k] = record[k]
  BY <1>1, <1>2, PopTakesOwn
<1>4. Len(record) \in Nat
  BY <1>1 DEF Types
<1>5. Current(w) \in Dump /\ Current(w) \notin failed
  BY <1>1, CurrentType DEF Types, Exact, FailedIsPast, Given, Current, Dump, RecordPop
<1>6. /\ \A v \in Writer : Current(v)' = Current(v)
      /\ Recorded' = Recorded \ {w} /\ failed' = failed
      /\ \A v \in Writer \ {w} : Current(v) # Current(w)
  BY <1>1 DEF Types, RecordPop, Recorded, Current
<1>7. \A d \in Dump : (\E i \in 1..Len(record') : record'[i].dump = d) <=>
                      (\E i \in 1..Len(record) : record[i].dump = d) /\ d # Current(w)
  BY <1>2, <1>3, <1>4 DEF RecordKept, EntriesDistinct
<1>8. \A d \in Dump : (d \in failed' \/ \E v \in Recorded' : d = Current(v)') <=>
                      (d \in failed \/ \E v \in Recorded : d = Current(v)) /\ d # Current(w)
  BY <1>5, <1>6 DEF Recorded
<1> QED
  BY <1>2, <1>7, <1>8 DEF ListsExactly

LEMMA ExactKept == Exact /\ IInv /\ [Next]_vars => Exact'
<1> SUFFICES ASSUME Exact, IInv, [Next]_vars PROVE Exact'
  OBVIOUS
<1> USE DEF Exact
<1>1. Types
  BY DEF IInv
<1>2. ASSUME NEW w \in Writer, Fopen(w) PROVE Exact'
  <2>1. /\ \A v \in Writer \ {w} : pc'[v] = pc[v] /\ n'[v] = n[v]
        /\ pc[w] = "idle" /\ pc'[w] = "opened" /\ n'[w] = n[w] + 1 /\ n[w] \in Nat
        /\ UNCHANGED <<record, failed, stage, clashed>>
    BY <1>1, <1>2 DEF Types, Fopen
  <2>2. FailedIsPast'
    BY <2>1 DEF FailedIsPast, Given
  <2>3. Recorded' = Recorded /\ \A v \in Recorded : Current(v)' = Current(v)
    BY <2>1 DEF Recorded, Current
  <2>4. ListsExactly => ListsExactly'
    BY <2>1, <2>3 DEF ListsExactly
  <2> QED
    BY <2>1, <2>2, <2>4
<1>3. ASSUME NEW w \in Writer, RecordPush(w) PROVE Exact'
  <2>1. /\ \A v \in Writer \ {w} : pc'[v] = pc[v]
        /\ pc[w] = "opened" /\ pc'[w] = "recorded"
        /\ \A v \in Writer : Current(v)' = Current(v)
        /\ UNCHANGED <<n, failed, stage, clashed>>
    BY <1>1, <1>3 DEF Types, RecordPush, Current
  <2>2. FailedIsPast'
    BY <2>1 DEF FailedIsPast, Given
  <2>3. Recorded' = Recorded \cup {w} /\ Recorded \subseteq Writer
    BY <2>1 DEF Recorded
  <2>4. /\ Len(record) \in Nat /\ Len(record') = Len(record) + 1
        /\ record'[Len(record) + 1].dump = Current(w)
        /\ \A i \in 1..Len(record) : record'[i] = record[i]
    <3> DEFINE e == [fp |-> fp[w], dump |-> Current(w)]
    <3>1. e.dump = Current(w) /\ e \in Entry /\ record \in Seq(Entry) /\ record' = Append(record, e)
      BY <1>1, <1>3, <2>1, CurrentType DEF RecordPush, Entry, Types
    <3> HIDE DEF e
    <3> QED
      BY <3>1
  <2>5. \A d \in Dump : (\E i \in 1..Len(record') : record'[i].dump = d) <=>
                        (\E i \in 1..Len(record) : record[i].dump = d) \/ d = Current(w)
    BY <2>4
  <2>6. ListsExactly => ListsExactly'
    BY <2>1, <2>3, <2>5 DEF ListsExactly
  <2> QED
    BY <2>1, <2>2, <2>6
<1>4. ASSUME NEW w \in Writer, WriteFails(w) PROVE Exact'
  <2>1. /\ \A v \in Writer \ {w} : pc'[v] = pc[v]
        /\ pc[w] = "recorded" /\ pc'[w] = "idle"
        /\ \A v \in Writer : Current(v)' = Current(v)
        /\ failed' = failed \cup {Current(w)} /\ Current(w) \in Dump
        /\ UNCHANGED <<n, record, stage, clashed>>
    BY <1>1, <1>4, CurrentType DEF Types, WriteFails, Current
  <2>2. FailedIsPast'
    <3>1. failed' \subseteq Dump
      BY <2>1 DEF FailedIsPast
    <3>2. ASSUME NEW v \in Writer, NEW k \in 1..MaxDumps, <<v, k>> \in failed' PROVE Given(v, k)'
      <4>1. n[v] \in Nat /\ k \in Int /\ (<<v, k>> \in failed \/ (v = w /\ k = n[w]))
        BY <1>1, <2>1, <3>2, DumpRecordAssumption DEF Types, Current
      <4> QED
        BY <1>1, <2>1, <4>1, DumpRecordAssumption DEF FailedIsPast, Given, Types
    <3> QED
      BY <3>1, <3>2 DEF FailedIsPast
  <2>3. Recorded' = Recorded \ {w} /\ w \in Recorded /\ Recorded \subseteq Writer
    BY <2>1 DEF Recorded
  <2>4. ListsExactly => ListsExactly'
    BY <2>1, <2>3 DEF ListsExactly
  <2> QED
    BY <2>1, <2>2, <2>4
<1>5. ASSUME NEW w \in Writer, Fclose(w) PROVE Exact'
  <2>1. /\ \A v \in Writer \ {w} : pc'[v] = pc[v]
        /\ pc[w] = "recorded" /\ pc'[w] = "closed"
        /\ \A v \in Writer : Current(v)' = Current(v)
        /\ UNCHANGED <<n, record, failed, stage, clashed>>
    BY <1>1, <1>5 DEF Types, Fclose, Current
  <2>2. FailedIsPast'
    BY <2>1 DEF FailedIsPast, Given
  <2>3. Recorded' = Recorded /\ Recorded \subseteq Writer
    BY <2>1 DEF Recorded
  <2> QED
    BY <2>1, <2>2, <2>3 DEF ListsExactly
<1>6. ASSUME NEW w \in Writer, RecordPop(w) PROVE Exact'
  <2>1. FailedIsPast'
    BY <1>1, <1>6 DEF FailedIsPast, Given, Types, RecordPop
  <2>2. stage' = stage
    BY <1>6 DEF RecordPop
  <2> QED
    BY <1>6, <2>1, <2>2, ListedByPop
<1>7. CASE Signal \/ Burn \/ Exit \/ UNCHANGED vars
  <2>1. FailedIsPast'
    BY <1>7 DEF FailedIsPast, Given, Signal, Burn, Exit, vars
  <2>2. CASE Burn \/ Exit
    BY <2>1, <2>2 DEF Burn, Exit
  <2>3. CASE Signal \/ UNCHANGED vars
    BY <1>1, <2>1, <2>3 DEF ListsExactly, Recorded, Current, Signal, vars, Types
  <2> QED
    BY <1>7, <2>2, <2>3
<1> QED
  BY <1>2, <1>3, <1>4, <1>5, <1>6, <1>7 DEF Next, Write

\* As many entries as there are dumps they list.
LEMMA LengthCounts ==
  ASSUME Types, RecordKept, FailedIsPast, ListsExactly
  PROVE  Len(record) = Cardinality(Recorded) + Cardinality(failed)
<1> DEFINE last == Len(record)
           dumps == {record[i].dump : i \in 1..last}
           writing == {Current(w) : w \in Recorded}
<1>1. last \in Nat /\ \A i \in 1..last : record[i].dump \in Dump
  BY DEF Types, RecordKept, EntriesHeld
<1>2. IsFiniteSet(dumps) /\ Cardinality(dumps) = last
  <2>1. IsFiniteSet(1..last) /\ Cardinality(1..last) = last
    BY <1>1, FS_Interval
  <2>2. [i \in 1..last |-> record[i].dump] \in Bijection(1..last, dumps)
    BY DEF RecordKept, EntriesDistinct, Bijection, Injection, Surjection, IsInjective
  <2> HIDE DEF dumps, last
  <2> QED
    BY <2>1, <2>2, FS_Bijection DEF ExistsBijection
<1>3. \A w \in Recorded : w \in Writer /\ n[w] > 0 /\ Current(w) \in Dump /\ Current(w) \notin failed
  <2> TAKE w \in Recorded
  <2>1. w \in Writer /\ n[w] > 0 /\ pc[w] # "idle" /\ n[w] \in 1..MaxDumps
    BY DumpRecordAssumption DEF Recorded, Types
  <2> QED
    BY <2>1, CurrentType DEF FailedIsPast, Given, Current
<1>4. dumps = writing \cup failed /\ writing \cap failed = {}
  <2>1. dumps \subseteq Dump /\ writing \subseteq Dump /\ failed \subseteq Dump
    BY <1>1, <1>3 DEF FailedIsPast
  <2>2. \A d \in Dump : d \in dumps <=> d \in writing \/ d \in failed
    BY DEF ListsExactly
  <2>3. writing \cap failed = {}
    BY <1>3
  <2> HIDE DEF dumps, writing
  <2> QED
    BY <2>1, <2>2, <2>3
<1>5. /\ IsFiniteSet(writing) /\ IsFiniteSet(failed)
      /\ last = Cardinality(writing) + Cardinality(failed)
  <2> HIDE DEF dumps, writing, last
  <2>1. IsFiniteSet(writing) /\ IsFiniteSet(failed)
    BY <1>2, <1>4, FS_Subset
  <2>2. Cardinality(dumps) = Cardinality(writing) + Cardinality(failed) - Cardinality({})
    BY <1>4, <2>1, FS_Union
  <2>3. Cardinality(writing) \in Nat /\ Cardinality(failed) \in Nat
    BY <2>1, FS_CardinalityType
  <2> QED
    BY <1>2, <2>1, <2>2, <2>3, FS_EmptySet
<1>6. Cardinality(Recorded) = Cardinality(writing)
  <2> DEFINE writer == [d \in writing |-> d[1]]
  <2>1. \A w \in Recorded : Current(w) \in writing /\ writer[Current(w)] = w
    BY DEF Current
  <2>2. \A d \in writing : writer[d] \in Recorded /\ d = Current(writer[d])
    BY DEF Current
  <2>3. writer \in [writing -> Recorded] /\ DOMAIN writer = writing
    <3>1. writer = [d \in writing |-> writer[d]]
      OBVIOUS
    <3> HIDE DEF writing, writer
    <3> QED
      BY <2>2, <3>1
  <2> HIDE DEF writing, writer
  <2>4. writer \in Bijection(writing, Recorded)
    BY <2>1, <2>2, <2>3 DEF Bijection, Injection, Surjection, IsInjective
  <2> QED
    BY <1>5, <2>4, FS_Bijection DEF ExistsBijection
<1> QED
  BY <1>5, <1>6

\* RecordIsExact, for any threads, dumps and FILE* values: what the record
\* counts towards its limit is what is being written and what was given up.
THEOREM RecordCounts == Spec => []RecordIsExact
<1>1. Init => Exact
  <2> SUFFICES ASSUME Init PROVE Exact
    OBVIOUS
  <2>1. FailedIsPast
    BY DEF Init, FailedIsPast
  <2>2. ListsExactly
    BY DEF Init, ListsExactly, Recorded
  <2> QED
    BY <2>1, <2>2 DEF Exact
<1>2. IInv /\ Exact => RecordIsExact
  <2> SUFFICES ASSUME IInv, Exact, stage \in {"run", "signalled"}, ~clashed
               PROVE  /\ Listed = {Current(w) : w \in Recorded} \cup failed
                      /\ Len(record) = Cardinality(Recorded) + Cardinality(failed)
    BY DEF RecordIsExact
  <2>1. Types /\ RecordKept /\ FailedIsPast /\ ListsExactly
    BY DEF IInv, Exact
  <2>2. Listed = {Current(w) : w \in Recorded} \cup failed
    <3>1. DOMAIN record = 1..Len(record)
      BY <2>1 DEF Types
    <3>2. Listed = {record[i].dump : i \in 1..Len(record)}
      BY <2>1, <3>1 DEF Listed, RecordKept, EntriesHeld
    <3>3. Listed \subseteq Dump /\ failed \subseteq Dump
      BY <2>1, <3>2 DEF RecordKept, EntriesHeld, FailedIsPast, Types
    <3>4. \A w \in Recorded : Current(w) \in Dump
      BY <2>1, CurrentType DEF Recorded, Types
    <3> QED
      BY <2>1, <3>2, <3>3, <3>4 DEF ListsExactly
  <2> QED
    BY <2>1, <2>2, LengthCounts
<1> QED
  BY InitRecord, NextRecord, ExactKept, <1>1, <1>2, PTL DEF Spec
=============================================================================
