----------------------------- MODULE Locations ------------------------------
(***************************************************************************)
(* The locations of the orders: orderWorker of                              *)
(* src/examples/web-server/main.go asks DownloadLocationDump of             *)
(* src/location.go for those it does not know, and keeps the ones the ESI   *)
(* refused so as not to ask for them again.  The ids that getStationById    *)
(* and getSystemById do not find are those missing from data/*.csv.         *)
(***************************************************************************)
EXTENDS Naturals, SequencesExt

CONSTANTS
  Npc,           \* NPC stations, which data/stations.csv tells of
  UnknownNpc,    \* NPC stations it does not have
  Structure,     \* player structures, which the ESI tells of
  OrderDumps,    \* the locations an order dump may name, order by order
  MaxRefusals    \* bound on how often the history variable counts a refusal

Location == Npc \cup UnknownNpc \cup Structure

ASSUME LocationAssumption ==
  /\ Structure \cap (Npc \cup UnknownNpc) = {}
  /\ OrderDumps \subseteq Seq(Location)
  /\ MaxRefusals \in Nat \ {0}

VARIABLES
  known,       \* ids in globalLocations
  forbidden,   \* globalForbiddenLocations
  downloading, \* is DownloadLocationDump running?
  unknown,     \* the unknown locations it has still to see
  data,        \* its locationData
  refused,     \* its forbiddenLocations
  refusals     \* history variable: how often the ESI refused each structure

sharedVars == <<known, forbidden>>
vars == <<sharedVars, downloading, unknown, data, refused, refusals>>

Init ==
  /\ known = <<>> /\ forbidden = <<>>
  /\ downloading = FALSE
  /\ unknown = <<>> /\ data = <<>> /\ refused = <<>>
  /\ refusals = [s \in Structure |-> 0]
-----------------------------------------------------------------------------
WithRepeats(orders) ==   \* mutant: an id is listed once per order
  SelectSeq(orders, LAMBDA l : ~Contains(known, l) /\ ~Contains(forbidden, l))

addUnknown(ids, l) ==
  IF Contains(known, l) \/ Contains(forbidden, l) \/ Contains(ids, l)
  THEN ids ELSE Append(ids, l)

\* getUnknownLocations: each id that is neither known nor forbidden, once, in
\* the order in which the orders name them.
getUnknownLocations(orders) ==
  LET ids[i \in 0..Len(orders)] ==
        IF i = 0 THEN <<>> ELSE addUnknown(ids[i - 1], orders[i])
  IN ids[Len(orders)]

\* An order dump arrives.  DownloadLocationDump is called if it names a
\* location that is unknown.
BeginDownload ==
  /\ ~downloading
  /\ \E orders \in OrderDumps :
       /\ getUnknownLocations(orders) # <<>>
       /\ unknown' = getUnknownLocations(orders)
  /\ downloading' = TRUE /\ data' = <<>> /\ refused' = <<>>
  /\ UNCHANGED <<sharedVars, refusals>>

FailForgets ==   \* mutant: the refusals of a download that fails are lost
  /\ downloading' = FALSE
  /\ unknown' = <<>> /\ data' = <<>> /\ refused' = <<>>
  /\ UNCHANGED sharedVars

\* DownloadLocationDump fails: its refusals are kept, its locations are not.
Fail ==
  /\ downloading' = FALSE
  /\ forbidden' = forbidden \o refused
  /\ unknown' = <<>> /\ data' = <<>> /\ refused' = <<>>
  /\ UNCHANGED known

Resolved ==
  /\ data' = Append(data, Head(unknown)) /\ unknown' = Tail(unknown)
  /\ UNCHANGED <<sharedVars, downloading, refused>>

\* An NPC station is looked up; one that is not found fails the download.
LookUpStation ==
  /\ downloading /\ unknown # <<>>
  /\ \/ Head(unknown) \in Npc /\ Resolved
     \/ Head(unknown) \in UnknownNpc /\ Fail
  /\ UNCHANGED refusals

\* A structure is fetched with a single trail.  Its answer may name a system
\* that is not found: like any error of esiFetch that is not an esiError, this
\* fails the download.
FetchStructure ==
  /\ downloading /\ unknown # <<>> /\ Head(unknown) \in Structure
  /\ Resolved \/ Fail
  /\ UNCHANGED refusals

\* The ESI answers with an esiError.
RefuseStructure ==
  /\ downloading /\ unknown # <<>> /\ Head(unknown) \in Structure
  /\ refused' = Append(refused, Head(unknown)) /\ unknown' = Tail(unknown)
  /\ refusals' = [refusals EXCEPT ![Head(unknown)] =
                    IF @ < MaxRefusals THEN @ + 1 ELSE @]
  /\ UNCHANGED <<sharedVars, downloading, data>>

\* The download ends, and orderWorker stores what it returned.
EndDownload ==
  /\ downloading /\ unknown = <<>>
  /\ downloading' = FALSE
  /\ known' = known \o data
  /\ forbidden' = forbidden \o refused
  /\ data' = <<>> /\ refused' = <<>>
  /\ UNCHANGED <<unknown, refusals>>
-----------------------------------------------------------------------------
\* However often orders repeat a location and however downloads fail, a
\* location is known or forbidden, once, and never both: "avoid requesting
\* these locations in your subsequent requests".
KnownOrForbiddenOnce ==
  /\ IsInjective(known \o forbidden)
  /\ \A l \in ToSet(forbidden) : refusals[l] > 0

\* A refusal is never lost: a structure the ESI refused is forbidden as soon as
\* the download in which it was refused is over, well or not.
RefusalsAreKept ==
  ~downloading => \A s \in Structure : refusals[s] > 0 => Contains(forbidden, s)
=============================================================================
