----------------------------- MODULE Hoardlings -----------------------------
(***************************************************************************)
(* src/archive/emd/src/hoardling.c and main.c: the three threads of the     *)
(* archive and the channels between them.  The orders hoardling downloads   *)
(* every order, sends the locations it saw to the locations hoardling, and  *)
(* answers the histories hoardling, which lends it a vector to be filled    *)
(* with the active markets.  A hoardling that cannot go on signals the      *)
(* process, and main ends it.                                               *)
(* The channels are the bounded queues of module PtrFifo, with the permit   *)
(* that ptr_fifo_try_pop may lose.  A download is abstracted to the orders  *)
(* it yields, an order to its location and its market.                      *)
(***************************************************************************)
EXTENDS Integers, Sequences, FiniteSets

CONSTANTS
  Station,     \* locations that stations.csv has
  Structure,   \* locations that only the ESI knows
  Market,      \* (region, type) pairs
  Cap          \* capacity of the channel to the locations hoardling (32)

Location == Station \cup Structure

ASSUME HoardlingsAssumption ==
  /\ Station \cap Structure = {}
  /\ Cap \in Nat \ {0}

VARIABLES
  pc_orders, pc_locations, pc_histories,
  order_vec,      \* locations and markets of the latest download
  to_locations,   \* chan_orders_to_locations: vectors of location ids
  request,        \* active_market_request: the vectors lent
  permits,        \* its pop semaphore: a lent vector may be without a permit
  response,       \* active_market_response
  lent,           \* which of its two vectors histories has lent last
  market_vec,     \* what that vector holds
  todo,           \* location ids the locations hoardling still has to look up
  new_loc_info, loc_vec, forbidden_locs,   \* of the locations hoardling
  loc_dump,       \* locations of the latest dump emitted
  signalled,      \* has the process been sent SIGTERM?
  exited,         \* has main returned?
  \* History variables.
  cycled,         \* has a cycle that downloaded the orders ended since the request?
  trouble,        \* has the request lost its permit or its vector since?
  dumpFailed      \* did the latest location dump fail?

ordersVars == <<pc_orders, order_vec>>
channels == <<to_locations, request, permits, response>>
marketVars == <<lent, market_vec, cycled, trouble>>
locationVars == <<pc_locations, todo, new_loc_info, loc_vec, forbidden_locs,
                  loc_dump, dumpFailed>>
mainVars == <<signalled, exited>>
vars == <<ordersVars, channels, marketVars, locationVars, pc_histories, mainVars>>

\* The stations are known before the first order; no dump of them is due.
loc_vec_load == Station

NoOrders == [locations |-> {}, markets |-> {}]

Init ==
  /\ pc_orders = "download" /\ pc_locations = "pop" /\ pc_histories = "request"
  /\ order_vec = NoOrders
  /\ to_locations = <<>> /\ request = <<>> /\ permits = 0 /\ response = <<>>
  /\ lent = 0 /\ market_vec = {}
  /\ todo = {} /\ new_loc_info = FALSE
  /\ loc_vec = loc_vec_load /\ forbidden_locs = {}
  /\ loc_dump = Station /\ dumpFailed = FALSE
  /\ signalled = FALSE /\ exited = FALSE
  /\ cycled = FALSE /\ trouble = FALSE

-----------------------------------------------------------------------------
\* The orders hoardling.

\* Back to the head of the loop, which empties order_vec.
CycleEnds(downloaded) ==
  /\ pc_orders' = "download"
  /\ order_vec' = NoOrders
  /\ cycled' = (cycled \/ downloaded)

DownloadOk ==
  /\ pc_orders = "download" /\ ~exited
  /\ \E ls \in SUBSET Location, ms \in SUBSET Market :
       order_vec' = [locations |-> ls, markets |-> ms]
  /\ pc_orders' = "dump"
  /\ UNCHANGED <<channels, marketVars, locationVars, pc_histories, mainVars>>

\* "2 minutes backoff": nothing is dumped, sent or answered.
DownloadFails ==
  /\ pc_orders = "download" /\ ~exited
  /\ CycleEnds(FALSE)
  /\ UNCHANGED <<lent, market_vec, trouble, channels, locationVars, pc_histories, mainVars>>

OrdersDumpOrNext ==   \* mutant: a dump that fails ends the cycle
  /\ pc_orders = "dump" /\ ~exited
  /\ \/ pc_orders' = "send" /\ UNCHANGED <<order_vec, cycled>>
     \/ CycleEnds(TRUE)
  /\ UNCHANGED <<lent, market_vec, trouble, channels, locationVars, pc_histories,
                 mainVars>>

\* hoardling_orders_dump (module DumpRecord): done, or failed and logged, the
\* cycle goes on.
OrdersDump ==
  /\ pc_orders = "dump" /\ ~exited
  /\ pc_orders' = "send"
  /\ UNCHANGED <<order_vec, channels, marketVars, locationVars, pc_histories, mainVars>>

\* hoardling_orders_send_location_id_vec: 15 seconds for a free place, after
\* which the vector is freed and the failure logged.
SendLocations ==
  /\ pc_orders = "send" /\ ~exited
  /\ \/ /\ Len(to_locations) < Cap
        /\ to_locations' = Append(to_locations, order_vec.locations)
     \/ /\ Len(to_locations) = Cap
        /\ UNCHANGED to_locations
  /\ pc_orders' = "respond"
  /\ UNCHANGED <<order_vec, request, permits, response, marketVars,
                 locationVars, pc_histories, mainVars>>

\* ptr_fifo_try_pop finds no permit, or takes one and says E_EMPTY all the
\* same because of an old errno: no answer in this cycle.
NoRequest ==
  /\ pc_orders = "respond" /\ ~exited
  /\ \/ permits = 0 /\ UNCHANGED <<permits, trouble>>
     \/ permits > 0 /\ permits' = permits - 1 /\ trouble' = TRUE
  /\ CycleEnds(TRUE)
  /\ UNCHANGED <<to_locations, request, response, lent, market_vec,
                 locationVars, pc_histories, mainVars>>

TakeRequest ==
  /\ pc_orders = "respond" /\ ~exited
  /\ permits > 0
  /\ permits' = permits - 1
  /\ pc_orders' = "fill"
  /\ UNCHANGED <<order_vec, to_locations, request, response, marketVars,
                 locationVars, pc_histories, mainVars>>

\* Each market of the orders, once, is put where the lent pointer points.
order_fill_active_market_vec(markets) == market_vec' = market_vec \cup markets

\* The vector is filled, and pushed at once (its channel has room: one vector
\* is lent at a time).  Out of memory, it is neither pushed nor given back.
Answer ==
  /\ pc_orders = "fill" /\ ~exited
  /\ request' = Tail(request)
  /\ \/ /\ order_fill_active_market_vec(order_vec.markets)
        /\ response' = Append(response, Head(request))
        /\ UNCHANGED trouble
     \/ /\ \E part \in SUBSET order_vec.markets :   \* out of memory
             order_fill_active_market_vec(part)
        /\ trouble' = TRUE
        /\ UNCHANGED response
  /\ CycleEnds(TRUE)
  /\ UNCHANGED <<to_locations, permits, lent, locationVars,
                 pc_histories, mainVars>>

-----------------------------------------------------------------------------
\* The locations hoardling.

PopLocations ==
  /\ pc_locations = "pop" /\ ~exited
  /\ to_locations # <<>>
  /\ todo' = Head(to_locations)
  /\ to_locations' = Tail(to_locations)
  /\ new_loc_info' = FALSE
  /\ pc_locations' = "look"
  /\ UNCHANGED <<loc_vec, forbidden_locs, loc_dump, dumpFailed, request, permits,
                 response, ordersVars, marketVars, pc_histories, mainVars>>

LookUpLatest ==   \* mutant: new_loc_info tells of the latest id only
  /\ pc_locations = "look" /\ ~exited
  /\ \E id \in todo :
       /\ todo' = todo \ {id}
       /\ IF id \in loc_vec \cup forbidden_locs
          THEN UNCHANGED <<loc_vec, forbidden_locs>> /\ new_loc_info' = FALSE
          ELSE loc_vec' = loc_vec \cup {id} /\ new_loc_info' = TRUE
               /\ UNCHANGED forbidden_locs
  /\ UNCHANGED <<pc_locations, loc_dump, dumpFailed, channels, ordersVars,
                 marketVars, pc_histories, mainVars>>

\* loc_fetch_location_info, and what is made of its answer: the location is
\* told, the ESI refuses it, or anything else fails and is logged.
FetchLocationInfo(id) ==
  \/ /\ loc_vec' = loc_vec \cup {id}
     /\ new_loc_info' = TRUE
     /\ UNCHANGED forbidden_locs
  \/ /\ forbidden_locs' = forbidden_locs \cup {id}
     /\ UNCHANGED <<loc_vec, new_loc_info>>
  \/ UNCHANGED <<loc_vec, forbidden_locs, new_loc_info>>

\* One id: known, refused before, or asked for.
LookUp ==
  /\ pc_locations = "look" /\ ~exited
  /\ \E id \in todo :
       /\ todo' = todo \ {id}
       /\ IF id \in loc_vec \cup forbidden_locs
          THEN UNCHANGED <<loc_vec, forbidden_locs, new_loc_info>>
          ELSE FetchLocationInfo(id)
  /\ UNCHANGED <<pc_locations, loc_dump, dumpFailed, channels, ordersVars,
                 marketVars, pc_histories, mainVars>>

\* The vector is freed; a dump of every known location if there is a new one.
\* A dump that fails is logged, and not tried again for its own sake.
LocationsDump ==
  /\ pc_locations = "look" /\ ~exited
  /\ todo = {}
  /\ \/ /\ new_loc_info
        /\ \/ loc_dump' = loc_vec /\ dumpFailed' = FALSE
           \/ UNCHANGED loc_dump /\ dumpFailed' = TRUE
     \/ /\ ~new_loc_info
        /\ UNCHANGED <<loc_dump, dumpFailed>>
  /\ pc_locations' = "pop"
  /\ UNCHANGED <<todo, new_loc_info, loc_vec, forbidden_locs, channels,
                 ordersVars, marketVars, pc_histories, mainVars>>

-----------------------------------------------------------------------------
\* The histories hoardling.

\* hoardling_histories_request_active_markets, with the next empty vector.
LendMarketVec ==
  /\ pc_histories = "request" /\ ~exited
  /\ lent' = 1 - lent
  /\ market_vec' = {}
  /\ request' = Append(request, 1 - lent)
  /\ permits' = permits + 1
  /\ pc_histories' = "wait"
  /\ cycled' = FALSE /\ trouble' = FALSE
  /\ UNCHANGED <<ordersVars, to_locations, response, locationVars, mainVars>>

ReceiveMarketVec ==
  /\ pc_histories = "wait" /\ ~exited
  /\ response # <<>>
  /\ response' = Tail(response)
  /\ pc_histories' = "work"
  /\ UNCHANGED <<ordersVars, to_locations, request, permits, marketVars,
                 locationVars, mainVars>>

GiveUpAndGoOn ==   \* mutant: the request is made again
  /\ pc_histories = "wait" /\ ~exited
  /\ response = <<>>
  /\ pc_histories' = "request"
  /\ UNCHANGED <<ordersVars, channels, marketVars, locationVars, mainVars>>

GiveUpQuietly ==   \* mutant: the process is not told
  /\ pc_histories = "wait" /\ ~exited
  /\ response = <<>>
  /\ pc_histories' = "quit"
  /\ UNCHANGED <<ordersVars, channels, marketVars, locationVars, mainVars>>

\* 3 hours of the clock without an answer, which may be over in the middle of
\* any cycle.  The hoardling returns: its vector is no more.
GiveUp ==
  /\ pc_histories = "wait" /\ ~exited
  /\ response = <<>>
  /\ pc_histories' = "quit"
  /\ signalled' = TRUE
  /\ UNCHANGED <<ordersVars, channels, marketVars, locationVars, exited>>

\* The downloads of the day, module HistoryArchive, are done or out of trails.
HistoriesWork ==
  /\ pc_histories = "work" /\ ~exited
  /\ \/ pc_histories' = "request" /\ UNCHANGED signalled
     \/ pc_histories' = "quit" /\ signalled' = TRUE
  /\ UNCHANGED <<ordersVars, channels, marketVars, locationVars, exited>>

-----------------------------------------------------------------------------
\* An operator's SIGINT or SIGTERM, which every thread has blocked.
Signal ==
  /\ ~signalled /\ ~exited
  /\ signalled' = TRUE
  /\ UNCHANGED <<ordersVars, channels, marketVars, locationVars, pc_histories, exited>>

\* sigwait returns in main: the signals it sends to the threads stay pending,
\* the open dumps are burnt (module DumpRecord), and the process exits.
Exit ==
  /\ signalled /\ ~exited
  /\ exited' = TRUE
  /\ UNCHANGED <<ordersVars, channels, marketVars, locationVars, pc_histories, signalled>>

Orders ==
  \/ DownloadOk \/ DownloadFails \/ OrdersDump \/ SendLocations \/ NoRequest
  \/ TakeRequest \/ Answer
Locations == PopLocations \/ LookUp \/ LocationsDump
Histories == LendMarketVec \/ ReceiveMarketVec \/ GiveUp \/ HistoriesWork

Next == Orders \/ Locations \/ Histories \/ Signal \/ Exit

Spec == Init /\ [][Next]_vars

\* Every thread of the process runs; no download is promised to succeed.
FairSpec ==
  /\ Spec
  /\ WF_vars(Orders) /\ WF_vars(Locations) /\ WF_vars(Histories) /\ WF_vars(Exit)

-----------------------------------------------------------------------------
\* Between two vectors of ids every known location is in a dump, unless the
\* latest dump failed: new_loc_info forgets nothing but a failure.
DumpHasAllKnown ==
  pc_locations = "pop" /\ ~dumpFailed => loc_dump = loc_vec

\* The orders hoardling holds or writes a lent vector only while its owner is
\* blocked on the answer, or has given up and the process is about to end: a
\* late answer never changes a vector that histories reads or has lent again.
LentWhileWaiting ==
  pc_orders = "fill" \/ response # <<>> =>
    pc_histories = "wait" \/ (pc_histories = "quit" /\ signalled)

\* The first cycle since the request that downloads the orders answers it: no
\* download that fails, dump that fails or full channel makes it miss the
\* request, only a lost permit or a want of memory.  (Nothing in the code says
\* that such a cycle ends within the 3 hours histories waits.)
AnsweredByFirstCycle ==
  pc_histories = "wait" /\ cycled /\ ~trouble => response # <<>>

\* A hoardling that quits takes the process down, and every request is
\* answered or ends the process: histories never waits for ever.
WaitEnds == pc_histories \in {"wait", "quit"} ~> exited \/ pc_histories = "work"
=============================================================================
