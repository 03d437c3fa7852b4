----------------------------- MODULE OrderDump ------------------------------
(***************************************************************************)
(* The orders of every region, page by page, while players place and cancel *)
(* orders: order_download_universe of src/archive/emd/src/orders.c and      *)
(* DownloadOrderDump of src/order.go, which take the same steps.  The ESI   *)
(* serves a region's book in pages of PageSize orders and says with each    *)
(* how many there are.                                                      *)
(***************************************************************************)
EXTENDS Naturals, FiniteSets, SequencesExt

CONSTANTS
  Regions,     \* how many regions
  Books,       \* books a region may have at first: sequences of orders
  PageSize,    \* orders per page
  NewOrders,   \* orders that may be placed during the download
  MaxExpired   \* bound on the orders of a region that end during the download

ASSUME OrderAssumption ==
  /\ Regions \in Nat /\ PageSize \in Nat \ {0} /\ MaxExpired \in Nat
  /\ Books \subseteq Seq(UNION {ToSet(b) : b \in Books})
  /\ \A b \in Books : ToSet(b) \cap NewOrders = {}

VARIABLES
  book,       \* the ESI's book of each region
  unplaced,   \* the new orders that are not placed yet
  expired,    \* how many orders of each region ended during the download
  region,     \* the region being downloaded
  page,       \* its next page
  pages,      \* how many pages the last answer said it has
  outcome,     \* "none", then "ok" or "error"
  orders,     \* the orders downloaded
  atLastPage  \* history variable: each region's book when last asked for a page,
              \* or at first

orderVars == <<book, unplaced, expired, region, page, pages, outcome, orders, atLastPage>>

OrderInit ==
  /\ book \in [1..Regions -> Books]
  /\ unplaced = NewOrders /\ expired = [r \in 1..Regions |-> 0]
  /\ region = 1 /\ page = 1 /\ pages = 0
  /\ outcome = "none" /\ orders = <<>>
  /\ atLastPage = book
-----------------------------------------------------------------------------
\* The ESI: page p of a book, and the number of pages.  A page past the last
\* one is an error.
PagesOf(b) == IF b = <<>> THEN 1 ELSE (Len(b) + PageSize - 1) \div PageSize
PageOf(b, p) ==
  SubSeq(b, (p - 1) * PageSize + 1,
         IF p * PageSize < Len(b) THEN p * PageSize ELSE Len(b))

\* The ESI lists an order after those that were placed before it.
Place ==
  /\ outcome = "none"
  /\ \E r \in 1..Regions, o \in unplaced :
       /\ book' = [book EXCEPT ![r] = Append(@, o)]
       /\ unplaced' = unplaced \ {o}
  /\ UNCHANGED <<expired, region, page, pages, outcome, orders, atLastPage>>

Expire ==
  /\ outcome = "none"
  /\ \E r \in 1..Regions : \E n \in DOMAIN book[r] :
       /\ expired[r] < MaxExpired
       /\ expired' = [expired EXCEPT ![r] = @ + 1]
       /\ book' = [book EXCEPT ![r] = RemoveAt(@, n)]
  /\ UNCHANGED <<unplaced, region, page, pages, outcome, orders, atLastPage>>
-----------------------------------------------------------------------------
InRegion(b, r) == [n \in DOMAIN b |-> [region |-> r, order |-> b[n]]]

NotLastPage == page < pages \/ page = 1   \* mutant: off by one

\* The condition of the loop, which lets the first page of a region through.
MorePages == page <= pages \/ page = 1

FetchPage ==
  /\ outcome = "none" /\ region <= Regions /\ MorePages
  /\ page <= PagesOf(book[region])
  /\ orders' = orders \o InRegion(PageOf(book[region], page), region)
  /\ pages' = PagesOf(book[region])
  /\ page' = page + 1
  /\ atLastPage' = [atLastPage EXCEPT ![region] = book[region]]
  /\ UNCHANGED <<book, unplaced, expired, region, outcome>>

\* A fetch that fails, as one past the last page does, an order that does not
\* convert, no page count (in C) or a cancelled context (in Go): nothing is
\* returned.
FailPage ==
  /\ outcome = "none" /\ region <= Regions /\ MorePages
  /\ outcome' = "error" /\ orders' = <<>>
  /\ UNCHANGED <<book, unplaced, expired, region, page, pages, atLastPage>>

KeepPage ==   \* mutant: p is declared outside the loop over the regions
  /\ outcome = "none" /\ region <= Regions /\ ~MorePages
  /\ region' = region + 1
  /\ UNCHANGED <<book, unplaced, expired, page, pages, outcome, orders, atLastPage>>

NextRegion ==
  /\ outcome = "none" /\ region <= Regions /\ ~MorePages
  /\ region' = region + 1 /\ page' = 1 /\ pages' = 0
  /\ UNCHANGED <<book, unplaced, expired, outcome, orders, atLastPage>>

ReturnOrders ==
  /\ outcome = "none" /\ region > Regions
  /\ outcome' = "ok"
  /\ UNCHANGED <<book, unplaced, expired, region, page, pages, orders, atLastPage>>

OrderStep == FetchPage \/ FailPage \/ NextRegion \/ ReturnOrders

OrderNext == Place \/ Expire \/ OrderStep

OrderSpec == OrderInit /\ [][OrderNext]_orderVars
-----------------------------------------------------------------------------
\* While no order ends, a dump has every order of a region that was there when
\* its last page was asked for, each once, region by region and in order: the
\* number of pages may grow between two pages and the loop follows it.
DumpIsComplete ==
  outcome = "ok" /\ (\A r \in 1..Regions : expired[r] = 0) =>
    orders = FlattenSeq([r \in 1..Regions |-> InRegion(atLastPage[r], r)])

\* An order that ends shifts the pages behind the cursor, and the loop does not
\* look back: it may miss orders that were there all along, yet never more of a
\* region than ended in that region meanwhile.
MissesOnlyShifted ==
  outcome = "ok" =>
    \A r \in 1..Regions :
      Cardinality(ToSet(InRegion(atLastPage[r], r)) \ ToSet(orders)) <= expired[r]
=============================================================================
