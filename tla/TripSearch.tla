------------------------------ MODULE TripSearch ------------------------------
(***************************************************************************)
(* Searching the catalogue of tickets-service (searchTrips, toSearchTrip   *)
(* and utils/search.utils.ts).                                             *)
(*                                                                         *)
(* A search reads every matching ticket, sorts them in memory and answers  *)
(* with one page, so a customer who pages through the result makes one     *)
(* search after the other, and in between seats are sold, flash sales      *)
(* begin and end, tickets are published and withdrawn.                     *)
(*                                                                         *)
(* A search term is the set of trips whose texts contain it; images and    *)
(* texts are left out.                                                     *)
(***************************************************************************)
EXTENDS Integers, Sequences, FiniteSetsExt

CONSTANTS
  Trips,       \* tickets, numbered in the order in which they were created
  Missing,     \* a column or a field of a query that is not set
  Catalogues,  \* the catalogues a behaviour may start with
  Searches,    \* the queries a customer may make
  Limit        \* trips on a page

Sorts == {"price", "departure", "recommended"}

(* A row of ticket_items as far as a search reads it, and of tickets.      *)
ItemOK(it) ==
  /\ {"live", "class", "price", "flash", "onSale", "stock"} \subseteq DOMAIN it
  /\ it.live \in BOOLEAN /\ it.onSale \in BOOLEAN /\ it.stock \in Nat
  /\ it.price \in Nat \cup {Missing} /\ it.flash \in Nat \cup {Missing}

TripOK(row) ==
  /\ {"public", "from", "to", "day", "hour", "items"} \subseteq DOMAIN row
  /\ row.day # Missing => row.day \in Nat /\ row.hour \in Nat
  /\ IsFiniteSet(DOMAIN row.items) /\ \A i \in DOMAIN row.items : ItemOK(row.items[i])

ASSUME SearchAssumption ==
  /\ Trips \subseteq Nat /\ IsFiniteSet(Trips) /\ Limit \in Nat \ {0}
  /\ \A c \in Catalogues : DOMAIN c.trip = Trips /\ \A t \in Trips : TripOK(c.trip[t])
  /\ \A q \in Searches : q.sort \in Sorts

VARIABLES
  trip,     \* the rows: [public, from, to, day, hour, items], with the items' rows by id
  walk,     \* the search a customer is paging through
  changes,  \* changes still to come
  stirred   \* history: the kinds of changes since the walk began

svars == <<trip, walk, changes, stirred>>

-----------------------------------------------------------------------------
(* A trip in a result: toSearchTrip and search.utils.ts.                   *)

DisplayPrice(it) == IF it.flash # Missing /\ it.onSale THEN it.flash ELSE it.price

(* The ids of the classes that are not deleted.                            *)
Shop(t) == {i \in DOMAIN trip[t].items : trip[t].items[i].live}

MinPrice(t) ==
  LET prices == {DisplayPrice(trip[t].items[i]) : i \in Shop(t)} \ {Missing}
  IN  IF prices = {} THEN Missing ELSE Min(prices)

AvailableSeats(t) == MapThenSumSet(LAMBDA i : trip[t].items[i].stock, Shop(t))

(* A trip without an hour, or without any class, is in every filter.       *)
MatchesTimeOfDay(t, filter) ==
  filter # Missing /\ trip[t].hour # Missing =>
    trip[t].hour \in CASE filter = "morning"   -> 0..11
                       [] filter = "afternoon" -> 12..17
                       [] filter = "evening"   -> 18..23

MatchesSeatClass(t, filter) ==
  LET classes == {trip[t].items[i].class : i \in Shop(t)} \ {Missing}
  IN  filter # Missing /\ classes # {} => filter \in classes

(* The conditions of the SELECT.                                           *)
Selected(t, q) ==
  /\ trip[t].public
  /\ q.date # Missing => trip[t].day = q.date
  /\ q.term # Missing => t \in q.term
  /\ q.from # Missing => trip[t].from = q.from
  /\ q.to # Missing => trip[t].to = q.to

Found(q) ==
  {t \in Trips : Selected(t, q) /\ MatchesTimeOfDay(t, q.time) /\ MatchesSeatClass(t, q.class)}

(* ORDER BY departure, newest first; a missing departure comes last here,  *)
(* and first where the sort by departure compares texts.                   *)
Departs(t, missing) ==
  IF trip[t].day = Missing THEN missing ELSE trip[t].day * 24 + trip[t].hour

Infinity == 1000000

SelectedBefore(s, t) ==
  LET d == Departs(s, Infinity)  e == Departs(t, Infinity)
  IN  d < e \/ (d = e /\ s > t)

SortKey(t, sort) ==
  CASE sort = "price"       -> IF MinPrice(t) = Missing THEN Infinity ELSE MinPrice(t)
    [] sort = "departure"   -> Departs(t, -1)
    [] sort = "recommended" -> -AvailableSeats(t)

(* The trips of S in an order R that has no ties.                          *)
Listing(S, R) ==
  CHOOSE list \in [1..Cardinality(S) -> S] :
    \A i, j \in DOMAIN list : i < j => <<list[i], list[j]>> \in R

(* Mutant: the result is sorted afresh, without the order of the rows, and *)
(* by the seats that are left.                                             *)
SortedByNeed(q) ==
  Listing(Found(q), {p \in Found(q) \X Found(q) :
    \/ AvailableSeats(p[1]) > AvailableSeats(p[2])
    \/ AvailableSeats(p[1]) = AvailableSeats(p[2]) /\ p[1] > p[2]})

(* Array.prototype.sort is stable.                                         *)
Precedes(s, t, sort) ==
  LET k == SortKey(s, sort)  l == SortKey(t, sort)
  IN  k < l \/ (k = l /\ SelectedBefore(s, t))

Sorted(q) ==
  Listing(Found(q), {p \in Found(q) \X Found(q) : Precedes(p[1], p[2], q.sort)})

PageOf(list, page) ==
  SubSeq(list, (page - 1) * Limit + 1,
         IF page * Limit < Len(list) THEN page * Limit ELSE Len(list))

TotalPages(total) == (total + Limit - 1) \div Limit

-----------------------------------------------------------------------------
NoWalk == [query |-> Missing, shown |-> <<>>, page |-> 0, pages |-> 0]

InitSearch ==
  /\ \E c \in Catalogues : trip = c.trip /\ changes = c.changes
  /\ walk = NoWalk
  /\ stirred = {}

BeginWalk ==
  /\ walk = NoWalk /\ changes > 0
  /\ \E q \in Searches :
       walk' = [query |-> q, shown |-> PageOf(Sorted(q), 1), page |-> 1,
                pages |-> TotalPages(Cardinality(Found(q)))]
  /\ stirred' = {}
  /\ UNCHANGED <<trip, changes>>

Underway == walk # NoWalk /\ walk.page < walk.pages

NextPage ==
  /\ Underway
  /\ walk' = [walk EXCEPT !.shown = @ \o PageOf(Sorted(walk.query), walk.page + 1),
                          !.page = @ + 1,
                          !.pages = TotalPages(Cardinality(Found(walk.query)))]
  /\ UNCHANGED <<trip, changes, stirred>>

EndWalk ==
  /\ walk # NoWalk /\ ~Underway
  /\ walk' = NoWalk
  /\ UNCHANGED <<trip, changes, stirred>>

(* What the calls of TicketInventory, and time, do to a row as far as a    *)
(* search can tell.  Only changes during a walk matter.                    *)
Alter(t, row, kind) ==
  /\ Underway
  /\ changes > 0 /\ changes' = changes - 1
  /\ trip' = [trip EXCEPT ![t] = row]
  /\ stirred' = stirred \cup {kind}
  /\ UNCHANGED walk

Swap(t, i, new, kind) == Alter(t, [trip[t] EXCEPT !.items[i] = new], kind)

SellOne(t) ==
  \E i \in Shop(t) :
    /\ trip[t].items[i].stock > 0
    /\ Swap(t, i, [trip[t].items[i] EXCEPT !.stock = @ - 1], "seats")

(* The sale window of an item begins or ends.                              *)
WindowPasses(t) ==
  \E i \in Shop(t) : Swap(t, i, [trip[t].items[i] EXCEPT !.onSale = ~@], "prices")

(* publish, unpublish, remove and removeTicketItem.                        *)
Republish(t) == Alter(t, [trip[t] EXCEPT !.public = ~@], "trips")

DropItem(t) ==
  \E i \in Shop(t) : Swap(t, i, [trip[t].items[i] EXCEPT !.live = FALSE], "trips")

NextSearch ==
  \/ BeginWalk \/ NextPage \/ EndWalk
  \/ \E t \in Trips : SellOne(t) \/ WindowPasses(t) \/ Republish(t) \/ DropItem(t)

SpecSearch == InitSearch /\ [][NextSearch]_svars

-----------------------------------------------------------------------------
(* The changes that may move a trip from one page to another: sales do so  *)
(* under "recommended", beginning and ending sales under "price".          *)
Unsettles(sort) ==
  {"trips"} \cup CASE sort = "price"       -> {"prices"}
                   [] sort = "recommended" -> {"seats"}
                   [] sort = "departure"   -> {}

(* "Ordering and totals are honest across pages" (searchTrips): whoever    *)
(* pages through a search has been shown every matching trip once, and     *)
(* nothing else, whatever was sold and whichever sale began meanwhile, so  *)
(* long as it is not what the result is sorted by.                         *)
WalkShowsEveryTripOnce ==
  walk # NoWalk /\ ~Underway /\ stirred \cap Unsettles(walk.query.sort) = {} =>
    /\ {walk.shown[i] : i \in DOMAIN walk.shown} = Found(walk.query)
    /\ Len(walk.shown) = Cardinality(Found(walk.query))
=============================================================================
