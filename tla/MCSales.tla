------------------------------- MODULE MCSales -------------------------------
(***************************************************************************)
(* tickets-service's database, cache and search, and the pricing of orders *)
(* with vouchers, side by side.  Each initial state gives calls to one of  *)
(* the four; the scenarios are the definitions below.                      *)
(***************************************************************************)
EXTENDS TicketInventory, TicketCache, OrderPricing, TripSearch, TLC

CONSTANTS seated, counted, a, b, c1, c2, A, B, r1, r2, r3, w1, w2, u1, u2, o1, o2, j1, j2

-----------------------------------------------------------------------------
(* TicketInventory: an item with two labels, one sold by count.            *)

Absent == [state |-> "absent", seats |-> {}, avail |-> {}, initial |-> Unset, stock |-> Unset,
           prepared |-> FALSE, start |-> Unset, end |-> Unset]
Seated == BuildItem([seats |-> {a, b}])
Counted == BuildItem([initial |-> 2, prepared |-> TRUE])

Do(op, i, p, n) == [op |-> op, i |-> i, p |-> p, n |-> n]
Buy(i, q, n) == Do("reserve", i, [quantity |-> q], n)
BuySeat(l, n) == Do("reserveSeat", seated, [label |-> l], n)
GiveBack(ls, n) == Do("releaseSeat", seated, [labels |-> ls], n)
GiveBackCount(i) == Do("release", i, [quantity |-> 1], 1)
Command(op, i, p) == Do(op, i, p, 1)
Nothing == [x \in {} |-> x]
Death == Command("crash", Unset, Nothing)
NewTicket(items) == Command("create", Unset, [status |-> "Draft", items |-> items])
NewItem(items) == Command("addItem", Unset, [items |-> items])
Backwards == [initial |-> 1, start |-> 2, end |-> 1]
Publish == Command("updateTicket", Unset, [status |-> "Published"])
DeleteTicket == Command("removeTicket", Unset, Nothing)

OnSale ==
  {{Buy(seated, 1, 1), BuySeat(a, 1), BuySeat(a, 2), GiveBack(<<a, b>>, 1), GiveBack(<<a>>, 2),
    GiveBackCount(seated), Death},
   {Buy(counted, 2, 1), Buy(counted, 1, 2), GiveBackCount(counted),
    Command("price", counted, Nothing), Command("prepare", Unset, Nothing)},
   {BuySeat(a, 1), Command("price", seated, Nothing), Command("close", Unset, Nothing),
    Command("open", seated, Nothing), Command("window", seated, [start |-> 0, end |-> 1])},
   {BuySeat(a, 1), BuySeat(b, 1), Command("updateItem", seated, [avail |-> {a, b}]),
    Command("prepare", seated, Nothing), Command("removeItem", seated, Nothing)},
   {Buy(seated, 2, 1), GiveBackCount(seated), Command("updateItem", seated, [start |-> 1]),
    DeleteTicket, Command("open", Unset, [end |-> 2])}}

NotYet ==
  {{NewTicket(seated :> [seats |-> {a, b}] @@ counted :> [initial |-> 1, stock |-> 2, end |-> 1]),
    Publish, DeleteTicket, BuySeat(a, 1), Death},
   {NewTicket(seated :> [seats |-> {a, b}]), NewItem(counted :> [initial |-> 1]),
    Command("prepare", Unset, [avail |-> {b}]), Command("close", Unset, Nothing), BuySeat(b, 1)},
   {NewTicket(seated :> Backwards), NewTicket(seated :> [seats |-> {a}]),
    NewItem(counted :> Backwards)}}

NoCalls == [ticket |-> [state |-> "none", status |-> "Draft"],
            item |-> [i \in {seated, counted} |-> Absent], quota |-> {}]

InventoryStarts ==
  {NoCalls} \cup {[NoCalls EXCEPT !.quota = q] : q \in NotYet} \cup
  {[ticket |-> [state |-> "live", status |-> "Published"],
    item |-> (seated :> Seated @@ counted :> Counted), quota |-> q] : q \in OnSale}

-----------------------------------------------------------------------------
(* TicketCache: two readers in one process and one in another.             *)

Homes == r1 :> A @@ r2 :> A @@ r3 :> B @@ w1 :> A @@ w2 :> B

CachePlan(k1, k2, k3, p1, p2, warm, e, l, d) ==
  [key |-> (r1 :> k1 @@ r2 :> k2 @@ r3 :> k3), kind |-> (w1 :> p1 @@ w2 :> p2), warm |-> warm,
   mishaps |-> [error |-> e, lease |-> l, crash |-> d]]

NoAccess == CachePlan(Empty, Empty, Empty, Empty, Empty, {}, 0, 0, 0)

CachePlans ==
  {NoAccess,
   CachePlan("ticket", "ticket", "ticket", "sale", Empty, {}, 0, 0, 0),
   CachePlan("ticket", "ticket", Empty, "edit", Empty, {}, 1, 0, 0),
   CachePlan("ticket", Empty, "ticket", "sale", Empty, {}, 0, 1, 0),
   CachePlan("ticket", Empty, Empty, "sale", "sale", {}, 0, 0, 1),
   CachePlan("list", Empty, Empty, "edit", "price", {"ticket"}, 1, 0, 0),
   CachePlan("list", Empty, "list", "create", Empty, {}, 0, 0, 1)}

-----------------------------------------------------------------------------
(* OrderPricing: two customers, two orders, five kinds of vouchers.        *)

Coupon(limit, perUser, percent, value, cap) ==
  [state |-> "live", active |-> TRUE, dates |-> "valid", limit |-> limit, perUser |-> perUser,
   used |-> 0, percent |-> percent, value |-> value, cap |-> cap, minimum |-> 15000]
Once == Coupon(1, NoLimit, FALSE, 5000, NoLimit)
OncePerUser == Coupon(NoLimit, 1, TRUE, 50, 6000)
Wide == Coupon(NoLimit, NoLimit, TRUE, 10, NoLimit)
NoVoucher == [Once EXCEPT !.state = "none", !.active = FALSE]
Early == [Wide EXCEPT !.dates = "early"]

Vouchers == {Once, OncePerUser, Wide, NoVoucher, Early}
Columns == {[limit |-> 1], [limit |-> NoLimit, perUser |-> 1], [active |-> FALSE]}

Passenger(class, document) == [class |-> class, document |-> document]
PassengerLists ==
  {<<Passenger("CHILD", TRUE), Passenger("ADULT", FALSE)>>, <<Passenger("SENIOR", FALSE)>>}

Situation(v, e, r) ==
  [voucher |-> v, edits |-> e,
   requests |-> [k \in RequestKinds |-> IF k \in DOMAIN r THEN r[k] ELSE 0]]

NoOrders == Situation(NoVoucher, 0, [create |-> 0])

PricingSituations ==
  {NoOrders,
   Situation(Once, 1, [create |-> 2, cancel |-> 1]),
   Situation(OncePerUser, 1, [create |-> 2]),
   Situation(OncePerUser, 0, [create |-> 2, cancel |-> 1]),
   Situation(Wide, 0, [create |-> 1, edit |-> 2, pay |-> 1, settle |-> 1, mark |-> 1]),
   Situation(Early, 1, [create |-> 1, edit |-> 1, page |-> 1, pay |-> 1, settle |-> 1,
                        error |-> 1]),
   Situation(NoVoucher, 2, [create |-> 1, cancel |-> 1])}

-----------------------------------------------------------------------------
(* TripSearch: three trips on two pages.                                   *)

Trip(from, day, items) ==
  [public |-> TRUE, from |-> from, to |-> "HN", day |-> day,
   hour |-> IF day = Missing THEN Missing ELSE 9, items |-> items]
Berth(class, price, flash, stock) ==
  [live |-> TRUE, class |-> class, price |-> price, flash |-> flash, onSale |-> FALSE,
   stock |-> stock]

Station ==
  1 :> Trip("SG", 1, 1 :> Berth("seat", 30, 10, 2)) @@
  2 :> Trip("SG", Missing, 2 :> Berth("sleeper", 20, Missing, 2) @@
                           3 :> Berth("seat", 40, Missing, 1)) @@
  3 :> Trip("DN", 1, 4 :> Berth("seat", 25, Missing, 1))

Query(sort) ==
  [term |-> Missing, from |-> Missing, to |-> Missing, date |-> Missing, time |-> Missing,
   class |-> Missing, sort |-> sort]
Queries ==
  {Query(sort) : sort \in {"price", "departure", "recommended"}} \cup
  {[Query("departure") EXCEPT !.class = "seat", !.time = "morning", !.term = {1, 2, 3}],
   [Query("price") EXCEPT !.to = "HN", !.time = "evening"],
   [Query("price") EXCEPT !.from = "SG", !.date = 1]}

NoSearches == [trip |-> Station, changes |-> 0]
Boards == {NoSearches, [NoSearches EXCEPT !.changes = 3]}

-----------------------------------------------------------------------------
Quiet(n) ==
  CASE n = "inventory" -> quota = {} /\ ticket = NoCalls.ticket
    [] n = "cache"     -> cache = [k \in CacheKeys |-> Empty] /\ mishaps = NoAccess.mishaps
                          /\ \A r \in Readers : reader[r].key = Empty
    [] n = "pricing"   -> voucher = NoOrders.voucher /\ edits = 0
    [] n = "search"    -> changes = 0

Parts == {"inventory", "cache", "pricing", "search"}

InitSales ==
  /\ InitInventory /\ InitCache /\ InitPricing /\ InitSearch
  /\ \E n \in Parts : \A m \in Parts \ {n} : Quiet(m)

NextSales ==
  \/ NextInventory /\ UNCHANGED <<cvars, pvars, svars>>
  \/ NextCache /\ UNCHANGED <<ivars, pvars, svars>>
  \/ NextPricing /\ UNCHANGED <<ivars, cvars, svars>>
  \/ NextSearch /\ UNCHANGED <<ivars, cvars, pvars>>

SpecSales ==
  InitSales /\ [][NextSales]_<<ivars, cvars, pvars, svars>> /\ CacheFairness
=============================================================================
