----------------------------- MODULE Storefront -----------------------------
(***************************************************************************)
(* One shopper in one browser tab of the shop: the cart as the pages show  *)
(* it from react-query's cache, the changes sent to the frontend's API     *)
(* routes, the cart service they change, and the orders that checkout      *)
(* prepares, charges and ships.  Money is kept as units and nanos, with    *)
(* Nano nanos in a unit.                                                   *)
(***************************************************************************)
EXTENDS Integers, Sequences, FiniteSets, FiniteSetsExt

CONSTANTS
    Products,
    Currencies,
    Default,            \* the currency of the catalogue, USD
    Price,              \* the catalogue's price of each product
    CostPerItem,        \* the quote of shipping for each item
    Exchange(_, _),     \* the rates of the currency service: nanos of Default in a currency
    Cards,              \* the cards the shopper tries
    Now,                \* this month, counted in months
    Quantities,         \* what the quantity selectors offer
    Nano,               \* 1 000 000 000
    None,               \* no data in the cache
    MaxCalls,           \* bound: changes and orders the shopper sends
    MaxUpsets,          \* bound: failed service calls and fetches, reloads, changes sent in a hurry
    MaxFetches          \* bound: fetches begun by focus or by another currency

ASSUME CurrencyAssumption == Default \in Currencies
ASSUME MoneyAssumption == Nano \in Nat \ {0} /\ CostPerItem \in Nat
ASSUME BoundAssumption == MaxCalls \in Nat /\ MaxUpsets \in Nat /\ MaxFetches \in Nat
ASSUME ProductsAssumption == IsFiniteSet(Products)
ASSUME QuantityAssumption == Quantities \subseteq Nat \ {0}
ASSUME NoneAssumption == \A S \in SUBSET Products : None \notin [S -> Int]

VARIABLES
    cart,       \* the cart service's cart: the quantity of each product in it
    charges,    \* what the payment service has charged: call, currency, total
    calls,      \* the API calls of the shopper so far
    cache,      \* for each currency: the cart fetched last, and the fetch on its way
    selected,   \* the currency the pages show
    quoted,     \* the shipping of the cart shown has been answered
    session,    \* the currency kept in localStorage
    order,      \* the order of the order page, None on the others
    wanted,     \* history: the cart the shopper's changes amount to
    calm,       \* history: no change was lost, or sent while something was on its way; nor
                \* a quantity or an order from a page that was behind
    behind,     \* history: the answer to a change, or to a fetch of the cart, was lost, and
                \* the cart has not been read for the page since
    upsets, fetches     \* counters

vars == <<cart, charges, calls, cache, selected, quoted, session, order, wanted, calm, behind, upsets, fetches>>

Empty == [p \in {} |-> 0]
Quantity(items, p) == IF p \in DOMAIN items THEN items[p] ELSE 0

\* AddItemAsync on a cart: a new item, or more of one that is there
Added(items, p, q) == [r \in DOMAIN items \cup {p} |-> Quantity(items, r) + IF r = p THEN q ELSE 0]

-------------------------------------------------------------------------------
(***************************************************************************)
(* Amounts.                                                                *)
(***************************************************************************)
Zero == [units |-> 0, nanos |-> 0]
Value(m) == m.units * Nano + m.nanos

\* getDouble: the nanos become the digits behind the point, without the zeros in front
Powers == {1, 10, 100, 1000, 10000, 100000, 1000000, 10000000, 100000000}
Fraction(n) == IF n = 0 THEN 0 ELSE n * Max({f \in Powers : f <= (Nano - 1) \div n})
getDouble(m) == m.units * Nano + Fraction(m.nanos)

\* Convert of the currency service
Convert(m, currency) ==
    LET n == Exchange(getDouble(m), currency) IN [units |-> n \div Nano, nanos |-> n % Nano]

\* A price is divided by its rate, multiplied by the same and cut to nanos: it may lose one.
ASSUME PriceAssumption ==
    \A p \in Products :
        /\ Price[p] \in [units : Nat, nanos : 0..Nano - 1]
        /\ getDouble(Price[p]) - Exchange(getDouble(Price[p]), Default) \in 0..1

\* money.Sum of two amounts that are not negative
Sum2(l, r) ==
    [units |-> l.units + r.units + (l.nanos + r.nanos) \div Nano, nanos |-> (l.nanos + r.nanos) % Nano]

\* money.MultiplySlow: repeated sums; an amount times none is the amount
MultiplySlow(m, n) ==
    LET out[k \in 0..n] == IF k <= 1 THEN m ELSE Sum2(out[k - 1], m) IN out[n]

\* the quote for a cart, by the number of its pieces, in the currency of the catalogue
Quote(items) ==
    LET n == CostPerItem * MapThenSumSet(LAMBDA p : items[p], DOMAIN items)
    IN  [units |-> n \div Nano, nanos |-> n % Nano]

\* getProductPrice: the catalogue's own currency is not converted
ProductPrice(p, currency) ==
    IF currency # Default THEN Convert(Price[p], currency) ELSE Price[p]

\* the shipping cost of /api/shipping is always converted
ShippingCost(items, currency) == Convert(Quote(items), currency)

\* The cart page asks for it on its own; it counts for nothing until that is
\* answered, and for as long as /api/shipping fails.
ShippingShown(items, currency, answered) == IF answered THEN ShippingCost(items, currency) ELSE Zero

\* mutant: the nanos of the total are not carried
CartTotal_NoCarry(items, currency, shipping) ==
    LET n == MapThenSumSet(LAMBDA p : ProductPrice(p, currency).nanos * items[p], DOMAIN items)
             + shipping.nanos
    IN  [units |-> MapThenSumSet(LAMBDA p : ProductPrice(p, currency).units * items[p], DOMAIN items)
                   + shipping.units,
         nanos |-> n % Nano]

\* the total under the items of the cart page
CartTotal(items, currency, shipping) ==
    LET nanoSum == MapThenSumSet(LAMBDA p : ProductPrice(p, currency).nanos * items[p], DOMAIN items)
                   + shipping.nanos
        unitSum == MapThenSumSet(LAMBDA p : ProductPrice(p, currency).units * items[p], DOMAIN items)
                   + shipping.units
    IN  [units |-> unitSum + nanoSum \div Nano, nanos |-> nanoSum % Nano]

\* mutant: the cost of an item counts once, whatever its quantity
OrderTotal_Once(o) ==
    LET nanos == MapThenSumSet(LAMBDA p : o.cost[p].nanos, DOMAIN o.items) + o.shippingCost.nanos
        units == MapThenSumSet(LAMBDA p : o.cost[p].units, DOMAIN o.items) + o.shippingCost.units
    IN  [units |-> units + nanos \div Nano, nanos |-> nanos % Nano]

\* the total of the order page
OrderTotal(o) ==
    LET nanos == MapThenSumSet(LAMBDA p : o.cost[p].nanos * o.items[p], DOMAIN o.items)
                 + o.shippingCost.nanos
        units == MapThenSumSet(LAMBDA p : o.cost[p].units * o.items[p], DOMAIN o.items)
                 + o.shippingCost.units
    IN  [units |-> units + nanos \div Nano, nanos |-> nanos % Nano]

-------------------------------------------------------------------------------
(***************************************************************************)
(* The cache: one query for each currency, fetched when its currency is    *)
(* selected, when the window is focused and when it is invalidated.        *)
(***************************************************************************)
Idle == [stage |-> "idle", items |-> Empty]
Asked == [stage |-> "asked", items |-> Empty]

\* the cart the pages show, empty while nothing has been fetched
Shown == IF cache[selected].data = None THEN Empty ELSE cache[selected].data

\* the shipping is a query for what is shown: of another cart or currency it is asked anew
Requoted == quoted' = (quoted /\ Shown' = Shown /\ selected' = selected)

\* a query is fetched, unless it is being fetched
Fetch(c) == [cache EXCEPT ![c].fetch = IF @.stage = "idle" THEN Asked ELSE @]

\* mutant: a fetch on its way is taken for the new one
Invalidate_Joins == Fetch(selected)

\* invalidateQueries(['cart']): the query in use is fetched anew, and a fetch
\* on its way is dropped, except the very first
Invalidate ==
    [cache EXCEPT ![selected].fetch =
        IF @.stage # "idle" /\ cache[selected].data = None THEN @ ELSE Asked]

-------------------------------------------------------------------------------
(***************************************************************************)
(* The shopper.                                                            *)
(***************************************************************************)
InFlight(i) == calls[i].stage \notin {"ok", "failed"}
Calling == \E i \in DOMAIN calls : InFlight(i)
Fetching == \E c \in Currencies : cache[c].fetch.stage # "idle"

\* A call has been made, so that the cart may be another, and its answer is on its way.
Made(i) == calls[i].stage = "done" /\ calls[i].status < 300

\* The total on the page, and whether it has the shipping in it, are kept with an order.
Call(kind, p, q, card) ==
    [kind |-> kind, product |-> p, quantity |-> q, card |-> card, currency |-> selected,
     stage |-> "asked", items |-> Empty, quoted |-> kind = "order" /\ quoted,
     shown |-> IF kind = "order"
               THEN CartTotal(Shown, selected, ShippingShown(Shown, selected, quoted)) ELSE Zero,
     order |-> None, status |-> 0, here |-> TRUE]

\* the shopper does not wait for what is on its way, or goes by a page that is behind
Upset(hurried, misled) ==
    /\ hurried => upsets < MaxUpsets
    /\ upsets' = upsets + (IF hurried THEN 1 ELSE 0)
    /\ calm' = (calm /\ ~hurried /\ ~misled)

\* a request of Api.gateway is sent
Ask(call) ==
    /\ Len(calls) < MaxCalls
    /\ calls' = Append(calls, call)
    /\ Upset(Calling \/ Fetching, behind /\ call.kind \in {"pick", "order"})
    /\ UNCHANGED <<cart, charges, cache, selected, quoted, session, order, behind, fetches>>

\* the product page's Add To Cart
AddToCart(p, q) ==
    /\ Ask(Call("add", p, q, None))
    /\ wanted' = Added(wanted, p, q)

\* mutant: the quantity picked is added to what is there
Delta_Picked(p, n) == n

\* what updateItemQuantity adds, from the quantity on the page
Delta(p, n) == n - Quantity(Shown, p)

\* the quantity selector of an item of the cart page
Pick(p, n) ==
    /\ p \in DOMAIN Shown /\ Delta(p, n) # 0
    /\ Ask(Call("pick", p, Delta(p, n), None))
    /\ wanted' = [Added(wanted, p, 0) EXCEPT ![p] = n]

EmptyCart ==
    /\ Shown # Empty
    /\ Ask(Call("empty", None, 0, None))
    /\ wanted' = Empty

\* the checkout form under a cart that has items; nothing disables it while an order is placed
PlaceOrder(card) ==
    /\ Shown # Empty
    /\ Ask(Call("order", None, 0, card))
    /\ UNCHANGED wanted

\* the currency switcher; the session keeps the currency
SelectCurrency(c) ==
    /\ fetches < MaxFetches
    /\ c # selected
    /\ selected' = c /\ session' = c
    /\ cache' = Fetch(c) /\ fetches' = fetches + 1
    /\ Upset(Calling, FALSE) /\ Requoted
    /\ behind' = (behind \/ cache[c].fetch.stage = "read")
    /\ UNCHANGED <<cart, charges, calls, order, wanted>>

\* the window is focused: what it shows is fetched again
Focus ==
    /\ fetches < MaxFetches
    /\ cache' = Fetch(selected) /\ fetches' = fetches + 1
    /\ UNCHANGED <<cart, charges, calls, selected, quoted, session, order, wanted, calm, behind, upsets>>

\* the page is loaded anew: nothing is left but the session
Reload ==
    /\ upsets < MaxUpsets /\ upsets' = upsets + 1
    /\ selected' = session /\ quoted' = FALSE /\ order' = None
    /\ cache' = [c \in Currencies |-> [data |-> None, fetch |-> IF c = session THEN Asked ELSE Idle]]
    /\ calls' = [i \in DOMAIN calls |-> [calls[i] EXCEPT !.here = FALSE]]
    /\ calm' = (calm /\ ~Calling)
    /\ UNCHANGED <<cart, charges, session, wanted, behind, fetches>>

-------------------------------------------------------------------------------
(***************************************************************************)
(* The API routes and the services behind them.                            *)
(***************************************************************************)

\* GET /api/cart reads the cart
ReadCart(c) ==
    /\ cache[c].fetch.stage = "asked"
    /\ cache' = [cache EXCEPT ![c].fetch = [stage |-> "read", items |-> cart]]
    /\ behind' = (behind /\ c # selected)
    /\ UNCHANGED <<cart, charges, calls, selected, quoted, session, order, wanted, calm, upsets, fetches>>

\* and its answer fills the query
ShowCart(c) ==
    /\ cache[c].fetch.stage = "read"
    /\ cache' = [cache EXCEPT ![c] = [data |-> @.fetch.items, fetch |-> Idle]]
    /\ UNCHANGED <<cart, charges, calls, selected, session, order, wanted, calm, behind, upsets, fetches>>
    /\ Requoted

\* the cart, the catalogue or the currency service fails: the query is tried again, or
\* given up after some tries, when the pages go on showing what they have
ReadFails(c) ==
    /\ upsets < MaxUpsets /\ upsets' = upsets + 1
    /\ cache[c].fetch.stage # "idle"
    /\ \/ cache' = [cache EXCEPT ![c].fetch = Asked] /\ UNCHANGED behind
       \/ cache' = [cache EXCEPT ![c].fetch = Idle] /\ behind' = (behind \/ c = selected)
    /\ UNCHANGED <<cart, charges, calls, selected, quoted, session, order, wanted, calm, fetches>>

\* the shipping of the cart shown is answered
ShowShipping ==
    /\ ~quoted /\ Shown # Empty
    /\ quoted' = TRUE
    /\ UNCHANGED <<cart, charges, calls, cache, selected, session, order, wanted, calm, behind, upsets, fetches>>

\* a call takes its next step
Step(i, kinds, from, call) ==
    /\ i \in DOMAIN calls /\ calls[i].kind \in kinds /\ calls[i].stage = from
    /\ calls' = [calls EXCEPT ![i] = call]
    /\ UNCHANGED <<cache, selected, quoted, session, order, wanted, calm, behind, upsets, fetches>>

\* AddItemAsync reads the cart, and writes it whole
AddItemReads(i) ==
    /\ Step(i, {"add", "pick"}, "asked", [calls[i] EXCEPT !.stage = "adding", !.items = cart])
    /\ UNCHANGED <<cart, charges>>

AddItemWrites(i) ==
    /\ Step(i, {"add", "pick"}, "adding", [calls[i] EXCEPT !.stage = "done", !.status = 200])
    /\ cart' = Added(calls[i].items, calls[i].product, calls[i].quantity)
    /\ UNCHANGED charges

EmptyCartWrites(i) ==
    /\ Step(i, {"empty"}, "asked", [calls[i] EXCEPT !.stage = "done", !.status = 204])
    /\ cart' = Empty
    /\ UNCHANGED charges

\* the charge of an order: shipping, and every item as often as it is ordered
Charged(o) ==
    Sum2(o.shippingCost,
         FoldSet(LAMBDA p, total : Sum2(total, MultiplySlow(o.cost[p], o.items[p])), Zero, DOMAIN o.items))

\* PlaceOrder of checkout: the cart and its prices, all of them converted.  A
\* quantity below zero is taken for about 2^32 and not priced within any time
\* that matters.
Prepare(i) ==
    /\ \A p \in DOMAIN cart : cart[p] >= 0
    /\ Step(i, {"order"}, "asked",
            [calls[i] EXCEPT
                !.stage = "prepared",
                !.order = [items |-> cart,
                           cost |-> [p \in DOMAIN cart |-> Convert(Price[p], calls[i].currency)],
                           shippingCost |-> Convert(Quote(cart), calls[i].currency)]])
    /\ UNCHANGED <<cart, charges>>

\* charge of the payment service
Accepts(card) == card.valid /\ card.type \in {"visa", "mastercard"} /\ ~(Now > card.expires)

\* mutant: a charge whose answer is lost is told as a refused card
StatusOf_Prefix(failure, code) == IF failure = "charge" THEN 422 ELSE 500

\* /api/checkout tells a refused card from other failures by the text of the error
StatusOf(failure, code) ==
    IF failure = "charge" /\ code \notin {"Unavailable", "Internal"} THEN 422 ELSE 500

Refuse(i, from, status) ==
    Step(i, {"order"}, from, [calls[i] EXCEPT !.stage = "done", !.status = status])

Charge(i) ==
    LET charge == [call |-> i, currency |-> calls[i].currency, total |-> Charged(calls[i].order)]
    IN  \/ /\ calls[i].stage = "prepared" /\ Accepts(calls[i].card)
           /\ Step(i, {"order"}, "prepared", [calls[i] EXCEPT !.stage = "charged"])
           /\ charges' = Append(charges, charge)
           /\ UNCHANGED cart
        \/ \* the service refuses the card, or is told to by the flag paymentFailure
           /\ Refuse(i, "prepared", StatusOf("charge", "Unknown"))
           /\ UNCHANGED <<cart, charges>>

\* checkout asks shipping to ship, and empties the cart, which may fail unnoticed
Ship(i) ==
    /\ Step(i, {"order"}, "charged", [calls[i] EXCEPT !.stage = "done", !.status = 200])
    /\ cart' = Empty
    /\ UNCHANGED charges

\* the call has its answer: what was done is fetched, and the shopper sent on
Answer(i) ==
    /\ i \in DOMAIN calls /\ calls[i].stage = "done"
    /\ calls' = [calls EXCEPT ![i].stage = IF calls[i].status < 300 THEN "ok" ELSE "failed"]
    /\ IF calls[i].here /\ calls[i].status < 300
       THEN /\ cache' = Invalidate
            /\ behind' = (behind \/ (cache[selected].data = None /\ cache[selected].fetch.stage = "read"))
            /\ order' = CASE calls[i].kind = "order" -> calls[i].order
                          [] calls[i].kind = "add" -> None
                          [] OTHER -> order
            /\ wanted' = IF calls[i].kind = "order" THEN Empty ELSE wanted
       ELSE /\ behind' = (behind \/ Made(i))
            /\ UNCHANGED <<cache, order, wanted>>
    /\ UNCHANGED <<cart, charges, selected, quoted, session, calm, upsets, fetches>>

-------------------------------------------------------------------------------
(***************************************************************************)
(* Failures of the services.                                               *)
(***************************************************************************)
Failure(i, call, unnoticed) ==
    /\ upsets < MaxUpsets /\ upsets' = upsets + 1
    /\ calls' = [calls EXCEPT ![i] = call]
    /\ calm' = (calm /\ unnoticed)
    /\ behind' = (behind \/ Made(i))
    /\ UNCHANGED <<cache, selected, quoted, session, order, wanted, fetches>>

Failed(i, status) == [calls[i] EXCEPT !.stage = "done", !.status = status]

\* a change is not made, or made and its answer lost (the getCart after addItem fails)
ChangeFails(i) ==
    /\ calls[i].kind # "order" /\ calls[i].stage \in {"asked", "adding", "done"}
    /\ calls[i].status # 500
    /\ Failure(i, Failed(i, 500), FALSE)
    /\ UNCHANGED <<cart, charges>>

\* a service fails before the card is charged
PrepareFails(i) ==
    /\ calls[i].kind = "order" /\ calls[i].stage = "asked"
    /\ Failure(i, Failed(i, StatusOf("prepare", "Internal")), TRUE)
    /\ UNCHANGED <<cart, charges>>

\* the payment service is not reached, or does not answer after it has charged
ChargeUnanswered(i) ==
    /\ calls[i].kind = "order" /\ calls[i].stage = "prepared"
    /\ Failure(i, Failed(i, StatusOf("charge", "Unavailable")), TRUE)
    /\ \/ UNCHANGED charges
       \/ /\ Accepts(calls[i].card)
          /\ charges' = Append(charges, [call |-> i, currency |-> calls[i].currency,
                                         total |-> Charged(calls[i].order)])
    /\ UNCHANGED cart

\* shipping fails after the charge
ShipFails(i) ==
    /\ calls[i].kind = "order" /\ calls[i].stage = "charged"
    /\ Failure(i, Failed(i, StatusOf("ship", "Unavailable")), TRUE)
    /\ UNCHANGED <<cart, charges>>

\* the cart is not emptied after the order is shipped
EmptyFails(i) ==
    /\ calls[i].kind = "order" /\ calls[i].stage = "charged"
    /\ Failure(i, [calls[i] EXCEPT !.stage = "done", !.status = 200], FALSE)
    /\ UNCHANGED <<cart, charges>>

\* the products of a placed order cannot be read: the order is answered as a failure
DetailsFail(i) ==
    /\ calls[i].kind = "order" /\ calls[i].stage = "done" /\ calls[i].status = 200
    /\ Failure(i, Failed(i, 500), FALSE)
    /\ UNCHANGED <<cart, charges>>

-------------------------------------------------------------------------------
Init ==
    /\ cart = Empty /\ charges = <<>> /\ calls = <<>>
    /\ cache = [c \in Currencies |-> [data |-> None, fetch |-> IF c = Default THEN Asked ELSE Idle]]
    /\ selected = Default /\ session = Default /\ quoted = FALSE
    /\ order = None /\ wanted = Empty /\ calm = TRUE /\ behind = FALSE
    /\ upsets = 0 /\ fetches = 0

Shop ==
    \/ \E p \in Products, q \in Quantities : AddToCart(p, q) \/ Pick(p, q)
    \/ EmptyCart
    \/ \E card \in Cards : PlaceOrder(card)
    \/ \E c \in Currencies : SelectCurrency(c)
    \/ Focus \/ Reload

Serve ==
    \/ \E c \in Currencies : ReadCart(c) \/ ShowCart(c)
    \/ ShowShipping
    \/ \E i \in DOMAIN calls :
        \/ AddItemReads(i) \/ AddItemWrites(i) \/ EmptyCartWrites(i)
        \/ Prepare(i) \/ Charge(i) \/ Ship(i) \/ Answer(i)

Fail ==
    \/ \E c \in Currencies : ReadFails(c)
    \/ \E i \in DOMAIN calls :
        \/ ChangeFails(i) \/ PrepareFails(i) \/ ChargeUnanswered(i)
        \/ ShipFails(i) \/ EmptyFails(i) \/ DetailsFail(i)

Next == Shop \/ Serve \/ Fail

Spec == Init /\ [][Next]_vars

-------------------------------------------------------------------------------
(***************************************************************************)
(* Properties.                                                             *)
(***************************************************************************)
Quiet == ~Calling /\ ~Fetching

\* A shopper who waits for each change gets what was picked: once every change is
\* answered the cart holds the wanted quantities, although the selector sends a
\* difference from what the page shows, the cart service writes whole carts and
\* fetches overlap the changes and fail (updateItemQuantity).  And once nothing is on
\* its way the pages show that cart, also to who was in a hurry, unless an answer was
\* lost or the last fetch given up (invalidateQueries).
CartIsAsPicked ==
    /\ calm /\ ~Calling => cart = wanted
    /\ Quiet /\ ~behind => Shown = cart

\* The card is charged the total of the cart page when the order was sent, and the
\* shipping if the page had no answer about it: to the nano in a converted currency.
\* In the catalogue's own, which only checkout converts, it is charged in addition
\* what getDouble reads too much into a price (0.08 as 0.8, although demo.proto:154 has
\* nanos as billionths), and may be spared a nano for each piece (CartItems,
\* PlaceOrder, the currency service).
ChargedAsShown ==
    calm => \A k \in DOMAIN charges :
        LET call == calls[charges[k].call]
            items == call.order.items
            pieces == MapThenSumSet(LAMBDA p : items[p], DOMAIN items)
            misread == MapThenSumSet(LAMBDA p : items[p] * (getDouble(Price[p]) - Value(Price[p])),
                                     DOMAIN items)
            untold == IF call.quoted THEN 0 ELSE Value(call.order.shippingCost)
            lost == Value(call.shown) + untold - Value(charges[k].total)
        IN  IF call.currency = Default THEN lost + misread \in 0..pieces ELSE lost = 0

\* The order page shows the amount its order was charged, and the card has been
\* charged for that order once, unless it has an item of quantity zero, which
\* checkout charges once (the order page, MultiplySlow, chargeCard).
OrderPageShowsCharge ==
    (order # None /\ \A p \in DOMAIN order.items : order.items[p] > 0) =>
        \E k \in DOMAIN charges :
            /\ calls[charges[k].call].order = order
            /\ OrderTotal(order) = charges[k].total
            /\ \A j \in DOMAIN charges \ {k} : charges[j].call # charges[k].call

\* Who is told that the payment was refused has not been charged by that order
\* (the test of the error text in /api/checkout).
RefusedIsNotCharged ==
    \A k \in DOMAIN charges : calls[charges[k].call].status # 422

=============================================================================
