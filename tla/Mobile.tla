------------------------------- MODULE Mobile -------------------------------
(***************************************************************************)
(* The shop's phone app, a client of the same API routes as the browser:   *)
(* its session, kept on the phone and made by whoever first asks for it,   *)
(* the address of the shop, which the settings change, and the cart in     *)
(* react-query's cache.  The cart is only counted, and a route and the     *)
(* services behind it are one step: Storefront has them in detail.         *)
(***************************************************************************)
EXTENDS Integers, FiniteSets

CONSTANTS
    None,
    Servers,        \* addresses of shops, each with carts of its own
    Home,           \* the address without a setting
    MaxLaunches,    \* bound: launches of the app
    MaxMoves,       \* bound: addresses applied
    MaxRequests,    \* bound: requests begun
    MaxTroubles     \* bound: requests that fail, payments refused

VARIABLES
    user,           \* the session on the phone, None before the first
    launches,
    proxy,          \* the setting
    moves,
    applying,       \* addresses stored whose queries are not yet invalidated
    carts,          \* for each shop, how much is in the cart of each user
    users,          \* history: the users requests were sent for
    data,           \* the cart fetched last, or None
    requests,       \* those on their way
    asked,          \* counts them
    owed,           \* history: what is shown may lack a change that no fetch has followed
    troubles

vars == <<user, launches, proxy, moves, applying, carts, users, data, requests, asked, owed, troubles>>

CartOf(server, u) == IF u \in DOMAIN carts[server] THEN carts[server][u] ELSE 0
Shown == IF data = None THEN 0 ELSE data

Request(n, kind) == [n |-> n, kind |-> kind, stage |-> "asked", items |-> 0, parsed |-> TRUE, live |-> TRUE]

Fetches == {r \in requests : r.kind = "fetch" /\ r.live}

\* mutant: an id is made for every request that finds none
UserId_EachTime(r) == launches * 100 + r.n

\* defaultSession: an id made once in each launch
UserId(r) == launches

Init ==
    /\ user = None /\ launches = 1 /\ proxy = Home /\ moves = 0 /\ applying = 0
    /\ carts = [s \in Servers |-> [u \in {} |-> 0]] /\ users = {}
    /\ data = None /\ requests = {Request(1, "fetch")} /\ asked = 1 /\ owed = FALSE
    /\ troubles = 0

-------------------------------------------------------------------------------
(***************************************************************************)
(* The app.                                                                *)
(***************************************************************************)
Begin(kind) ==
    /\ asked < MaxRequests /\ asked' = asked + 1
    /\ requests' = requests \cup {Request(asked', kind)}
    /\ UNCHANGED <<user, launches, proxy, moves, applying, carts, users, data, owed, troubles>>

addItem == Begin("add")

\* A cart that is shown empty has neither button; nothing disables them meanwhile.
emptyCart == Shown > 0 /\ Begin("empty")
placeOrder == Shown > 0 /\ Begin("order")

\* mutant: the setting is stored, and what was fetched is kept
Invalidate_Kept(rest) == requests' = rest /\ UNCHANGED <<asked, owed>>

\* invalidateQueries: a fetch on its way is dropped for a new one, except the very first.
Invalidate(rest) ==
    IF data = None /\ Fetches # {}
    THEN requests' = rest /\ owed' = TRUE /\ UNCHANGED asked
    ELSE /\ asked' = asked + 1 /\ owed' = FALSE
         /\ requests' = {[r EXCEPT !.live = @ /\ r \notin Fetches] : r \in rest} \cup {Request(asked', "fetch")}

\* The address is stored, and then everything is fetched again.
SetProxy(server) ==
    /\ moves < MaxMoves /\ moves' = moves + 1
    /\ proxy' = server /\ applying' = applying + 1
    /\ UNCHANGED <<user, launches, carts, users, data, requests, asked, owed, troubles>>

ProxyApplied ==
    /\ applying > 0 /\ applying' = applying - 1
    /\ Invalidate(requests)
    /\ UNCHANGED <<user, launches, proxy, moves, carts, users, data, troubles>>

\* The phone ends the app; it is launched again.
Relaunch ==
    /\ launches < MaxLaunches /\ launches' = launches + 1
    /\ data' = None /\ asked' = asked + 1 /\ requests' = {Request(asked', "fetch")}
    /\ applying' = 0 /\ owed' = FALSE
    /\ UNCHANGED <<user, proxy, moves, carts, users, troubles>>

-------------------------------------------------------------------------------
(***************************************************************************)
(* A request.                                                              *)
(***************************************************************************)
Moved(r, stage) == (requests \ {r}) \cup {[r EXCEPT !.stage = stage]}

\* getSession reads the session; if there is none, it stores the launch's.
GetSession(r) ==
    /\ r.stage = "asked"
    /\ requests' = Moved(r, IF user = None THEN "storing" ELSE "ready")
    /\ UNCHANGED <<user, launches, proxy, moves, applying, carts, users, data, asked, owed, troubles>>

StoreSession(r) ==
    /\ r.stage = "storing" /\ user' = UserId(r) /\ requests' = Moved(r, "ready")
    /\ UNCHANGED <<launches, proxy, moves, applying, carts, users, data, asked, owed, troubles>>

\* Whether a route does what it is asked, and whether its answer is one the app can parse:
\* a refused payment is JSON, like any other answer, and the status is not looked at.
Outcomes(kind) ==
    CASE kind = "fetch" -> {[done |-> TRUE, parsed |-> p] : p \in BOOLEAN}
      [] kind = "order" -> [done : BOOLEAN, parsed : BOOLEAN]
      [] OTHER -> [done : BOOLEAN, parsed : BOOLEAN] \ {[done |-> FALSE, parsed |-> TRUE]}

\* The session is read again, the address of the shop too, and the request sent.
Send(r) ==
    /\ r.stage = "ready"
    /\ users' = users \cup {user}
    /\ \E o \in Outcomes(r.kind) :
        /\ IF o.done /\ o.parsed THEN UNCHANGED troubles
           ELSE troubles < MaxTroubles /\ troubles' = troubles + 1
        /\ requests' = (requests \ {r}) \cup
               {[r EXCEPT !.stage = "answered", !.items = CartOf(proxy, user), !.parsed = o.parsed]}
        /\ carts' = IF ~o.done \/ r.kind = "fetch" THEN carts
                    ELSE [carts EXCEPT ![proxy] =
                             [u \in DOMAIN @ \cup {user} |->
                                 IF u # user THEN @[u]
                                 ELSE IF r.kind = "add" THEN CartOf(proxy, user) + 1 ELSE 0]]
    /\ UNCHANGED <<user, launches, proxy, moves, applying, data, asked, owed>>

\* A change or an order is answered: what can be parsed is a success.
Answered(r) ==
    /\ r.kind # "fetch" /\ r.stage = "answered"
    /\ IF r.parsed THEN Invalidate(requests \ {r})
       ELSE requests' = requests \ {r} /\ owed' = TRUE /\ UNCHANGED asked
    /\ UNCHANGED <<user, launches, proxy, moves, applying, carts, users, data, troubles>>

\* A fetch is answered, or fails: it is tried again a few times.
Fetched(r) ==
    /\ r.kind = "fetch" /\ r.stage = "answered"
    /\ IF ~r.live THEN requests' = requests \ {r} /\ UNCHANGED <<data, owed>>
       ELSE IF r.parsed THEN requests' = requests \ {r} /\ data' = r.items /\ UNCHANGED owed
       ELSE /\ \/ requests' = Moved(r, "asked") /\ UNCHANGED owed
               \/ requests' = requests \ {r} /\ owed' = TRUE
            /\ UNCHANGED data
    /\ UNCHANGED <<user, launches, proxy, moves, applying, carts, users, asked, troubles>>

Next ==
    \/ addItem \/ emptyCart \/ placeOrder
    \/ \E server \in Servers : SetProxy(server)
    \/ ProxyApplied \/ Relaunch
    \/ \E r \in requests : GetSession(r) \/ StoreSession(r) \/ Send(r) \/ Answered(r) \/ Fetched(r)

-------------------------------------------------------------------------------
(* When nothing is on its way the app shows the cart of its session in the *)
(* shop it is set to, unless an answer or a fetch was lost, or the very    *)
(* first fetch was on its way when the cart changed: such a fetch is not   *)
(* begun anew (settings.tsx:19, Cart.provider.tsx:43).                     *)
Quiet == applying = 0 /\ \A r \in requests : r.kind = "fetch" /\ ~r.live

CartIsOfTheShop == Quiet /\ ~owed => Shown = CartOf(proxy, user)

(* Every request is sent for the one session the phone keeps, although     *)
(* requests that find none store one at the same time, and the app may be  *)
(* ended before it is stored: otherwise a cart would be lost               *)
(* (Session.gateway.ts:23).                                                *)
OneSession == users \subseteq {user}
=============================================================================
