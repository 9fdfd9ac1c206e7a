---------------------------- MODULE Shops_proofs ----------------------------
(***************************************************************************)
(* Proofs about Shops, for any products, prices, currencies, cards and     *)
(* bounds: a shopper who waits sees the cart picked, the app sends every   *)
(* request for one session and shows the cart of the shop it is set to,    *)
(* who is told that a payment was refused has not been charged, and the    *)
(* card is charged what the cart page showed and the order page shows.     *)
(***************************************************************************)
EXTENDS Shops, TLAPS, FiniteSetTheorems, WellFoundedInduction

(***************************************************************************)
(* The browser.                                                            *)
(***************************************************************************)
Carts == UNION {[S -> Int] : S \in SUBSET Products}
Fetched == [stage : {"idle", "asked", "read"}, items : Carts]
Queries == [data : Carts \cup {None}, fetch : Fetched]

\* A call: of its amounts and its order nothing is said.
IsCall(c) ==
    /\ DOMAIN c = {"kind", "product", "quantity", "card", "currency", "stage", "items", "quoted",
                   "shown", "order", "status", "here"}
    /\ c.kind \in {"add", "pick", "empty", "order"}
    /\ c.kind \in {"add", "pick"} => c.product \in Products /\ c.quantity \in Int
    /\ c.stage \in {"asked", "adding", "prepared", "charged", "done", "ok", "failed"}
    /\ c.items \in Carts
    /\ c.status \in {0, 200, 204, 422, 500} /\ c.here \in BOOLEAN
    /\ c.stage \in {"asked", "adding", "prepared", "charged"} <=> c.status = 0
    /\ c.kind = "order" => c.status # 204

BrowserTypes ==
    /\ cart \in Carts /\ wanted \in Carts
    /\ charges \in Seq(Range(charges))
    /\ calls \in Seq(Range(calls)) /\ \A i \in DOMAIN calls : IsCall(calls[i])
    /\ cache \in [Currencies -> Queries]
    /\ selected \in Currencies /\ session \in Currencies
    /\ calm \in BOOLEAN

\* This order was charged, or its charge was tried, and nobody said it was refused.
Unrefused(c) ==
    c.kind = "order" /\ c.stage \in {"charged", "done", "ok", "failed"} /\ c.status # 422

\* A charge is of an order that has not been refused.
ChargeInv ==
    \A k \in DOMAIN charges :
        charges[k].call \in DOMAIN calls /\ Unrefused(calls[charges[k].call])

\* Nothing on its way has changed the cart, or will.
Settled ==
    \A i \in DOMAIN calls :
        InFlight(i) => calls[i].kind = "order" /\ ~(calls[i].stage = "done" /\ calls[i].status = 200)

\* What the one call on its way makes of the cart is what is wanted.
Pending(c) ==
    /\ c.here
    /\ c.kind \in {"add", "pick"} =>
        /\ c.stage = "asked" => wanted = Added(cart, c.product, c.quantity)
        /\ c.stage = "adding" => wanted = Added(c.items, c.product, c.quantity)
        /\ c.stage \in {"asked", "adding", "done"}
        /\ c.stage = "done" => cart = wanted /\ c.status = 200
    /\ c.kind = "empty" =>
        /\ c.stage \in {"asked", "done"}
        /\ wanted = Empty
        /\ c.stage = "done" => cart = Empty /\ c.status = 204
    /\ c.kind = "order" /\ c.stage = "done" /\ c.status = 200 => cart = Empty

\* A shopper who waits: one call at a time, which makes of the cart what is wanted.
CalmInv ==
    calm =>
        /\ \A i, j \in DOMAIN calls : InFlight(i) /\ InFlight(j) => i = j
        /\ \A i \in DOMAIN calls : InFlight(i) => Pending(calls[i])
        /\ Settled => cart = wanted

\* The call has been made.
Finished(c) == c.stage = "done" /\ c.status \in {200, 204}

\* Nothing tells of a cart the page has not: no answer that has been or may be lost.
Clear == ~behind /\ \A i \in DOMAIN calls : ~Finished(calls[i])

\* The page has the cart, or is about to read it.
Fits ==
    /\ cache[selected].fetch.stage = "read" => cache[selected].fetch.items = cart
    /\ cache[selected].fetch.stage = "idle" => cache[selected].data = cart

ShownInv == Clear => Fits

BrowserInv == BrowserTypes /\ ChargeInv /\ CalmInv /\ ShownInv

(***************************************************************************)
(* The app.                                                                *)
(***************************************************************************)
Requests == [n : Nat, kind : {"fetch", "add", "empty", "order"},
             stage : {"asked", "storing", "ready", "answered"},
             items : Nat, parsed : BOOLEAN, live : BOOLEAN]

AppTypes ==
    /\ user \in Nat \cup {None} /\ launches \in Nat
    /\ proxy \in Servers /\ moves \in Nat /\ applying \in Nat
    /\ DOMAIN carts = Servers
    /\ \A s \in Servers : \E U \in SUBSET users : carts[s] \in [U -> Nat]
    /\ data \in Nat \cup {None}
    /\ requests \subseteq Requests
    /\ asked \in Nat /\ owed \in BOOLEAN /\ troubles \in Nat

\* Whoever stores a session stores that of the launch: the one there is, if any, and
\* nothing is sent before one is stored.
SessionInv ==
    /\ users \subseteq {user}
    /\ user = None => users = {} /\ \A r \in requests : r.stage # "ready"
    /\ \A r \in requests : r.stage = "storing" => user \in {None, launches}

\* No answer is out that the next fetch does not follow.
Followed ==
    applying = 0 /\ ~owed /\ \A r \in requests : r.kind # "fetch" => r.stage # "answered"

\* There is one live fetch at most; it brings what is in the cart, or that is shown.
FetchInv ==
    /\ \A r, q \in M!Fetches : r = q
    /\ Followed =>
        /\ \A r \in M!Fetches : r.stage = "answered" /\ r.parsed => r.items = M!CartOf(proxy, user)
        /\ M!Fetches = {} => M!Shown = M!CartOf(proxy, user)

AppInv == AppTypes /\ SessionInv /\ FetchInv

IInv == BrowserInv /\ AppInv
-------------------------------------------------------------------------------
(***************************************************************************)
(* The app: sessions.                                                      *)
(***************************************************************************)

\* A step of the app is one of these.
LEMMA AppCases ==
    ASSUME M!Next
    PROVE  \/ \E kind \in {"add", "empty", "order"} : M!Begin(kind)
           \/ \E server \in Servers : M!SetProxy(server)
           \/ M!ProxyApplied
           \/ M!Relaunch
           \/ \E r \in requests :
                M!GetSession(r) \/ M!StoreSession(r) \/ M!Send(r) \/ M!Answered(r) \/ M!Fetched(r)
  BY DEF M!Next, M!addItem, M!emptyCart, M!placeOrder

\* A new request has no session yet.
LEMMA NewRequest ==
    ASSUME NEW n \in Nat, NEW kind \in {"fetch", "add", "empty", "order"}, NEW r,
           r = M!Request(n, kind)
    PROVE  /\ r \in Requests /\ r.kind = kind /\ r.stage = "asked" /\ r.live
           /\ r.n = n
  BY DEF M!Request, Requests

\* What invalidation makes of the requests: all of them as they were but for the
\* fetches that are dropped, and perhaps a new fetch.
LEMMA Invalidated ==
    ASSUME NEW rest \in SUBSET Requests, rest \subseteq requests, asked \in Nat, M!Invalidate(rest)
    PROVE  /\ asked' \in Nat /\ owed' \in BOOLEAN /\ requests' \subseteq Requests
           /\ \A q \in requests' : q.stage # "asked" =>
                \E r \in rest : q.stage = r.stage /\ q.kind = r.kind
           /\ owed' \/ \E f \in Requests :
                /\ f.kind = "fetch" /\ f.stage = "asked" /\ f.live /\ f \in requests'
                /\ \A q \in requests' : q.kind = "fetch" /\ q.live => q = f
           /\ owed' => \A q \in requests' : q \in requests
<1>1. CASE data = None /\ M!Fetches # {}
  <2>1. requests' = rest /\ owed' = TRUE /\ asked' = asked
    BY <1>1 DEF M!Invalidate
  <2>2. \A q \in requests' : q \in rest /\ q \in requests
    BY <2>1
  <2>3. owed' /\ owed' \in BOOLEAN
    BY <2>1
  <2>4. asked' \in Nat /\ requests' \subseteq Requests
    BY <2>1
  <2>5. \A q \in requests' : q.stage # "asked" => \E r \in rest : q.stage = r.stage /\ q.kind = r.kind
    BY <2>2
  <2>6. QED BY <2>2, <2>3, <2>4, <2>5, Zenon
<1>2. CASE ~(data = None /\ M!Fetches # {})
  <2> DEFINE dropped(r) == [r EXCEPT !.live = r.live /\ r \notin M!Fetches]
             f == M!Request(asked', "fetch")
  <2>1. asked' = asked + 1 /\ owed' = FALSE /\ requests' = {dropped(r) : r \in rest} \cup {f}
    BY <1>2 DEF M!Invalidate
  <2>2. f \in Requests /\ f.kind = "fetch" /\ f.stage = "asked" /\ f.live
    BY <2>1, NewRequest
  <2>3. ASSUME NEW r \in rest
        PROVE  /\ dropped(r) \in Requests
               /\ dropped(r).stage = r.stage /\ dropped(r).kind = r.kind
               /\ r.kind = "fetch" => ~dropped(r).live
    <3>1. r \in Requests /\ r \in requests
      OBVIOUS
    <3>2. dropped(r) \in Requests /\ dropped(r).stage = r.stage /\ dropped(r).kind = r.kind
          /\ dropped(r).live = (r.live /\ r \notin M!Fetches)
      BY <3>1 DEF Requests
    <3>3. QED BY <3>1, <3>2 DEF M!Fetches
  <2> HIDE DEF dropped, f
  <2>4. \A q \in requests' : q = f \/ \E r \in rest : q = dropped(r)
    BY <2>1
  <2>5. requests' \subseteq Requests
    BY <2>2, <2>3, <2>4
  <2>6. \A q \in requests' : q.stage # "asked" => \E r \in rest : q.stage = r.stage /\ q.kind = r.kind
    BY <2>2, <2>3, <2>4
  <2>7. \A q \in requests' : q.kind = "fetch" /\ q.live => q = f
    BY <2>3, <2>4
  <2>8. f \in requests'
    BY <2>1
  <2>9. asked' \in Nat /\ owed' \in BOOLEAN /\ ~owed'
    <3>1. owed' \in BOOLEAN /\ ~owed'
      BY <2>1, Zenon
    <3>2. asked' \in Nat
      BY <2>1
    <3>3. QED BY <3>1, <3>2
  <2>10. \E g \in Requests :
           /\ g.kind = "fetch" /\ g.stage = "asked" /\ g.live /\ g \in requests'
           /\ \A q \in requests' : q.kind = "fetch" /\ q.live => q = g
    BY <2>2, <2>7, <2>8
  <2>11. QED BY <2>5, <2>6, <2>9, <2>10, Zenon
<1>3. QED BY <1>1, <1>2
\* A request with another stage is the request it was.
LEMMA MovedRequest ==
    ASSUME requests \subseteq Requests, NEW r \in requests,
           NEW stage \in {"asked", "storing", "ready", "answered"}
    PROVE  \E s \in Requests :
             /\ M!Moved(r, stage) = (requests \ {r}) \cup {s}
             /\ s.stage = stage /\ s.kind = r.kind /\ s.live = r.live
             /\ s.items = r.items /\ s.parsed = r.parsed
<1> DEFINE s == [r EXCEPT !.stage = stage]
<1>1. r \in Requests
  OBVIOUS
<1>2. /\ s \in Requests /\ s.stage = stage /\ s.kind = r.kind /\ s.live = r.live
      /\ s.items = r.items /\ s.parsed = r.parsed
  BY <1>1 DEF Requests
<1>3. M!Moved(r, stage) = (requests \ {r}) \cup {s}
  BY DEF M!Moved
<1> HIDE DEF s
<1>4. QED BY <1>2, <1>3

\* What a user has in a cart is a number.
LEMMA CartIsNumber ==
    ASSUME AppTypes
    PROVE  M!CartOf(proxy, user) \in Nat
<1>1. PICK U \in SUBSET users : carts[proxy] \in [U -> Nat]
  BY DEF AppTypes
<1>2. QED BY <1>1 DEF M!CartOf

\* Nobody has a cart before a request is sent.
LEMMA NoCart ==
    ASSUME AppTypes, NEW u, u \notin users
    PROVE  M!CartOf(proxy, u) = 0
<1>1. PICK U \in SUBSET users : carts[proxy] \in [U -> Nat]
  BY DEF AppTypes
<1>2. u \notin DOMAIN carts[proxy]
  BY <1>1
<1>3. QED BY <1>2 DEF M!CartOf

\* The three asynchronous steps of getSession: read, made, stored.
LEMMA SessionSteps ==
    ASSUME AppInv, NEW r \in requests, M!GetSession(r) \/ M!StoreSession(r)
    PROVE  AppInv'
<1>1. AppTypes /\ SessionInv /\ FetchInv /\ requests \subseteq Requests
  BY DEF AppInv, AppTypes
<1>2. PICK stage \in {"storing", "ready"} :
        /\ requests' = M!Moved(r, stage)
        /\ r.stage \in {"asked", "storing"}
        /\ stage = "storing" => user' = None /\ user = None
        /\ stage = "ready" => (user' = user /\ user # None) \/ (user' = launches /\ r.stage = "storing")
        /\ UNCHANGED <<launches, proxy, moves, applying, carts, users, data, asked, owed, troubles>>
  <2>1. CASE M!GetSession(r)
    BY <2>1 DEF M!GetSession
  <2>2. CASE M!StoreSession(r)
    BY <2>2 DEF M!StoreSession, M!UserId
  <2>3. QED BY <2>1, <2>2
<1>3. PICK s \in Requests :
        /\ requests' = (requests \ {r}) \cup {s}
        /\ s.stage = stage /\ s.kind = r.kind /\ s.live = r.live
  BY <1>1, <1>2, MovedRequest
<1>4. None \notin Nat /\ launches \in Nat
  BY <1>1, AppAssumption DEF AppTypes
<1>5. user' \in Nat \cup {None}
  BY <1>1, <1>2, <1>4 DEF AppTypes
<1>6. AppTypes'
  BY <1>1, <1>2, <1>3, <1>5 DEF AppTypes
<1>7. r.stage = "storing" => user \in {None, launches}
  BY <1>1 DEF SessionInv
<1>8. SessionInv'
  BY <1>1, <1>2, <1>3, <1>4, <1>7 DEF SessionInv
<1>9. M!CartOf(proxy, user)' = M!CartOf(proxy, user)
  <2>1. CASE user' = user
    BY <1>2, <2>1 DEF M!CartOf
  <2>2. CASE user' # user
    <3>1. user = None /\ users = {} /\ user' = launches
      BY <1>1, <1>2, <1>7, <2>2 DEF SessionInv
    <3>2. M!CartOf(proxy, user) = 0 /\ M!CartOf(proxy, launches) = 0
      BY <1>1, <3>1, NoCart
    <3>3. QED BY <1>2, <3>1, <3>2 DEF M!CartOf
  <2>3. QED BY <2>1, <2>2
<1>10. FetchInv'
  <2>1. \A q \in M!Fetches' : q \in M!Fetches \/ (q = s /\ r \in M!Fetches)
    BY <1>3 DEF M!Fetches
  <2>2. \A p, q \in M!Fetches' : p = q
    BY <1>1, <1>3, <2>1 DEF FetchInv, M!Fetches
  <2>3. Followed' => Followed
    BY <1>2, <1>3 DEF Followed
  <2>4. M!Fetches' = {} => M!Fetches = {}
    BY <1>3 DEF M!Fetches
  <2>5. M!Shown' = M!Shown
    BY <1>2 DEF M!Shown
  <2>6. \A q \in M!Fetches' : q.stage = "answered" => q \in M!Fetches
    BY <1>2, <1>3, <2>1
  <2>7. QED BY <1>1, <1>9, <2>2, <2>3, <2>4, <2>5, <2>6 DEF FetchInv
<1>11. QED BY <1>6, <1>8, <1>10 DEF AppInv
-------------------------------------------------------------------------------
(***************************************************************************)
(* The app: requests, addresses and launches.                              *)
(***************************************************************************)

\* A button is pressed: its request has not changed anything yet.
LEMMA BeginKeeps ==
    ASSUME AppInv, NEW kind \in {"add", "empty", "order"}, M!Begin(kind)
    PROVE  AppInv'
<1>1. AppTypes /\ SessionInv /\ FetchInv
  BY DEF AppInv
<1> DEFINE s == M!Request(asked', kind)
<1>2. /\ asked' = asked + 1 /\ requests' = requests \cup {s}
      /\ UNCHANGED <<user, launches, proxy, moves, applying, carts, users, data, owed, troubles>>
  BY DEF M!Begin
<1>3. s \in Requests /\ s.kind = kind /\ s.stage = "asked"
  BY <1>1, <1>2, NewRequest DEF AppTypes
<1> HIDE DEF s
<1>4. AppTypes'
  BY <1>1, <1>2, <1>3 DEF AppTypes
<1>5. SessionInv'
  BY <1>1, <1>2, <1>3 DEF SessionInv
<1>6. FetchInv'
  <2>1. M!Fetches' = M!Fetches
    BY <1>2, <1>3 DEF M!Fetches
  <2>2. Followed' => Followed
    BY <1>2 DEF Followed
  <2>3. M!Shown' = M!Shown /\ M!CartOf(proxy, user)' = M!CartOf(proxy, user)
    BY <1>2 DEF M!Shown, M!CartOf
  <2>4. QED BY <1>1, <2>1, <2>2, <2>3 DEF FetchInv
<1>7. QED BY <1>4, <1>5, <1>6 DEF AppInv

\* What follows from an invalidation, whichever request or setting brought it.
LEMMA InvalidateKeeps ==
    ASSUME AppInv, NEW rest \in SUBSET requests, M!Invalidate(rest),
           \A q \in M!Fetches : q \in rest,
           applying' \in Nat,
           UNCHANGED <<user, launches, proxy, moves, carts, users, data, troubles>>
    PROVE  AppInv'
<1>1. AppTypes /\ SessionInv /\ FetchInv /\ requests \subseteq Requests /\ asked \in Nat
  BY DEF AppInv, AppTypes
<1>2. /\ asked' \in Nat /\ owed' \in BOOLEAN /\ requests' \subseteq Requests
      /\ \A q \in requests' : q.stage # "asked" =>
           \E r \in rest : q.stage = r.stage /\ q.kind = r.kind
      /\ owed' \/ \E f \in Requests :
           /\ f.kind = "fetch" /\ f.stage = "asked" /\ f.live /\ f \in requests'
           /\ \A q \in requests' : q.kind = "fetch" /\ q.live => q = f
      /\ owed' => \A q \in requests' : q \in requests
  BY <1>1, Invalidated
<1>3. AppTypes'
  BY <1>1, <1>2 DEF AppTypes
<1>4. SessionInv'
  <2>1. \A q \in requests' : q.stage = "ready" => \E r \in requests : r.stage = "ready"
    BY <1>2
  <2>2. \A q \in requests' : q.stage = "storing" => \E r \in requests : r.stage = "storing"
    BY <1>2
  <2>3. QED BY <1>1, <2>1, <2>2 DEF SessionInv
<1>5. FetchInv'
  <2>1. CASE owed'
    <3>1. ~Followed'
      BY <2>1 DEF Followed
    <3>2. \A q \in M!Fetches' : q \in M!Fetches
      BY <1>2, <2>1 DEF M!Fetches
    <3>3. QED BY <1>1, <3>1, <3>2 DEF FetchInv
  <2>2. CASE ~owed'
    <3>1. PICK f \in Requests :
            /\ f.kind = "fetch" /\ f.stage = "asked" /\ f.live /\ f \in requests'
            /\ \A q \in requests' : q.kind = "fetch" /\ q.live => q = f
      BY <1>2, <2>2
    <3>2. M!Fetches' = {f}
      BY <3>1 DEF M!Fetches
    <3>3. QED BY <3>1, <3>2 DEF FetchInv
  <2>3. QED BY <2>1, <2>2
<1>6. QED BY <1>3, <1>4, <1>5 DEF AppInv

\* The address is stored, and then everything is invalidated.
LEMMA AddressKeeps ==
    ASSUME AppInv, M!ProxyApplied \/ \E server \in Servers : M!SetProxy(server)
    PROVE  AppInv'
<1>1. AppTypes /\ SessionInv /\ FetchInv
  BY DEF AppInv
<1>2. CASE M!ProxyApplied
  <2>1. /\ applying > 0 /\ applying' = applying - 1 /\ M!Invalidate(requests)
        /\ UNCHANGED <<user, launches, proxy, moves, carts, users, data, troubles>>
    BY <1>2 DEF M!ProxyApplied
  <2>2. applying' \in Nat
    BY <1>1, <2>1 DEF AppTypes
  <2>3. \A q \in M!Fetches : q \in requests
    BY DEF M!Fetches
  <2>4. QED BY <2>1, <2>2, <2>3, InvalidateKeeps
<1>3. ASSUME NEW server \in Servers, M!SetProxy(server) PROVE AppInv'
  <2>1. /\ moves' = moves + 1 /\ proxy' = server /\ applying' = applying + 1
        /\ UNCHANGED <<user, launches, carts, users, data, requests, asked, owed, troubles>>
    BY <1>3 DEF M!SetProxy
  <2>2. applying' # 0 /\ applying' \in Nat /\ moves' \in Nat
    BY <1>1, <2>1 DEF AppTypes
  <2>3. AppTypes'
    BY <1>1, <2>1, <2>2 DEF AppTypes
  <2>4. SessionInv'
    BY <1>1, <2>1 DEF SessionInv
  <2>5. FetchInv'
    BY <1>1, <2>1, <2>2 DEF FetchInv, Followed, M!Fetches
  <2>6. QED BY <2>3, <2>4, <2>5 DEF AppInv
<1>4. QED BY <1>2, <1>3

\* The app is ended wherever its requests are, and launched again.
LEMMA RelaunchKeeps ==
    ASSUME AppInv, M!Relaunch
    PROVE  AppInv'
<1>1. AppTypes /\ SessionInv
  BY DEF AppInv
<1> DEFINE f == M!Request(asked', "fetch")
<1>2. /\ launches' = launches + 1 /\ data' = None /\ asked' = asked + 1 /\ requests' = {f}
      /\ applying' = 0 /\ owed' = FALSE
      /\ UNCHANGED <<user, proxy, moves, carts, users, troubles>>
  BY DEF M!Relaunch
<1>3. f \in Requests /\ f.kind = "fetch" /\ f.stage = "asked" /\ f.live
  BY <1>1, <1>2, NewRequest DEF AppTypes
<1> HIDE DEF f
<1>4. AppTypes'
  <2>1. owed' \in BOOLEAN
    BY <1>2
  <2>2. asked' \in Nat /\ launches' \in Nat /\ applying' \in Nat
    BY <1>1, <1>2 DEF AppTypes
  <2>3. QED BY <1>1, <1>2, <1>3, <2>1, <2>2 DEF AppTypes
<1>5. SessionInv'
  BY <1>1, <1>2, <1>3 DEF SessionInv
<1>6. M!Fetches' = {f}
  BY <1>2, <1>3 DEF M!Fetches
<1>7. FetchInv'
  BY <1>3, <1>6 DEF FetchInv
<1>8. QED BY <1>4, <1>5, <1>7 DEF AppInv

\* A request is sent, and a route does what it asks for, or not.
LEMMA SendKeeps ==
    ASSUME AppInv, NEW r \in requests, M!Send(r)
    PROVE  AppInv'
<1>1. AppTypes /\ SessionInv /\ FetchInv /\ requests \subseteq Requests
  BY DEF AppInv, AppTypes
<1>2. PICK o \in M!Outcomes(r.kind) :
        /\ r.stage = "ready" /\ users' = users \cup {user}
        /\ troubles' \in {troubles, troubles + 1}
        /\ requests' = (requests \ {r}) \cup
             {[r EXCEPT !.stage = "answered", !.items = M!CartOf(proxy, user), !.parsed = o.parsed]}
        /\ carts' = IF ~o.done \/ r.kind = "fetch" THEN carts
                    ELSE [carts EXCEPT ![proxy] =
                             [u \in DOMAIN @ \cup {user} |->
                                 IF u # user THEN @[u]
                                 ELSE IF r.kind = "add" THEN M!CartOf(proxy, user) + 1 ELSE 0]]
        /\ UNCHANGED <<user, launches, proxy, moves, applying, data, asked, owed>>
  BY DEF M!Send
<1>3. r \in Requests /\ o.parsed \in BOOLEAN
  BY <1>1 DEF M!Outcomes
<1> DEFINE s == [r EXCEPT !.stage = "answered", !.items = M!CartOf(proxy, user), !.parsed = o.parsed]
<1>4. /\ s \in Requests /\ s.stage = "answered" /\ s.kind = r.kind /\ s.live = r.live
      /\ s.items = M!CartOf(proxy, user)
  BY <1>1, <1>3, CartIsNumber DEF Requests
<1>5. requests' = (requests \ {r}) \cup {s}
  BY <1>2
<1> HIDE DEF s
<1>6. user # None /\ users \subseteq {user}
  BY <1>1, <1>2 DEF SessionInv
<1>7. DOMAIN carts' = Servers /\ \A t \in Servers : \E U \in SUBSET users' : carts'[t] \in [U -> Nat]
  <2>1. CASE carts' = carts
    BY <1>1, <1>2, <2>1 DEF AppTypes
  <2>2. CASE ~(~o.done \/ r.kind = "fetch")
    <3> DEFINE n == IF r.kind = "add" THEN M!CartOf(proxy, user) + 1 ELSE 0
               mine == [u \in DOMAIN carts[proxy] \cup {user} |-> IF u # user THEN carts[proxy][u] ELSE n]
    <3>1. n \in Nat
      BY <1>1, CartIsNumber
    <3>2. carts' = [carts EXCEPT ![proxy] = mine]
      BY <1>2, <2>2
    <3>3. PICK U \in SUBSET users : carts[proxy] \in [U -> Nat]
      BY <1>1 DEF AppTypes
    <3> HIDE DEF n
    <3>4. mine \in [U \cup {user} -> Nat]
      BY <3>1, <3>3
    <3> HIDE DEF mine
    <3>5. U \cup {user} \in SUBSET users'
      BY <1>2, <3>3
    <3>6. DOMAIN carts' = Servers /\ proxy \in Servers
          /\ \A t \in Servers : carts'[t] = IF t = proxy THEN mine ELSE carts[t]
      BY <1>1, <3>2 DEF AppTypes
    <3>7. \A t \in Servers : \E V \in SUBSET users' : carts[t] \in [V -> Nat]
      BY <1>1, <1>2 DEF AppTypes
    <3>8. QED BY <3>4, <3>5, <3>6, <3>7
  <2>3. QED BY <1>2, <2>1, <2>2
<1>8. AppTypes'
  <2>1. troubles' \in Nat
    BY <1>1, <1>2 DEF AppTypes
  <2>2. requests' \subseteq Requests
    BY <1>1, <1>4, <1>5
  <2>3. QED BY <1>1, <1>2, <1>7, <2>1, <2>2 DEF AppTypes
<1>9. SessionInv'
  BY <1>1, <1>2, <1>4, <1>5, <1>6 DEF SessionInv
<1>10. FetchInv'
  <2>1. \A q \in M!Fetches' : q \in M!Fetches \/ (q = s /\ r \in M!Fetches)
    BY <1>4, <1>5 DEF M!Fetches
  <2>2. \A p, q \in M!Fetches' : p = q
    BY <1>1, <1>5, <2>1 DEF FetchInv, M!Fetches
  <2>3. CASE r.kind # "fetch"
    <3>1. ~Followed'
      BY <1>4, <1>5, <2>3 DEF Followed
    <3>2. QED BY <2>2, <3>1 DEF FetchInv
  <2>4. CASE r.kind = "fetch"
    <3>1. Followed' => Followed
      BY <1>2, <1>5, <2>4 DEF Followed
    <3>2. M!CartOf(proxy, user)' = M!CartOf(proxy, user) /\ M!Shown' = M!Shown
      BY <1>2, <2>4 DEF M!CartOf, M!Shown
    <3>3. M!Fetches' = {} => M!Fetches = {}
      BY <1>4, <1>5 DEF M!Fetches
    <3>4. QED BY <1>1, <1>4, <2>1, <2>2, <3>1, <3>2, <3>3 DEF FetchInv
  <2>5. QED BY <2>3, <2>4
<1>11. QED BY <1>8, <1>9, <1>10 DEF AppInv

\* Answers: what is shown changes, is fetched again, or is owed.
LEMMA AnswerKeeps ==
    ASSUME AppInv, NEW r \in requests, M!Answered(r) \/ M!Fetched(r)
    PROVE  AppInv'
<1>1. AppTypes /\ SessionInv /\ FetchInv /\ requests \subseteq Requests
  BY DEF AppInv, AppTypes
<1>2. r \in Requests
  BY <1>1
<1>3. CASE M!Answered(r) /\ r.parsed
  <2>1. /\ r.kind # "fetch" /\ M!Invalidate(requests \ {r})
        /\ UNCHANGED <<user, launches, proxy, moves, applying, carts, users, data, troubles>>
    BY <1>3 DEF M!Answered
  <2>2. \A q \in M!Fetches : q \in requests \ {r}
    BY <2>1 DEF M!Fetches
  <2>3. applying' \in Nat
    BY <1>1, <2>1 DEF AppTypes
  <2>4. QED BY <2>1, <2>2, <2>3, InvalidateKeeps
<1>4. CASE (M!Answered(r) /\ ~r.parsed) \/ (M!Fetched(r) /\ r.live /\ ~r.parsed /\ requests' = requests \ {r} /\ owed' = TRUE)
  <2>1. /\ requests' = requests \ {r} /\ owed' = TRUE
        /\ UNCHANGED <<user, launches, proxy, moves, applying, carts, users, data, asked, troubles>>
    BY <1>4 DEF M!Answered, M!Fetched
  <2>2. AppTypes'
    BY <1>1, <2>1 DEF AppTypes
  <2>3. SessionInv'
    BY <1>1, <2>1 DEF SessionInv
  <2>4. ~Followed'
    BY <2>1 DEF Followed
  <2>5. FetchInv'
    BY <1>1, <2>1, <2>4 DEF FetchInv, M!Fetches
  <2>6. QED BY <2>2, <2>3, <2>5 DEF AppInv
<1>5. CASE M!Fetched(r) /\ ~r.live
  <2>1. /\ requests' = requests \ {r} /\ r.kind = "fetch"
        /\ UNCHANGED <<user, launches, proxy, moves, applying, carts, users, data, asked, owed, troubles>>
    BY <1>5 DEF M!Fetched
  <2>2. AppTypes'
    BY <1>1, <2>1 DEF AppTypes
  <2>3. SessionInv'
    BY <1>1, <2>1 DEF SessionInv
  <2>4. M!Fetches' = M!Fetches
    BY <1>5, <2>1 DEF M!Fetches
  <2>5. Followed' => Followed
    BY <2>1 DEF Followed
  <2>6. M!Shown' = M!Shown /\ M!CartOf(proxy, user)' = M!CartOf(proxy, user)
    BY <2>1 DEF M!Shown, M!CartOf
  <2>7. FetchInv'
    BY <1>1, <2>4, <2>5, <2>6 DEF FetchInv
  <2>8. QED BY <2>2, <2>3, <2>7 DEF AppInv
<1>6. CASE M!Fetched(r) /\ r.live /\ r.parsed
  <2>1. /\ requests' = requests \ {r} /\ data' = r.items /\ r.kind = "fetch" /\ r.stage = "answered"
        /\ UNCHANGED <<user, launches, proxy, moves, applying, carts, users, asked, owed, troubles>>
    BY <1>6 DEF M!Fetched
  <2>2. r.items \in Nat /\ r.items # None
    BY <1>2, AppAssumption DEF Requests
  <2>3. AppTypes'
    BY <1>1, <2>1, <2>2 DEF AppTypes
  <2>4. SessionInv'
    BY <1>1, <2>1 DEF SessionInv
  <2>5. r \in M!Fetches
    BY <1>6, <2>1 DEF M!Fetches
  <2>6. M!Fetches' = {}
    BY <1>1, <2>1, <2>5 DEF FetchInv, M!Fetches
  <2>7. Followed' => Followed
    BY <2>1 DEF Followed
  <2>8. M!Shown' = r.items /\ M!CartOf(proxy, user)' = M!CartOf(proxy, user)
    BY <2>1, <2>2 DEF M!Shown, M!CartOf
  <2>9. Followed => r.items = M!CartOf(proxy, user)
    BY <1>1, <1>6, <2>1, <2>5 DEF FetchInv
  <2>10. FetchInv'
    BY <2>6, <2>7, <2>8, <2>9 DEF FetchInv
  <2>11. QED BY <2>3, <2>4, <2>10 DEF AppInv
<1>7. CASE M!Fetched(r) /\ r.live /\ ~r.parsed /\ requests' = M!Moved(r, "asked") /\ owed' = owed
  <2>1. /\ r.kind = "fetch"
        /\ UNCHANGED <<user, launches, proxy, moves, applying, carts, users, data, asked, troubles>>
    BY <1>7 DEF M!Fetched
  <2>2. PICK s \in Requests :
          /\ requests' = (requests \ {r}) \cup {s}
          /\ s.stage = "asked" /\ s.kind = r.kind /\ s.live = r.live
    BY <1>1, <1>7, MovedRequest
  <2>3. AppTypes'
    BY <1>1, <1>7, <2>1, <2>2 DEF AppTypes
  <2>4. SessionInv'
    BY <1>1, <2>1, <2>2 DEF SessionInv
  <2>5. r \in M!Fetches
    BY <1>7, <2>1 DEF M!Fetches
  <2>6. M!Fetches' = {s}
    BY <1>1, <1>7, <2>1, <2>2, <2>5 DEF FetchInv, M!Fetches
  <2>7. FetchInv'
    BY <2>2, <2>6 DEF FetchInv
  <2>8. QED BY <2>3, <2>4, <2>7 DEF AppInv
<1>8. M!Fetched(r) /\ r.live /\ ~r.parsed =>
        \/ requests' = M!Moved(r, "asked") /\ owed' = owed
        \/ requests' = requests \ {r} /\ owed' = TRUE
  BY DEF M!Fetched
<1>9. QED BY <1>3, <1>4, <1>5, <1>6, <1>7, <1>8, Zenon

\* Every step of the app.
LEMMA AppKeeps ==
    ASSUME AppInv, M!Next
    PROVE  AppInv'
  BY AppCases, BeginKeeps, AddressKeeps, RelaunchKeeps, SessionSteps, SendKeeps, AnswerKeeps, Zenon
-------------------------------------------------------------------------------
(***************************************************************************)
(* The browser: carts, sequences and the cache.                            *)
(***************************************************************************)

\* Carts stay carts, and None is not one.
LEMMA CartFacts ==
    /\ Empty \in Carts /\ None \notin Carts
    /\ \A items \in Carts : \A p : Quantity(items, p) \in Int
    /\ \A items \in Carts, p \in Products, q \in Int : Added(items, p, q) \in Carts
<1>1. Empty \in [{} -> Int]
  BY DEF Empty
<1>2. Empty \in Carts
  BY <1>1 DEF Carts
<1>3. None \notin Carts
  BY NoneAssumption DEF Carts
<1>4. ASSUME NEW items \in Carts, NEW p PROVE Quantity(items, p) \in Int
  <2>1. PICK S \in SUBSET Products : items \in [S -> Int]
    BY DEF Carts
  <2>2. QED BY <2>1 DEF Quantity
<1>5. ASSUME NEW items \in Carts, NEW p \in Products, NEW q \in Int
      PROVE  Added(items, p, q) \in Carts
  <2>1. PICK S \in SUBSET Products : items \in [S -> Int]
    BY DEF Carts
  <2>2. \A r : Quantity(items, r) + (IF r = p THEN q ELSE 0) \in Int
    BY <1>4
  <2>3. Added(items, p, q) \in [S \cup {p} -> Int]
    BY <2>1, <2>2 DEF Added
  <2>4. QED BY <2>3 DEF Carts
<1>6. QED BY <1>2, <1>3, <1>4, <1>5

\* A sequence is one of what is in it.
LEMMA OwnRange ==
    ASSUME NEW S, NEW t \in Seq(S)
    PROVE  t \in Seq(Range(t))
<1> DEFINE R == Range(t)
           n == Len(t)
<1>1. n \in Nat /\ t \in [1..n -> S]
  OBVIOUS
<1>2. \A j \in 1..n : t[j] \in R
  BY <1>1 DEF Range
<1> HIDE DEF R
<1>3. t \in [1..n -> R]
  <2> HIDE DEF n
  <2>1. QED BY <1>1, <1>2
<1>4. t \in Seq(R)
  <2> HIDE DEF n
  <2>1. QED BY <1>1, <1>3
<1>5. QED BY <1>4 DEF R

\* A sequence with one element replaced.
LEMMA Replaced ==
    ASSUME NEW s, s \in Seq(Range(s)), NEW i \in DOMAIN s, NEW x, NEW t, t = [s EXCEPT ![i] = x]
    PROVE  /\ t \in Seq(Range(t)) /\ DOMAIN t = DOMAIN s /\ t[i] = x
           /\ \A j \in DOMAIN s : j # i => t[j] = s[j]
<1>1. Len(s) \in Nat /\ DOMAIN s = 1..Len(s)
  OBVIOUS
<1>2. DOMAIN t = DOMAIN s /\ t[i] = x /\ \A j \in DOMAIN s : j # i => t[j] = s[j]
  BY <1>1
<1> DEFINE S == Range(s) \cup {x}
<1>3. s \in Seq(S) /\ x \in S
  OBVIOUS
<1> HIDE DEF S
<1>4. t \in Seq(S)
  BY <1>1, <1>3
<1>5. QED BY <1>2, <1>4, OwnRange

\* A sequence with one element more.
Extends(t, s, x) == t = Append(s, x)

\* What a sequence keeps, and gets, when one element is appended.
LEMMA Appended ==
    ASSUME NEW s, s \in Seq(Range(s)), NEW x, NEW t, Extends(t, s, x)
    PROVE  /\ t \in Seq(Range(t)) /\ \A j \in DOMAIN s : t[j] = s[j]
           /\ DOMAIN t = DOMAIN s \cup {Len(t)} /\ Len(t) \notin DOMAIN s /\ t[Len(t)] = x
<1> DEFINE S == Range(s) \cup {x}
           n == Len(s) + 1
<1>1. Len(s) \in Nat /\ DOMAIN s = 1..Len(s) /\ \A j \in 1..Len(s) : s[j] \in S
  BY DEF Range
<1>2. s \in Seq(S)
  BY <1>1
<1>3. x \in S
  OBVIOUS
<1> HIDE DEF S
<1>4. t \in Seq(S) /\ Len(t) = n /\ t[n] = x /\ \A j \in 1..Len(s) : t[j] = s[j]
  BY <1>2, <1>3 DEF Extends
<1>5. DOMAIN t = DOMAIN s \cup {n} /\ n \notin DOMAIN s
  BY <1>1, <1>4
<1>6. t \in Seq(Range(t))
  BY <1>4, OwnRange
<1>7. QED BY <1>1, <1>4, <1>5, <1>6

\* One query of the cache.
LEMMA QueryTypes ==
    ASSUME cache \in [Currencies -> Queries], NEW c \in Currencies
    PROVE  /\ cache[c] \in Queries /\ cache[c].data \in Carts \cup {None}
           /\ cache[c].fetch \in Fetched /\ cache[c].fetch.items \in Carts
           /\ cache[c].fetch.stage \in {"idle", "asked", "read"}
<1>1. cache[c] \in Queries
  OBVIOUS
<1>2. cache[c].data \in Carts \cup {None} /\ cache[c].fetch \in Fetched
  BY <1>1 DEF Queries
<1>3. QED BY <1>1, <1>2 DEF Fetched

\* A query with another fetch.
LEMMA FetchChanged ==
    ASSUME cache \in [Currencies -> Queries], NEW c \in Currencies, NEW f \in Fetched,
           NEW u, u = [cache EXCEPT ![c].fetch = f]
    PROVE  /\ u \in [Currencies -> Queries]
           /\ u[c].data = cache[c].data /\ u[c].fetch = f
           /\ \A d \in Currencies : d # c => u[d] = cache[d]
<1> DEFINE q == [cache[c] EXCEPT !.fetch = f]
<1>1. cache[c] \in Queries
  OBVIOUS
<1>2. q \in Queries /\ q.data = cache[c].data /\ q.fetch = f
  BY <1>1 DEF Queries
<1>3. u = [cache EXCEPT ![c] = q]
  OBVIOUS
<1> HIDE DEF q
<1>4. QED BY <1>2, <1>3

\* Idle and Asked are fetches.
LEMMA FetchConstants ==
    /\ Idle \in Fetched /\ Idle.stage = "idle"
    /\ Asked \in Fetched /\ Asked.stage = "asked"
  BY CartFacts DEF Idle, Asked, Fetched

\* After Fetch a query is being fetched; it keeps its data and what has been read.
LEMMA FetchIs ==
    ASSUME cache \in [Currencies -> Queries], NEW c \in Currencies, NEW u, u = Fetch(c)
    PROVE  /\ u \in [Currencies -> Queries]
           /\ u[c].data = cache[c].data /\ u[c].fetch.stage # "idle"
           /\ u[c].fetch.stage = "read" => u[c].fetch = cache[c].fetch
           /\ \A d \in Currencies : d # c => u[d] = cache[d]
<1> DEFINE f == IF cache[c].fetch.stage = "idle" THEN Asked ELSE cache[c].fetch
<1>1. f \in Fetched
  BY QueryTypes, FetchConstants
<1>2. u = [cache EXCEPT ![c].fetch = f]
  BY DEF Fetch
<1>3. f.stage # "idle" /\ (f.stage = "read" => f = cache[c].fetch)
  BY FetchConstants
<1> HIDE DEF f
<1>4. QED BY <1>1, <1>2, <1>3, FetchChanged

\* After Invalidate the query in use has been asked for anew, if it has data.
LEMMA InvalidateIs ==
    ASSUME cache \in [Currencies -> Queries], selected \in Currencies, NEW u, u = Invalidate
    PROVE  /\ u \in [Currencies -> Queries]
           /\ u[selected].data = cache[selected].data /\ u[selected].fetch.stage # "idle"
           /\ ~(cache[selected].data = None /\ cache[selected].fetch.stage = "read") =>
                u[selected].fetch.stage = "asked"
           /\ \A d \in Currencies : d # selected => u[d] = cache[d]
<1> DEFINE f == IF cache[selected].fetch.stage # "idle" /\ cache[selected].data = None
                THEN cache[selected].fetch ELSE Asked
<1>1. f \in Fetched
  BY QueryTypes, FetchConstants
<1>2. u = [cache EXCEPT ![selected].fetch = f]
  BY DEF Invalidate
<1>3. f.stage # "idle"
      /\ (~(cache[selected].data = None /\ cache[selected].fetch.stage = "read") => f.stage = "asked")
  BY QueryTypes, FetchConstants
<1> HIDE DEF f
<1>4. QED BY <1>1, <1>2, <1>3, FetchChanged
-------------------------------------------------------------------------------
(***************************************************************************)
(* The browser: calls on their way.                                        *)
(***************************************************************************)

\* No charge is made, and no call that was charged is told as refused.
LEMMA ChargesKept ==
    ASSUME ChargeInv, charges' = charges, DOMAIN calls \subseteq DOMAIN calls',
           \A i \in DOMAIN calls : Unrefused(calls[i]) => Unrefused(calls'[i])
    PROVE  ChargeInv'
  BY DEF ChargeInv, Unrefused

\* A charge of a call that is not told as refused.
LEMMA ChargeMade ==
    ASSUME BrowserTypes, ChargeInv, NEW charge, charges' = Append(charges, charge),
           DOMAIN calls = DOMAIN calls', charge.call \in DOMAIN calls,
           \A i \in DOMAIN calls : Unrefused(calls[i]) => Unrefused(calls'[i]),
           Unrefused(calls'[charge.call])
    PROVE  charges' \in Seq(Range(charges')) /\ ChargeInv'
<1>1. charges \in Seq(Range(charges))
  BY DEF BrowserTypes
<1>2. PICK t : t = charges' /\ t = Append(charges, charge)
  OBVIOUS
<1>3. /\ t \in Seq(Range(t)) /\ \A j \in DOMAIN charges : t[j] = charges[j]
      /\ DOMAIN t = DOMAIN charges \cup {Len(t)} /\ t[Len(t)] = charge
  <2>1. Extends(t, charges, charge)
    BY <1>2 DEF Extends
  <2>2. t \in Seq(Range(t))
    BY ONLY <1>1, <2>1, Appended, Zenon
  <2>3. \A j \in DOMAIN charges : t[j] = charges[j]
    BY ONLY <1>1, <1>2
  <2>4. DOMAIN t = DOMAIN charges \cup {Len(t)} /\ t[Len(t)] = charge
    BY ONLY <1>1, <2>1, Appended, Zenon
  <2>5. QED BY <2>2, <2>3, <2>4
<1>4. ASSUME NEW k \in DOMAIN t
      PROVE  t[k].call \in DOMAIN calls' /\ Unrefused(calls'[t[k].call])
  <2>1. CASE k = Len(t)
    BY <1>3, <2>1
  <2>2. CASE k \in DOMAIN charges
    BY <1>3, <2>2 DEF ChargeInv
  <2>3. QED BY <1>3, <1>4, <2>1, <2>2
<1>5. ChargeInv'
  BY <1>2, <1>4 DEF ChargeInv, Unrefused
<1>6. QED BY <1>2, <1>3, <1>5

\* A call that becomes d: the cart changes only when the call has been made by that,
\* and the page falls behind when the answer is lost.
Heard(c, d) ==
    /\ ~behind' => ~behind
    /\ ~behind' /\ ~Finished(d) => cart' = cart /\ ~Finished(c)

\* A call in flight goes on as c, and what the page and the cart are left with fits it.
Moves(i, c) ==
    /\ InFlight(i) /\ IsCall(c) /\ c.kind = calls[i].kind /\ c.stage \notin {"ok", "failed"}
    /\ calls' = [calls EXCEPT ![i] = c]
    /\ UNCHANGED <<cache, selected, session, wanted>>
    /\ cart' \in Carts /\ calm' \in BOOLEAN /\ (calm' => calm)
    /\ calm /\ calm' /\ Pending(calls[i]) => Pending(c)'
    /\ calm' /\ c.kind = "order" /\ ~(c.stage = "done" /\ c.status = 200) =>
           cart' = cart /\ ~(calls[i].stage = "done" /\ calls[i].status = 200)
    /\ Heard(calls[i], c)
    /\ charges' \in Seq(Range(charges')) /\ ChargeInv'

\* A call on its way moves on: if the shopper waits, what is pending still makes of
\* the cart what is wanted, and an order that has not emptied the cart leaves it.
LEMMA MoveKeeps ==
    ASSUME BrowserInv, NEW i \in DOMAIN calls, NEW c, Moves(i, c)
    PROVE  BrowserInv'
<1> SUFFICES ASSUME
        InFlight(i), IsCall(c), c.kind = calls[i].kind, c.stage \notin {"ok", "failed"},
        calls' = [calls EXCEPT ![i] = c], UNCHANGED <<cache, selected, session, wanted>>,
        cart' \in Carts, calm' \in BOOLEAN, calm' => calm,
        calm /\ calm' /\ Pending(calls[i]) => Pending(c)',
        calm' /\ c.kind = "order" /\ ~(c.stage = "done" /\ c.status = 200) =>
            cart' = cart /\ ~(calls[i].stage = "done" /\ calls[i].status = 200),
        Heard(calls[i], c), charges' \in Seq(Range(charges')), ChargeInv'
      PROVE  BrowserInv'
  BY DEF Moves
<1>1. BrowserTypes /\ CalmInv /\ ShownInv
  BY DEF BrowserInv
<1>2. PICK t : t = calls'
  OBVIOUS
<1>3. calls \in Seq(Range(calls)) /\ \A j \in DOMAIN calls : IsCall(calls[j])
  BY <1>1 DEF BrowserTypes
<1>4. /\ t \in Seq(Range(t)) /\ DOMAIN t = DOMAIN calls /\ t[i] = c
      /\ \A j \in DOMAIN calls : j # i => t[j] = calls[j]
  BY <1>2, <1>3, Replaced
<1>5. \A j \in DOMAIN t : IsCall(t[j])
  BY <1>3, <1>4
<1>6. BrowserTypes'
  BY <1>1, <1>2, <1>4, <1>5 DEF BrowserTypes, IsCall
<1>7. \A j \in DOMAIN calls : InFlight(j)' => InFlight(j)
  BY <1>2, <1>4 DEF InFlight
<1>8. CalmInv'
  <2>2. SUFFICES ASSUME calm'
                 PROVE  /\ \A j, k \in DOMAIN calls' : InFlight(j)' /\ InFlight(k)' => j = k
                        /\ \A j \in DOMAIN calls' : InFlight(j)' => Pending(calls[j])'
                        /\ Settled' => cart' = wanted'
    BY DEF CalmInv
  <2>3. calm
    BY <2>2
  <2>4. \A j \in DOMAIN calls : InFlight(j)' => j = i
    BY <1>1, <1>7, <2>3 DEF CalmInv
  <2>5. Pending(calls[i])'
    <3>1. Pending(calls[i])
      BY <1>1, <2>3 DEF CalmInv
    <3>2. Pending(c)'
      BY <2>2, <2>3, <3>1
    <3>3. QED BY <1>2, <1>4, <3>2
  <2>7. ASSUME Settled'
        PROVE  cart' = cart /\ Settled
    <3>1. InFlight(i)' /\ i \in DOMAIN calls'
      BY <1>2, <1>4 DEF InFlight
    <3>2. c.kind = "order" /\ ~(c.stage = "done" /\ c.status = 200)
      BY <1>2, <1>4, <2>7, <3>1 DEF Settled
    <3>3. cart' = cart /\ calls[i].kind = "order" /\ ~(calls[i].stage = "done" /\ calls[i].status = 200)
      BY <2>2, <3>2
    <3>4. \A j \in DOMAIN calls : InFlight(j) => j = i
      BY <1>1, <2>3 DEF CalmInv
    <3>5. QED BY <3>3, <3>4 DEF Settled
  <2>8. Settled => cart = wanted
    BY <1>1, <2>3 DEF CalmInv
  <2>9. DOMAIN calls' = DOMAIN calls
    BY <1>2, <1>4
  <2>10. QED BY <2>4, <2>5, <2>7, <2>8, <2>9
<1>10. ShownInv'
  <2>1. SUFFICES ASSUME Clear' PROVE Clear /\ cart' = cart
    BY <1>1 DEF ShownInv, Fits
  <2>2. ~behind' /\ ~Finished(c)
    BY <1>2, <1>4, <2>1 DEF Clear
  <2>3. ~behind /\ cart' = cart /\ ~Finished(calls[i])
    BY <2>2 DEF Heard
  <2>4. \A j \in DOMAIN calls : ~Finished(calls[j])
    BY <1>2, <1>4, <2>1, <2>3 DEF Clear
  <2>5. QED BY <2>3, <2>4 DEF Clear
<1>11. QED BY <1>6, <1>8, <1>10 DEF BrowserInv
\* A call on its way moves on, and no charge is made.
LEMMA QuietMove ==
    ASSUME BrowserInv, NEW i \in DOMAIN calls, NEW c, calls' = [calls EXCEPT ![i] = c],
           charges' = charges, Unrefused(calls[i]) => Unrefused(c)
    PROVE  charges' \in Seq(Range(charges')) /\ ChargeInv'
<1>1. BrowserTypes /\ ChargeInv
  BY DEF BrowserInv
<1>2. PICK t : t = calls'
  OBVIOUS
<1>3. DOMAIN t = DOMAIN calls /\ t[i] = c /\ \A j \in DOMAIN calls : j # i => t[j] = calls[j]
  BY <1>1, <1>2, Replaced DEF BrowserTypes
<1>4. \A j \in DOMAIN calls : Unrefused(calls[j]) => Unrefused(calls'[j])
  BY <1>2, <1>3
<1>5. DOMAIN calls \subseteq DOMAIN calls'
  BY <1>2, <1>3
<1>6. ChargeInv'
  BY <1>1, <1>4, <1>5, ChargesKept
<1>7. QED BY <1>1, <1>6 DEF BrowserTypes

\* AddItemAsync reads the cart.
LEMMA AddItemReadsKeeps ==
    ASSUME BrowserInv, NEW i \in DOMAIN calls, AddItemReads(i)
    PROVE  BrowserInv'
<1>1. BrowserTypes /\ IsCall(calls[i])
  BY DEF BrowserInv, BrowserTypes
<1>c. PICK c : c = [calls[i] EXCEPT !.stage = "adding", !.items = cart]
  OBVIOUS
<1>2. /\ calls[i].kind \in {"add", "pick"} /\ calls[i].stage = "asked"
      /\ calls' = [calls EXCEPT ![i] = c]
      /\ UNCHANGED <<cart, charges, cache, selected, session, wanted, calm, behind>>
  BY <1>c DEF AddItemReads, Step
<1>3. /\ c.kind = calls[i].kind /\ c.product = calls[i].product /\ c.quantity = calls[i].quantity
      /\ c.stage = "adding" /\ c.items = cart /\ c.status = calls[i].status /\ c.here = calls[i].here
  BY <1>c, <1>1 DEF IsCall
<1>4. IsCall(c)
  BY <1>c, <1>1, <1>2 DEF IsCall, BrowserTypes
<1>5. Pending(calls[i]) => Pending(c)'
  BY <1>2, <1>3 DEF Pending
<1>6. InFlight(i)
  BY <1>2 DEF InFlight
<1>7. charges' \in Seq(Range(charges')) /\ ChargeInv'
  BY <1>2, <1>3, QuietMove DEF Unrefused
<1>8. cart' \in Carts /\ calm' \in BOOLEAN /\ (calm' => calm)
  BY <1>1, <1>2 DEF BrowserTypes
<1>b. Heard(calls[i], c)
  BY <1>2, <1>3 DEF Heard, Finished
<1>9. Moves(i, c)
  BY <1>b, <1>2, <1>3, <1>4, <1>5, <1>6, <1>7, <1>8 DEF Moves
<1>10. QED BY <1>9, MoveKeeps

\* AddItemAsync writes it.
LEMMA AddItemWritesKeeps ==
    ASSUME BrowserInv, NEW i \in DOMAIN calls, AddItemWrites(i)
    PROVE  BrowserInv'
<1>1. BrowserTypes /\ IsCall(calls[i])
  BY DEF BrowserInv, BrowserTypes
<1>c. PICK c : c = [calls[i] EXCEPT !.stage = "done", !.status = 200]
  OBVIOUS
<1>2. /\ calls[i].kind \in {"add", "pick"} /\ calls[i].stage = "adding"
      /\ calls' = [calls EXCEPT ![i] = c]
      /\ cart' = Added(calls[i].items, calls[i].product, calls[i].quantity)
      /\ UNCHANGED <<charges, cache, selected, session, wanted, calm, behind>>
  BY <1>c DEF AddItemWrites, Step
<1>3. /\ c.kind = calls[i].kind /\ c.stage = "done" /\ c.status = 200 /\ c.here = calls[i].here
  BY <1>c, <1>1 DEF IsCall
<1>4. IsCall(c)
  BY <1>c, <1>1, <1>2 DEF IsCall
<1>5. Pending(calls[i]) => Pending(c)'
  BY <1>2, <1>3 DEF Pending
<1>6. InFlight(i)
  BY <1>2 DEF InFlight
<1>7. charges' \in Seq(Range(charges')) /\ ChargeInv'
  BY <1>2, <1>3, QuietMove DEF Unrefused
<1>8. cart' \in Carts
  BY <1>1, <1>2, CartFacts DEF IsCall
<1>9. calm' \in BOOLEAN /\ (calm' => calm)
  BY <1>1, <1>2 DEF BrowserTypes
<1>b. Heard(calls[i], c)
  BY <1>2, <1>3 DEF Heard, Finished
<1>10. Moves(i, c)
  BY <1>b, <1>2, <1>3, <1>4, <1>5, <1>6, <1>7, <1>8, <1>9 DEF Moves
<1>11. QED BY <1>10, MoveKeeps

\* The cart is emptied.
LEMMA EmptyCartWritesKeeps ==
    ASSUME BrowserInv, NEW i \in DOMAIN calls, EmptyCartWrites(i)
    PROVE  BrowserInv'
<1>1. BrowserTypes /\ IsCall(calls[i])
  BY DEF BrowserInv, BrowserTypes
<1>c. PICK c : c = [calls[i] EXCEPT !.stage = "done", !.status = 204]
  OBVIOUS
<1>2. /\ calls[i].kind = "empty" /\ calls[i].stage = "asked"
      /\ calls' = [calls EXCEPT ![i] = c] /\ cart' = Empty
      /\ UNCHANGED <<charges, cache, selected, session, wanted, calm, behind>>
  BY <1>c DEF EmptyCartWrites, Step
<1>3. /\ c.kind = calls[i].kind /\ c.stage = "done" /\ c.status = 204 /\ c.here = calls[i].here
  BY <1>c, <1>1 DEF IsCall
<1>4. IsCall(c)
  BY <1>c, <1>1, <1>2 DEF IsCall
<1>5. Pending(calls[i]) => Pending(c)'
  BY <1>2, <1>3 DEF Pending, Empty
<1>6. InFlight(i)
  BY <1>2 DEF InFlight
<1>7. charges' \in Seq(Range(charges')) /\ ChargeInv'
  BY <1>2, <1>3, QuietMove DEF Unrefused
<1>8. cart' \in Carts /\ calm' \in BOOLEAN /\ (calm' => calm)
  BY <1>1, <1>2, CartFacts DEF BrowserTypes
<1>b. Heard(calls[i], c)
  BY <1>2, <1>3 DEF Heard, Finished
<1>9. Moves(i, c)
  BY <1>b, <1>2, <1>3, <1>4, <1>5, <1>6, <1>7, <1>8 DEF Moves
<1>10. QED BY <1>9, MoveKeeps

\* An order is prepared: what is in it is not looked at.
LEMMA PrepareKeeps ==
    ASSUME BrowserInv, NEW i \in DOMAIN calls, Prepare(i)
    PROVE  BrowserInv'
<1>1. BrowserTypes /\ IsCall(calls[i])
  BY DEF BrowserInv, BrowserTypes
<1> DEFINE o == [items |-> cart,
                 cost |-> [p \in DOMAIN cart |-> Convert(Price[p], calls[i].currency)],
                 shippingCost |-> Convert(Quote(cart), calls[i].currency)]
<1>2. /\ calls[i].kind = "order" /\ calls[i].stage = "asked"
      /\ calls' = [calls EXCEPT ![i] = [calls[i] EXCEPT !.stage = "prepared", !.order = o]]
      /\ UNCHANGED <<cart, charges, cache, selected, session, wanted, calm, behind>>
  BY DEF Prepare, Step
<1> HIDE DEF o
<1>c. PICK c : c = [calls[i] EXCEPT !.stage = "prepared", !.order = o]
  OBVIOUS
<1>3. /\ c.kind = "order" /\ c.stage = "prepared" /\ c.status = calls[i].status /\ c.here = calls[i].here
  BY <1>c, <1>1, <1>2 DEF IsCall
<1>4. IsCall(c)
  BY <1>c, <1>1, <1>2 DEF IsCall
<1>5. calls' = [calls EXCEPT ![i] = c]
  BY <1>c, <1>2
<1>6. Pending(calls[i]) => Pending(c)'
  BY <1>2, <1>3 DEF Pending
<1>7. InFlight(i)
  BY <1>2 DEF InFlight
<1>8. charges' \in Seq(Range(charges')) /\ ChargeInv'
  BY <1>2, <1>3, <1>5, QuietMove DEF Unrefused
<1>9. cart' \in Carts /\ calm' \in BOOLEAN /\ (calm' => calm)
  BY <1>1, <1>2 DEF BrowserTypes
<1>b. Heard(calls[i], c)
  BY <1>2, <1>3 DEF Heard, Finished
<1>10. Moves(i, c)
  BY <1>b, <1>2, <1>3, <1>4, <1>5, <1>6, <1>7, <1>8, <1>9 DEF Moves
<1>11. QED BY <1>10, MoveKeeps

\* What the payment service leaves of the call of an order: charged, refused or failed.
AfterCharge(i, c) ==
    /\ IsCall(c) /\ c.kind = "order" /\ c.here = calls[i].here
    /\ c.stage \in {"charged", "done"} /\ c.status \in {0, 422, 500}

\* The charge of an order that is prepared: accepted, or refused; or its answer is lost.
LEMMA ChargeKeeps ==
    ASSUME BrowserInv, NEW i \in DOMAIN calls, Charge(i) \/ ChargeUnanswered(i)
    PROVE  BrowserInv'
<1>1. BrowserTypes /\ ChargeInv /\ IsCall(calls[i]) /\ calls[i].kind = "order" /\ calls[i].stage = "prepared"
  <2>1. calls[i].kind = "order" /\ calls[i].stage = "prepared"
    BY DEF Charge, Refuse, Step, ChargeUnanswered
  <2>2. QED BY <2>1 DEF BrowserInv, BrowserTypes
<1>2. PICK charge : charge.call = i /\ (charges' = charges \/ charges' = Append(charges, charge))
  <2> DEFINE d == [call |-> i, currency |-> calls[i].currency, total |-> Charged(calls[i].order)]
  <2>1. charges' = charges \/ charges' = Append(charges, d)
    BY DEF Charge, ChargeUnanswered
  <2>2. d.call = i
    OBVIOUS
  <2> HIDE DEF d
  <2>3. QED BY <2>1, <2>2
<1>c. PICK c : c = calls'[i]
  OBVIOUS
<1>e. ASSUME NEW d, calls' = [calls EXCEPT ![i] = d]
      PROVE  c = d
  BY <1>c, <1>e
<1>g. ~behind' => ~behind
  BY DEF Charge, Refuse, Step, ChargeUnanswered, Failure
<1>f. calls' = [calls EXCEPT ![i] = c] /\ AfterCharge(i, c) /\ (charges' # charges => c.status # 422)
  <2>1. CASE calls' = [calls EXCEPT ![i] = [calls[i] EXCEPT !.stage = "charged"]]
    <3>1. c = [calls[i] EXCEPT !.stage = "charged"]
      BY <2>1, <1>e
    <3>2. AfterCharge(i, c) /\ c.status = 0
      BY <1>1, <3>1 DEF IsCall, AfterCharge
    <3>3. QED BY <2>1, <3>1, <3>2
  <2>2. CASE /\ calls' = [calls EXCEPT ![i] = [calls[i] EXCEPT !.stage = "done", !.status = 422]]
             /\ charges' = charges
    <3>1. c = [calls[i] EXCEPT !.stage = "done", !.status = 422]
      BY <2>2, <1>e
    <3>2. AfterCharge(i, c)
      BY <1>1, <3>1 DEF IsCall, AfterCharge
    <3>3. QED BY <2>2, <3>1, <3>2
  <2>3. CASE calls' = [calls EXCEPT ![i] = [calls[i] EXCEPT !.stage = "done", !.status = 500]]
    <3>1. c = [calls[i] EXCEPT !.stage = "done", !.status = 500]
      BY <2>3, <1>e
    <3>2. AfterCharge(i, c) /\ c.status = 500
      BY <1>1, <3>1 DEF IsCall, AfterCharge
    <3>3. QED BY <2>3, <3>1, <3>2
  <2>4. CASE Charge(i)
    BY <2>1, <2>2, <2>4 DEF Charge, Refuse, Step, StatusOf
  <2>5. CASE ChargeUnanswered(i)
    BY <2>3, <2>5 DEF ChargeUnanswered, Failure, Failed, StatusOf
  <2>6. QED BY <2>4, <2>5
<1>d. UNCHANGED <<cart, cache, selected, session, wanted, calm>>
  <2>1. CASE Charge(i)
    BY <2>1 DEF Charge, Refuse, Step
  <2>2. CASE ChargeUnanswered(i)
    <3>1. calm' = calm
      BY <1>1, <2>2, Zenon DEF ChargeUnanswered, Failure, BrowserTypes
    <3>2. UNCHANGED <<cart, cache, selected, session, wanted>>
      BY <2>2 DEF ChargeUnanswered, Failure
    <3>3. QED BY <3>1, <3>2
  <2>3. QED BY <2>1, <2>2
<1>3. /\ calls' = [calls EXCEPT ![i] = c]
      /\ IsCall(c) /\ c.kind = "order" /\ c.here = calls[i].here
      /\ c.stage \in {"charged", "done"} /\ c.status \in {0, 422, 500}
      /\ charges' # charges => c.status # 422
      /\ UNCHANGED <<cart, cache, selected, session, wanted, calm>>
  BY <1>f, <1>d DEF AfterCharge
<1>4. Pending(calls[i]) => Pending(c)'
  BY <1>1, <1>3 DEF Pending
<1>5. InFlight(i)
  BY <1>1 DEF InFlight
<1>6. charges' \in Seq(Range(charges')) /\ ChargeInv'
  <2>1. CASE charges' = charges
    BY <1>1, <1>3, <2>1, QuietMove DEF Unrefused
  <2>2. CASE charges' # charges
    <3>1. PICK t : t = calls'
      OBVIOUS
    <3>2. DOMAIN t = DOMAIN calls /\ t[i] = c /\ \A j \in DOMAIN calls : j # i => t[j] = calls[j]
      BY <1>1, <1>3, <3>1, Replaced DEF BrowserTypes
    <3>3. Unrefused(c)
      BY <1>3, <2>2 DEF Unrefused
    <3>4. \A j \in DOMAIN calls : Unrefused(calls[j]) => Unrefused(calls'[j])
      BY <3>1, <3>2, <3>3
    <3>5. charges' = Append(charges, charge) /\ charge.call = i
      BY <1>2, <2>2
    <3>6. DOMAIN calls = DOMAIN calls' /\ Unrefused(calls'[charge.call]) /\ charge.call \in DOMAIN calls
      BY <3>1, <3>2, <3>3, <3>5
    <3>7. QED BY <1>1, <3>4, <3>5, <3>6, ChargeMade
  <2>3. QED BY <2>1, <2>2
<1>7. cart' \in Carts /\ calm' \in BOOLEAN /\ (calm' => calm)
  BY <1>1, <1>3 DEF BrowserTypes
<1>8. /\ c.kind = calls[i].kind /\ c.stage \notin {"ok", "failed"}
      /\ cart' = cart /\ ~(calls[i].stage = "done" /\ calls[i].status = 200)
  BY <1>1, <1>3
<1>9. BrowserInv /\ UNCHANGED <<cache, selected, session, wanted>> /\ IsCall(c)
  BY <1>3
<1>10. calls' = [calls EXCEPT ![i] = c]
  BY <1>3
<1>b. Heard(calls[i], c)
  BY <1>1, <1>3, <1>g DEF Heard, Finished
<1>11. Moves(i, c)
  BY <1>b, <1>4, <1>5, <1>6, <1>7, <1>8, <1>9, <1>10 DEF Moves
<1>12. QED BY <1>11, MoveKeeps

\* The order is shipped and the cart emptied.
LEMMA ShipKeeps ==
    ASSUME BrowserInv, NEW i \in DOMAIN calls, Ship(i)
    PROVE  BrowserInv'
<1>1. BrowserTypes /\ IsCall(calls[i])
  BY DEF BrowserInv, BrowserTypes
<1>2. PICK c : c = [calls[i] EXCEPT !.stage = "done", !.status = 200]
  OBVIOUS
<1>3. /\ calls[i].kind = "order" /\ calls[i].stage = "charged"
      /\ calls' = [calls EXCEPT ![i] = c] /\ cart' = Empty
      /\ UNCHANGED <<charges, cache, selected, session, wanted, calm, behind>>
  BY <1>2 DEF Ship, Step
<1>4. IsCall(c) /\ c.kind = calls[i].kind /\ c.stage = "done" /\ c.status = 200 /\ c.here = calls[i].here
  BY <1>1, <1>2, <1>3 DEF IsCall
<1>5. Pending(calls[i]) => Pending(c)'
  BY <1>3, <1>4 DEF Pending, Empty
<1>6. InFlight(i)
  BY <1>3 DEF InFlight
<1>7. charges' \in Seq(Range(charges')) /\ ChargeInv'
  <2>1. Unrefused(c)
    BY <1>3, <1>4 DEF Unrefused
  <2>2. QED BY <1>3, <2>1, QuietMove
<1>8. cart' \in Carts /\ calm' \in BOOLEAN /\ (calm' => calm)
  BY <1>1, <1>3, CartFacts DEF BrowserTypes
<1>b. Heard(calls[i], c)
  BY <1>3, <1>4 DEF Heard, Finished
<1>9. Moves(i, c)
  BY <1>b, <1>3, <1>4, <1>5, <1>6, <1>7, <1>8 DEF Moves
<1>10. QED BY <1>9, MoveKeeps

\* Which statuses tell that a call has been made.
LEMMA MadeIs ==
    ASSUME NEW i \in DOMAIN calls, IsCall(calls[i])
    PROVE  Made(i) <=> Finished(calls[i])
<1>1. calls[i].status \in {0, 200, 204, 422, 500}
    /\ (calls[i].stage = "done" => calls[i].status # 0)
  BY DEF IsCall
<1>2. calls[i].stage = "done" => (calls[i].status < 300 <=> calls[i].status \in {200, 204})
  BY ONLY <1>1
<1>3. QED BY <1>2 DEF Made, Finished

\* A service fails, but for the payment service: a change or an order is answered as
\* failed, or an order as made although the cart is not emptied.
LEMMA FailureKeeps ==
    ASSUME BrowserInv, NEW i \in DOMAIN calls,
           ChangeFails(i) \/ PrepareFails(i) \/ ShipFails(i) \/ EmptyFails(i) \/ DetailsFail(i)
    PROVE  BrowserInv'
<1>1. BrowserTypes /\ IsCall(calls[i])
  BY DEF BrowserInv, BrowserTypes
<1>2. PICK status \in {200, 500} :
        /\ calls' = [calls EXCEPT ![i] = [calls[i] EXCEPT !.stage = "done", !.status = status]]
        /\ calls[i].stage \notin {"ok", "failed"} /\ UNCHANGED <<cart, charges, cache, selected, session, wanted>>
        /\ status = 500 \/ EmptyFails(i)
  BY DEF ChangeFails, PrepareFails, ShipFails, EmptyFails, DetailsFail, Failure, Failed, StatusOf
<1>3. PICK c : c = [calls[i] EXCEPT !.stage = "done", !.status = status]
  OBVIOUS
<1>4. IsCall(c) /\ c.kind = calls[i].kind /\ c.stage = "done" /\ c.status = status /\ c.here = calls[i].here
  BY <1>1, <1>2, <1>3 DEF IsCall
<1>5. /\ calm' \in BOOLEAN /\ (calm' => calm)
      /\ calm' => calls[i].kind = "order" /\ calls[i].stage \in {"asked", "charged"} /\ status = 500
  <2>1. CASE PrepareFails(i)
    <3>1. calm' = (calm /\ TRUE)
      BY <2>1 DEF PrepareFails, Failure
    <3>2. calls[i].kind = "order" /\ calls[i].stage \in {"asked", "charged"} /\ ~EmptyFails(i)
      BY <2>1 DEF PrepareFails, EmptyFails
    <3>3. calm' \in BOOLEAN /\ (calm' => calm)
      BY <1>1, <3>1 DEF BrowserTypes
    <3>4. QED BY <1>2, <3>2, <3>3
  <2>2. CASE ShipFails(i)
    <3>1. calm' = (calm /\ TRUE)
      BY <2>2 DEF ShipFails, Failure
    <3>2. calls' = [calls EXCEPT ![i] = [calls[i] EXCEPT !.stage = "done", !.status = 500]]
      BY <2>2 DEF ShipFails, Failure, Failed, StatusOf
    <3>3. calls[i].kind = "order" /\ calls[i].stage \in {"asked", "charged"}
      BY <2>2 DEF ShipFails
    <3>4. calm' \in BOOLEAN /\ (calm' => calm)
      BY <1>1, <3>1 DEF BrowserTypes
    <3>5. status = 500
      <4>1. PICK t : t = calls'
        OBVIOUS
      <4>2. t[i] = c
        BY <1>1, <1>2, <1>3, <4>1, Replaced DEF BrowserTypes
      <4>3. PICK d : d = [calls[i] EXCEPT !.stage = "done", !.status = 500]
        OBVIOUS
      <4>4. t[i] = d
        BY <1>1, <3>2, <4>1, <4>3, Replaced DEF BrowserTypes
      <4>5. d.status = 500
        BY <1>1, <4>3 DEF IsCall
      <4>6. QED BY <1>4, <4>2, <4>4, <4>5
    <3>6. QED BY <3>3, <3>4, <3>5
  <2>3. CASE ChangeFails(i) \/ EmptyFails(i) \/ DetailsFail(i)
    <3>1. calm' = (calm /\ FALSE)
      BY <2>3 DEF ChangeFails, EmptyFails, DetailsFail, Failure
    <3>2. QED BY <3>1
  <2>4. QED BY <2>1, <2>2, <2>3
<1>6. Pending(calls[i]) /\ calm' => Pending(c)'
  BY <1>2, <1>4, <1>5 DEF Pending
<1>7. InFlight(i)
  BY <1>2 DEF InFlight
<1>8. Unrefused(calls[i]) => Unrefused(c)
  BY <1>2, <1>4 DEF Unrefused
<1>9. calls' = [calls EXCEPT ![i] = c] /\ charges' = charges
  BY <1>2, <1>3
<1>10. charges' \in Seq(Range(charges')) /\ ChargeInv'
  BY <1>8, <1>9, QuietMove
<1>11. cart' \in Carts /\ cart' = cart /\ c.stage \notin {"ok", "failed"}
  BY <1>1, <1>2, <1>4 DEF BrowserTypes
<1>12. UNCHANGED <<cache, selected, session, wanted>>
  BY <1>2
<1>13. calm' => ~(calls[i].stage = "done" /\ calls[i].status = 200)
  BY <1>5
<1>14. calm' \in BOOLEAN /\ (calm' => calm)
  BY <1>5
<1>15. calm /\ calm' /\ Pending(calls[i]) => Pending(c)'
  BY <1>6
<1>16. calm' /\ c.kind = "order" /\ ~(c.stage = "done" /\ c.status = 200) =>
          cart' = cart /\ ~(calls[i].stage = "done" /\ calls[i].status = 200)
  BY <1>11, <1>13
<1>17. BrowserInv /\ IsCall(c) /\ c.kind = calls[i].kind
  BY <1>4
<1>b. Heard(calls[i], c)
  <2>1. behind' = (behind \/ Made(i)) /\ cart' = cart
    BY DEF ChangeFails, PrepareFails, ShipFails, EmptyFails, DetailsFail, Failure
  <2>2. Made(i) <=> Finished(calls[i])
    BY <1>1, MadeIs
  <2>3. QED BY <2>1, <2>2 DEF Heard
<1>18. Moves(i, c)
  BY <1>b, <1>7, <1>9, <1>10, <1>11, <1>12, <1>14, <1>15, <1>16, <1>17 DEF Moves
<1>19. QED BY <1>18, MoveKeeps
-------------------------------------------------------------------------------
(***************************************************************************)
(* The browser: fetches, pages and answers.                                *)
(***************************************************************************)

\* Only what the page has of the cart changes.
LEMMA CacheKeeps ==
    ASSUME BrowserInv, NEW u, u \in [Currencies -> Queries], cache' = u,
           UNCHANGED <<cart, charges, calls, selected, session, wanted, calm>>,
           ShownInv'
    PROVE  BrowserInv'
<1>1. BrowserTypes /\ ChargeInv /\ CalmInv
  BY DEF BrowserInv
<1>2. BrowserTypes'
  BY <1>1 DEF BrowserTypes
<1>3. ChargeInv'
  BY <1>1 DEF ChargeInv
<1>4. Settled' = Settled /\ \A i : InFlight(i)' = InFlight(i) /\ Pending(calls[i])' = Pending(calls[i])
  BY DEF Settled, InFlight, Pending
<1>5. CalmInv'
  BY <1>1, <1>4 DEF CalmInv
<1>6. QED BY <1>2, <1>3, <1>5 DEF BrowserInv

\* GET /api/cart reads the cart.
LEMMA ReadCartKeeps ==
    ASSUME BrowserInv, NEW c \in Currencies, ReadCart(c)
    PROVE  BrowserInv'
<1>1. BrowserTypes /\ ShownInv /\ cache \in [Currencies -> Queries] /\ selected \in Currencies
  BY DEF BrowserInv, BrowserTypes
<1> DEFINE f == [stage |-> "read", items |-> cart]
<1>2. f \in Fetched /\ f.stage = "read" /\ f.items = cart
  BY <1>1 DEF Fetched, BrowserTypes
<1>3. PICK u : u = cache' /\ u = [cache EXCEPT ![c].fetch = f]
  BY DEF ReadCart
<1> HIDE DEF f
<1>4. /\ u \in [Currencies -> Queries] /\ u[c].data = cache[c].data /\ u[c].fetch = f
      /\ \A d \in Currencies : d # c => u[d] = cache[d]
  BY <1>1, <1>2, <1>3, FetchChanged
<1>5. /\ behind' = (behind /\ c # selected)
      /\ UNCHANGED <<cart, charges, calls, selected, session, wanted, calm>>
  BY DEF ReadCart
<1>6. ShownInv'
  <2>1. CASE c = selected
    BY <1>2, <1>3, <1>4, <1>5, <2>1 DEF ShownInv, Fits
  <2>2. CASE c # selected
    <3>1. cache'[selected] = cache[selected]
      BY <1>1, <1>3, <1>4, <2>2
    <3>2. Clear' => Clear
      BY <1>5, <2>2 DEF Clear
    <3>3. QED BY <1>1, <1>5, <3>1, <3>2 DEF ShownInv, Fits
  <2>3. QED BY <2>1, <2>2
<1>7. QED BY <1>3, <1>4, <1>5, <1>6, CacheKeeps

\* Its answer fills the query.
LEMMA ShowCartKeeps ==
    ASSUME BrowserInv, NEW c \in Currencies, ShowCart(c)
    PROVE  BrowserInv'
<1>1. BrowserTypes /\ ShownInv /\ cache \in [Currencies -> Queries] /\ selected \in Currencies
  BY DEF BrowserInv, BrowserTypes
<1> DEFINE q == [data |-> cache[c].fetch.items, fetch |-> Idle]
<1>2. q \in Queries /\ q.data = cache[c].fetch.items /\ q.fetch.stage = "idle"
  <2>1. cache[c].fetch.items \in Carts
    BY <1>1, QueryTypes
  <2>2. QED BY <2>1, FetchConstants DEF Queries
<1>3. PICK u : u = cache' /\ u = [cache EXCEPT ![c] = q]
  BY DEF ShowCart
<1> HIDE DEF q
<1>4. u \in [Currencies -> Queries] /\ u[c] = q /\ \A d \in Currencies : d # c => u[d] = cache[d]
  BY <1>1, <1>2, <1>3
<1>5. cache[c].fetch.stage = "read"
      /\ UNCHANGED <<cart, charges, calls, selected, session, wanted, calm, behind>>
  BY DEF ShowCart
<1>6. ShownInv'
  <2>1. Clear' => Clear
    BY <1>5 DEF Clear
  <2>2. QED BY <1>1, <1>2, <1>3, <1>4, <1>5, <2>1 DEF ShownInv, Fits
<1>7. QED BY <1>3, <1>4, <1>5, <1>6, CacheKeeps

\* GET /api/cart fails: it is asked for again or given up.
LEMMA ReadFailsKeeps ==
    ASSUME BrowserInv, NEW c \in Currencies, ReadFails(c)
    PROVE  BrowserInv'
<1>1. BrowserTypes /\ ShownInv /\ cache \in [Currencies -> Queries] /\ selected \in Currencies
  BY DEF BrowserInv, BrowserTypes
<1>2. PICK f \in {Idle, Asked} :
        /\ cache' = [cache EXCEPT ![c].fetch = f]
        /\ ~behind' => ~behind /\ (c = selected => f = Asked)
  <2>1. CASE cache' = [cache EXCEPT ![c].fetch = Asked] /\ UNCHANGED behind
    BY <2>1, FetchConstants
  <2>2. CASE cache' = [cache EXCEPT ![c].fetch = Idle] /\ behind' = (behind \/ c = selected)
    BY <2>2
  <2>3. QED BY <2>1, <2>2 DEF ReadFails
<1>3. f \in Fetched /\ f.stage # "read" /\ (f = Asked => f.stage # "idle")
  BY FetchConstants
<1>4. PICK u : u = cache'
  OBVIOUS
<1>5. /\ u \in [Currencies -> Queries] /\ u[c].data = cache[c].data /\ u[c].fetch = f
      /\ \A d \in Currencies : d # c => u[d] = cache[d]
  BY <1>1, <1>2, <1>3, <1>4, FetchChanged
<1>6. UNCHANGED <<cart, charges, calls, selected, session, wanted, calm>>
  BY DEF ReadFails
<1>7. ShownInv'
  <2>1. SUFFICES ASSUME Clear' PROVE Fits'
    BY DEF ShownInv
  <2>2. ~behind' /\ Clear
    BY <1>2, <1>6, <2>1 DEF Clear
  <2>3. CASE c = selected
    BY <1>2, <1>3, <1>4, <1>5, <1>6, <2>2, <2>3 DEF Fits
  <2>4. CASE c # selected
    BY <1>1, <1>4, <1>5, <1>6, <2>2, <2>4 DEF ShownInv, Fits
  <2>5. QED BY <2>3, <2>4
<1>8. QED BY <1>4, <1>5, <1>6, <1>7, CacheKeeps

\* The shipping of the cart shown is answered.
LEMMA ShowShippingKeeps ==
    ASSUME BrowserInv, ShowShipping
    PROVE  BrowserInv'
<1>1. UNCHANGED <<cart, charges, calls, cache, selected, session, wanted, calm, behind>>
  BY DEF ShowShipping
<1>2. ShownInv' /\ cache \in [Currencies -> Queries]
  BY <1>1 DEF BrowserInv, BrowserTypes, ShownInv, Clear, Fits
<1>3. QED BY <1>1, <1>2, CacheKeeps

\* The window is focused.
LEMMA FocusKeeps ==
    ASSUME BrowserInv, Focus
    PROVE  BrowserInv'
<1>1. BrowserTypes /\ ShownInv /\ cache \in [Currencies -> Queries] /\ selected \in Currencies
  BY DEF BrowserInv, BrowserTypes
<1>2. PICK u : u = cache' /\ u = Fetch(selected)
  BY DEF Focus
<1>3. /\ u \in [Currencies -> Queries] /\ u[selected].fetch.stage # "idle"
      /\ u[selected].fetch.stage = "read" => u[selected].fetch = cache[selected].fetch
  BY <1>1, <1>2, FetchIs
<1>4. UNCHANGED <<cart, charges, calls, selected, session, wanted, calm, behind>>
  BY DEF Focus
<1>5. ShownInv'
  <2>1. Clear' => Clear
    BY <1>4 DEF Clear
  <2>2. QED BY <1>1, <1>2, <1>3, <1>4, <2>1 DEF ShownInv, Fits
<1>6. QED BY <1>2, <1>3, <1>4, <1>5, CacheKeeps

\* While nothing is on its way, nothing keeps the cart from being settled.
LEMMA NotCalling ==
    ASSUME ~Calling
    PROVE  Settled /\ \A i \in DOMAIN calls : ~InFlight(i) /\ ~Finished(calls[i])
  BY DEF Calling, Settled, InFlight, Finished

\* The currency switcher.
LEMMA SelectCurrencyKeeps ==
    ASSUME BrowserInv, NEW c \in Currencies, SelectCurrency(c)
    PROVE  BrowserInv'
<1>1. BrowserTypes /\ ChargeInv /\ CalmInv /\ cache \in [Currencies -> Queries]
  BY DEF BrowserInv, BrowserTypes
<1>2. PICK u : u = cache' /\ u = Fetch(c)
  BY DEF SelectCurrency
<1>3. /\ u \in [Currencies -> Queries]
      /\ u[c].data = cache[c].data /\ u[c].fetch.stage # "idle"
      /\ u[c].fetch.stage = "read" => u[c].fetch = cache[c].fetch
  BY <1>1, <1>2, FetchIs
<1>4. /\ selected' = c /\ session' = c
      /\ behind' = (behind \/ cache[c].fetch.stage = "read")
      /\ UNCHANGED <<cart, charges, calls, wanted>>
  BY DEF SelectCurrency
<1>5. calm' = (calm /\ ~Calling /\ ~FALSE)
  BY DEF SelectCurrency, Upset
<1>6. BrowserTypes'
  <2>1. calm' \in BOOLEAN
    BY <1>5
  <2>2. QED BY <1>1, <1>2, <1>3, <1>4, <2>1 DEF BrowserTypes
<1>7. ChargeInv'
  BY <1>1, <1>4 DEF ChargeInv
<1>8. CalmInv'
  <2>1. ASSUME calm'
        PROVE  cart' = wanted' /\ \A i \in DOMAIN calls' : ~InFlight(i)'
    <3>1. calm /\ ~Calling
      BY <1>5, <2>1
    <3>2. Settled /\ \A i \in DOMAIN calls : ~InFlight(i)
      BY <3>1, NotCalling
    <3>3. cart = wanted
      BY <1>1, <3>1, <3>2 DEF CalmInv
    <3>4. QED BY <1>4, <3>2, <3>3 DEF InFlight
  <2>2. QED BY <2>1 DEF CalmInv
<1>9. ShownInv'
  BY <1>2, <1>3, <1>4 DEF ShownInv, Clear, Fits
<1>10. QED BY <1>6, <1>7, <1>8, <1>9 DEF BrowserInv

\* The page is loaded anew.
LEMMA ReloadKeeps ==
    ASSUME BrowserInv, Reload
    PROVE  BrowserInv'
<1>1. BrowserTypes /\ ChargeInv /\ CalmInv
  BY DEF BrowserInv
<1>2. PICK t : t = calls' /\ t = [i \in DOMAIN calls |-> [calls[i] EXCEPT !.here = FALSE]]
  BY DEF Reload
<1>3. PICK u : u = cache'
           /\ u = [c \in Currencies |-> [data |-> None, fetch |-> IF c = session THEN Asked ELSE Idle]]
  BY DEF Reload
<1>4. selected' = session /\ UNCHANGED <<cart, charges, session, wanted>>
  BY DEF Reload
<1>5. calm' = (calm /\ ~Calling)
  BY DEF Reload
<1>6. ASSUME NEW i \in DOMAIN calls
      PROVE  IsCall(t[i]) /\ t[i].kind = calls[i].kind /\ t[i].stage = calls[i].stage
             /\ t[i].status = calls[i].status
  <2>1. PICK c : c = t[i]
    OBVIOUS
  <2>2. c = [calls[i] EXCEPT !.here = FALSE]
    BY <1>2, <2>1
  <2>3. IsCall(calls[i])
    BY <1>1 DEF BrowserTypes
  <2>4. IsCall(c) /\ c.kind = calls[i].kind /\ c.stage = calls[i].stage /\ c.status = calls[i].status
    BY <2>2, <2>3 DEF IsCall
  <2>5. QED BY <2>1, <2>4
<1>7. DOMAIN t = DOMAIN calls
  BY <1>2
<1>8. t \in Seq(Range(t))
  <2>1. PICK n \in Nat : DOMAIN calls = 1..n
    BY <1>1 DEF BrowserTypes
  <2> DEFINE R == {[calls[i] EXCEPT !.here = FALSE] : i \in 1..n}
  <2>2. t \in [1..n -> R]
    BY <1>2, <2>1
  <2> HIDE DEF R
  <2>3. t \in Seq(R)
    BY <2>2
  <2>4. QED BY <2>3, OwnRange
<1>9. /\ u \in [Currencies -> Queries] /\ session \in Currencies
      /\ \A c \in Currencies : u[c].fetch.stage # "read"
      /\ u[session].fetch.stage # "idle"
  <2>1. session \in Currencies
    BY <1>1 DEF BrowserTypes
  <2>2. ASSUME NEW c \in Currencies
        PROVE  /\ u[c] \in Queries /\ u[c].fetch.stage # "read"
               /\ c = session => u[c].fetch.stage # "idle"
    <3>1. u[c].data = None /\ u[c].fetch = IF c = session THEN Asked ELSE Idle
      BY <1>3
    <3>2. u[c] \in Queries
      BY <1>3, FetchConstants DEF Queries
    <3>3. QED BY <3>1, <3>2, FetchConstants
  <2>3. u \in [Currencies -> Queries]
    BY <1>3, <2>2
  <2>4. QED BY <2>1, <2>2, <2>3
<1>10. BrowserTypes'
  <2>1. calm' \in BOOLEAN
    BY <1>5
  <2>2. \A i \in DOMAIN calls' : IsCall(calls'[i])
    BY <1>2, <1>6, <1>7
  <2>3. calls' \in Seq(Range(calls'))
    BY <1>2, <1>8
  <2>4. QED BY <1>1, <1>3, <1>4, <1>9, <2>1, <2>2, <2>3 DEF BrowserTypes, IsCall
<1>11. ChargeInv'
  <2>1. \A i \in DOMAIN calls : Unrefused(calls[i]) => Unrefused(calls'[i])
    BY <1>2, <1>6 DEF Unrefused
  <2>2. QED BY <1>1, <1>2, <1>4, <1>7, <2>1, ChargesKept
<1>12. CalmInv'
  <2>1. ASSUME calm'
        PROVE  cart' = wanted' /\ \A i \in DOMAIN calls' : ~InFlight(i)'
    <3>1. calm /\ ~Calling
      BY <1>5, <2>1
    <3>2. Settled /\ \A i \in DOMAIN calls : ~InFlight(i)
      BY <3>1, NotCalling
    <3>3. \A i \in DOMAIN calls' : ~InFlight(i)'
      BY <1>2, <1>6, <1>7, <3>2 DEF InFlight
    <3>4. QED BY <1>1, <1>4, <3>1, <3>2, <3>3 DEF CalmInv
  <2>2. QED BY <2>1 DEF CalmInv
<1>13. ShownInv'
  BY <1>3, <1>4, <1>9 DEF ShownInv, Fits
<1>14. QED BY <1>10, <1>11, <1>12, <1>13 DEF BrowserInv

\* The call has its answer.
LEMMA AnsweredKeeps ==
    ASSUME BrowserInv, NEW i \in DOMAIN calls, Answer(i)
    PROVE  BrowserInv'
<1>1. /\ BrowserTypes /\ ChargeInv /\ CalmInv /\ ShownInv /\ IsCall(calls[i])
      /\ cache \in [Currencies -> Queries] /\ selected \in Currencies
  BY DEF BrowserInv, BrowserTypes
<1>2. PICK c : c = [calls[i] EXCEPT !.stage = IF calls[i].status < 300 THEN "ok" ELSE "failed"]
  OBVIOUS
<1>3. /\ calls[i].stage = "done" /\ calls' = [calls EXCEPT ![i] = c]
      /\ UNCHANGED <<cart, charges, selected, session, calm>>
  BY <1>2 DEF Answer
<1>4. /\ IsCall(c) /\ c.stage \in {"ok", "failed"}
      /\ Unrefused(calls[i]) => Unrefused(c)
  BY <1>1, <1>2, <1>3 DEF IsCall, Unrefused
<1>5. ChargeInv'
  BY <1>3, <1>4, QuietMove
<1>6. PICK t : t = calls'
  OBVIOUS
<1>7. /\ t \in Seq(Range(t)) /\ DOMAIN t = DOMAIN calls /\ t[i] = c
      /\ \A j \in DOMAIN calls : j # i => t[j] = calls[j]
  BY <1>1, <1>3, <1>6, Replaced DEF BrowserTypes
<1>8. \A j \in DOMAIN calls' : IsCall(calls'[j])
  BY <1>1, <1>4, <1>6, <1>7 DEF BrowserTypes
<1>9. CASE calls[i].here /\ calls[i].status < 300
  <2>1. PICK u : u = cache' /\ u = Invalidate
    BY <1>9 DEF Answer
  <2>2. /\ wanted' = IF calls[i].kind = "order" THEN Empty ELSE wanted
        /\ behind' = (behind \/ (cache[selected].data = None /\ cache[selected].fetch.stage = "read"))
    BY <1>9 DEF Answer
  <2>3. u \in [Currencies -> Queries]
    BY <1>1, <2>1, InvalidateIs
  <2>4. wanted' \in Carts
    BY <1>1, <2>2, CartFacts DEF BrowserTypes
  <2>5. BrowserTypes'
    BY <1>1, <1>3, <1>6, <1>7, <1>8, <2>1, <2>3, <2>4 DEF BrowserTypes, IsCall
  <2>6. ASSUME calm
        PROVE  cart' = wanted' /\ \A j \in DOMAIN calls' : ~InFlight(j)'
    <3>1. InFlight(i)
      BY <1>3 DEF InFlight
    <3>2. \A j \in DOMAIN calls : InFlight(j) => j = i
      BY <1>1, <2>6, <3>1 DEF CalmInv
    <3>3. \A j \in DOMAIN calls' : ~InFlight(j)'
      BY <1>4, <1>6, <1>7, <3>2 DEF InFlight
    <3>4. Pending(calls[i])
      BY <1>1, <2>6, <3>1 DEF CalmInv
    <3>5. calls[i].kind = "order" => cart = Empty
      <4>1. calls[i].kind = "order" => calls[i].status = 200
        BY <1>1, <1>3, <1>9 DEF IsCall
      <4>2. QED BY <1>3, <3>4, <4>1 DEF Pending
    <3>6. calls[i].kind # "order" => cart = wanted
      BY <1>1, <1>3, <3>4 DEF Pending, IsCall
    <3>7. QED BY <1>3, <2>2, <3>3, <3>5, <3>6
  <2>7. CalmInv'
    BY <1>3, <2>6 DEF CalmInv
  <2>8. ShownInv'
    <3>1. SUFFICES ASSUME ~behind'
                   PROVE  u[selected].fetch.stage = "asked"
      BY <1>3, <2>1 DEF ShownInv, Clear, Fits
    <3>2. ~(cache[selected].data = None /\ cache[selected].fetch.stage = "read")
      BY <2>2, <3>1
    <3>3. QED BY <1>1, <2>1, <3>2, InvalidateIs
  <2>9. QED BY <1>5, <2>5, <2>7, <2>8 DEF BrowserInv
<1>10. CASE ~(calls[i].here /\ calls[i].status < 300)
  <2>1. UNCHANGED <<cache, wanted>> /\ behind' = (behind \/ Made(i))
    BY <1>10 DEF Answer
  <2>2. BrowserTypes'
    BY <1>1, <1>3, <1>6, <1>7, <1>8, <2>1 DEF BrowserTypes, IsCall
  <2>3. ASSUME calm
        PROVE  Settled /\ \A j \in DOMAIN calls' : ~InFlight(j)'
    <3>1. InFlight(i)
      BY <1>3 DEF InFlight
    <3>2. \A j \in DOMAIN calls : InFlight(j) => j = i
      BY <1>1, <2>3, <3>1 DEF CalmInv
    <3>3. \A j \in DOMAIN calls' : ~InFlight(j)'
      BY <1>4, <1>6, <1>7, <3>2 DEF InFlight
    <3>4. Pending(calls[i])
      BY <1>1, <2>3, <3>1 DEF CalmInv
    <3>5. calls[i].status \in {422, 500}
      BY <1>1, <1>3, <1>10, <3>4 DEF IsCall, Pending
    <3>6. calls[i].kind = "order" /\ calls[i].status # 200
      BY <1>1, <1>3, <3>4, <3>5 DEF IsCall, Pending
    <3>7. QED BY <3>2, <3>3, <3>6 DEF Settled
  <2>4. CalmInv'
    BY <1>1, <1>3, <2>1, <2>3 DEF CalmInv
  <2>5. ShownInv'
    <3>1. SUFFICES ASSUME Clear' PROVE Clear
      BY <1>1, <1>3, <2>1 DEF ShownInv, Fits
    <3>2. ~behind /\ ~Made(i)
      BY <2>1, <3>1 DEF Clear
    <3>3. ~Finished(calls[i])
      BY <1>1, <3>2, MadeIs
    <3>4. QED BY <1>6, <1>7, <3>1, <3>2, <3>3 DEF Clear
  <2>6. QED BY <1>5, <2>2, <2>4, <2>5 DEF BrowserInv
<1>11. QED BY <1>9, <1>10
-------------------------------------------------------------------------------
(***************************************************************************)
(* The browser: the shopper's changes and orders.                          *)
(***************************************************************************)

\* Once a shopper who waits has every answer, the cart is the one wanted.
LEMMA WaitingIsWanted ==
    ASSUME BrowserInv, calm, ~Calling
    PROVE  cart = wanted
  BY NotCalling DEF BrowserInv, CalmInv

\* While nothing is on its way, and no answer is lost, the page shows the cart there is.
LEMMA QuietShows ==
    ASSUME BrowserInv, ~behind, ~Calling, ~Fetching
    PROVE  Shown = cart
<1>1. BrowserTypes /\ ShownInv /\ selected \in Currencies /\ cart \in Carts
  BY DEF BrowserInv, BrowserTypes
<1>2. cache[selected].fetch.stage = "idle"
  BY <1>1 DEF Fetching
<1>3. cache[selected].data = cart
  BY <1>1, <1>2, NotCalling DEF ShownInv, Clear, Fits
<1>4. cart # None
  BY <1>1, CartFacts
<1>5. QED BY <1>3, <1>4 DEF Shown

\* A call is sent: if the shopper waited, what it will make of the cart is wanted.
LEMMA AskKeeps ==
    ASSUME BrowserInv, NEW call, Ask(call), IsCall(call), call.stage = "asked", call.here,
           wanted' \in Carts,
           call.kind = "add" /\ cart = wanted => wanted' = Added(cart, call.product, call.quantity),
           call.kind = "pick" /\ cart = wanted /\ Shown = cart =>
               wanted' = Added(cart, call.product, call.quantity),
           call.kind = "empty" => wanted' = Empty,
           call.kind = "order" => wanted' = wanted
    PROVE  BrowserInv'
<1>1. BrowserTypes /\ ChargeInv /\ CalmInv /\ ShownInv /\ calls \in Seq(Range(calls))
  BY DEF BrowserInv, BrowserTypes
<1>2. PICK t : t = calls' /\ t = Append(calls, call)
  BY DEF Ask
<1>3. UNCHANGED <<cart, charges, cache, selected, session, behind>>
  BY DEF Ask
<1>4. calm' = (calm /\ ~(Calling \/ Fetching) /\ ~(behind /\ call.kind \in {"pick", "order"}))
  BY DEF Ask, Upset
<1>5. /\ t \in Seq(Range(t)) /\ \A j \in DOMAIN calls : t[j] = calls[j]
      /\ DOMAIN t = DOMAIN calls \cup {Len(t)} /\ Len(t) \notin DOMAIN calls /\ t[Len(t)] = call
  <2>1. calls \in Seq(Range(calls)) /\ Extends(t, calls, call)
    BY <1>1, <1>2 DEF Extends
  <2>2. t \in Seq(Range(t))
    BY ONLY <2>1, Appended, Zenon
  <2>3. \A j \in DOMAIN calls : t[j] = calls[j]
    BY <2>1, Appended
  <2>4. DOMAIN t = DOMAIN calls \cup {Len(t)} /\ t[Len(t)] = call
    BY ONLY <2>1, Appended, Zenon
  <2>5. Len(t) \notin DOMAIN calls
    BY ONLY <2>1, Appended, Zenon
  <2>6. QED BY <2>2, <2>3, <2>4, <2>5
<1>6. BrowserTypes'
  <2>1. \A j \in DOMAIN calls' : IsCall(calls'[j])
    BY <1>1, <1>2, <1>5 DEF BrowserTypes
  <2>2. calm' \in BOOLEAN
    BY <1>4
  <2>3. calls' \in Seq(Range(calls'))
    BY <1>2, <1>5
  <2>4. QED BY <1>1, <1>3, <2>1, <2>2, <2>3 DEF BrowserTypes, IsCall
<1>7. ChargeInv'
  <2>1. DOMAIN calls \subseteq DOMAIN calls'
        /\ \A j \in DOMAIN calls : Unrefused(calls[j]) => Unrefused(calls'[j])
    BY <1>2, <1>5
  <2>2. QED BY <1>1, <1>3, <2>1, ChargesKept
<1>8. CalmInv'
  <2>1. ASSUME calm'
        PROVE  /\ \A j \in DOMAIN calls' : InFlight(j)' => j = Len(t)
               /\ Pending(call)'
               /\ Settled' => cart' = wanted'
    <3>1. calm /\ ~Calling /\ ~Fetching /\ (call.kind \in {"pick", "order"} => ~behind)
      BY <1>4, <2>1
    <3>2. cart = wanted /\ (call.kind = "pick" => Shown = cart)
      BY <3>1, WaitingIsWanted, QuietShows
    <3>3. \A j \in DOMAIN calls' : InFlight(j)' => j = Len(t)
      BY <1>2, <1>5, <3>1, NotCalling DEF InFlight
    <3>4. Pending(call)'
      BY <1>3, <3>2 DEF Pending
    <3>5. ASSUME Settled'
          PROVE  cart' = wanted'
      <4>1. InFlight(Len(t))' /\ Len(t) \in DOMAIN calls' /\ calls'[Len(t)] = call
        BY <1>2, <1>5 DEF InFlight
      <4>2. call.kind = "order"
        BY <3>5, <4>1 DEF Settled
      <4>3. QED BY <1>3, <3>2, <4>2
    <3>6. QED BY <3>3, <3>4, <3>5
  <2>2. calm' => /\ \A j \in DOMAIN calls' : InFlight(j)' => Pending(calls[j])'
                 /\ \A j, k \in DOMAIN calls' : InFlight(j)' /\ InFlight(k)' => j = k
    BY <1>2, <1>5, <2>1
  <2>3. QED BY <2>1, <2>2 DEF CalmInv
<1>9. ShownInv'
  <2>1. Clear' => Clear
    BY <1>2, <1>3, <1>5 DEF Clear
  <2>2. QED BY <1>1, <1>3, <2>1 DEF ShownInv, Fits
<1>10. QED BY <1>6, <1>7, <1>8, <1>9 DEF BrowserInv

\* A call of the shopper.
LEMMA CallIs ==
    ASSUME BrowserTypes, NEW kind \in {"add", "pick", "empty", "order"}, NEW p, NEW q, NEW card,
           kind \in {"add", "pick"} => p \in Products /\ q \in Int,
           NEW c, c = Call(kind, p, q, card)
    PROVE  /\ IsCall(c) /\ c.kind = kind /\ c.product = p /\ c.quantity = q
           /\ c.stage = "asked" /\ c.here
<1> DEFINE told == kind = "order" /\ quoted
           total == IF kind = "order" THEN CartTotal(Shown, selected, ShippingShown(Shown, selected, quoted))
                    ELSE Zero
<1>1. c = [kind |-> kind, product |-> p, quantity |-> q, card |-> card, currency |-> selected,
           stage |-> "asked", items |-> Empty, quoted |-> told, shown |-> total, order |-> None,
           status |-> 0, here |-> TRUE]
  BY DEF Call
<1> HIDE DEF told, total
<1>2. QED BY <1>1, CartFacts DEF IsCall

\* What the page shows is a cart.
LEMMA ShownIsCart ==
    ASSUME BrowserTypes
    PROVE  Shown \in Carts
  BY QueryTypes, CartFacts DEF BrowserTypes, Shown

\* The quantity selector sends the difference.
LEMMA PickIsDelta ==
    ASSUME NEW items \in Carts, NEW p \in Products, NEW n \in Int
    PROVE  /\ [Added(items, p, 0) EXCEPT ![p] = n] = Added(items, p, n - Quantity(items, p))
           /\ [Added(items, p, 0) EXCEPT ![p] = n] \in Carts
<1> DEFINE a == Added(items, p, 0)
           b == Added(items, p, n - Quantity(items, p))
           S == DOMAIN items \cup {p}
<1>1. Quantity(items, p) \in Int /\ \A r : Quantity(items, r) \in Int
  BY CartFacts
<1>2. a = [r \in S |-> Quantity(items, r) + IF r = p THEN 0 ELSE 0]
  BY DEF Added
<1>3. b = [r \in S |-> Quantity(items, r) + IF r = p THEN n - Quantity(items, p) ELSE 0]
  BY DEF Added
<1>4. DOMAIN a = S /\ DOMAIN b = S
  BY <1>2, <1>3
<1>5. ASSUME NEW r \in S
      PROVE  [a EXCEPT ![p] = n][r] = b[r]
  <2>1. a[r] = Quantity(items, r) + 0
    BY <1>2
  <2>2. b[r] = Quantity(items, r) + IF r = p THEN n - Quantity(items, p) ELSE 0
    BY <1>3
  <2>3. [a EXCEPT ![p] = n][r] = IF r = p THEN n ELSE a[r]
    BY <1>4
  <2>4. QED BY <1>1, <2>1, <2>2, <2>3
<1>6. [a EXCEPT ![p] = n] = [r \in S |-> [a EXCEPT ![p] = n][r]] /\ b = [r \in S |-> b[r]]
  BY <1>2, <1>3, <1>4
<1>7. b \in Carts
  BY <1>1, CartFacts
<1> HIDE DEF a, b, S
<1>8. [a EXCEPT ![p] = n] = b
  BY <1>5, <1>6
<1>9. QED BY <1>7, <1>8 DEF a, b

\* Each of the shopper's buttons.
LEMMA ShopperKeeps ==
    ASSUME BrowserInv,
           \/ \E p \in Products, q \in Quantities : AddToCart(p, q) \/ Pick(p, q)
           \/ EmptyCart
           \/ \E card \in Cards : PlaceOrder(card)
    PROVE  BrowserInv'
<1>1. BrowserTypes /\ wanted \in Carts
  BY DEF BrowserInv, BrowserTypes
<1>2. ASSUME NEW p \in Products, NEW q \in Quantities, AddToCart(p, q)
      PROVE  BrowserInv'
  <2>1. PICK c : c = Call("add", p, q, None)
    OBVIOUS
  <2>2. q \in Int
    BY QuantityAssumption
  <2>3. IsCall(c) /\ c.kind = "add" /\ c.product = p /\ c.quantity = q /\ c.stage = "asked" /\ c.here
    BY <1>1, <2>1, <2>2, CallIs
  <2>4. Ask(c) /\ wanted' = Added(wanted, p, q)
    BY <1>2, <2>1 DEF AddToCart
  <2>5. wanted' \in Carts
    BY <1>1, <2>2, <2>4, CartFacts
  <2>6. cart = wanted => wanted' = Added(cart, c.product, c.quantity)
    BY <2>3, <2>4
  <2>7. QED BY <2>3, <2>4, <2>5, <2>6, AskKeeps
<1>3. ASSUME NEW p \in Products, NEW n \in Quantities, Pick(p, n)
      PROVE  BrowserInv'
  <2>1. PICK c : c = Call("pick", p, Delta(p, n), None)
    OBVIOUS
  <2>2. n \in Int /\ Delta(p, n) \in Int
    BY <1>1, ShownIsCart, CartFacts, QuantityAssumption DEF Delta
  <2>3. IsCall(c) /\ c.kind = "pick" /\ c.product = p /\ c.quantity = Delta(p, n) /\ c.stage = "asked" /\ c.here
    BY <1>1, <2>1, <2>2, CallIs
  <2>4. Ask(c) /\ wanted' = [Added(wanted, p, 0) EXCEPT ![p] = n]
    BY <1>3, <2>1 DEF Pick
  <2>5. wanted' = Added(wanted, p, n - Quantity(wanted, p)) /\ wanted' \in Carts
    BY <1>1, <2>2, <2>4, PickIsDelta
  <2>6. (cart = wanted /\ Shown = cart) => wanted' = Added(cart, c.product, c.quantity)
    BY <2>3, <2>5 DEF Delta
  <2>7. QED BY <2>3, <2>4, <2>5, <2>6, AskKeeps
<1>4. ASSUME EmptyCart
      PROVE  BrowserInv'
  <2>1. PICK c : c = Call("empty", None, 0, None)
    OBVIOUS
  <2>2. IsCall(c) /\ c.kind = "empty" /\ c.stage = "asked" /\ c.here
    BY <1>1, <2>1, CallIs
  <2>3. Ask(c) /\ wanted' = Empty
    BY <1>4, <2>1 DEF EmptyCart
  <2>4. wanted' \in Carts
    BY <2>3, CartFacts
  <2>5. QED BY <2>2, <2>3, <2>4, AskKeeps
<1>5. ASSUME NEW card \in Cards, PlaceOrder(card)
      PROVE  BrowserInv'
  <2>1. PICK c : c = Call("order", None, 0, card)
    OBVIOUS
  <2>2. IsCall(c) /\ c.kind = "order" /\ c.stage = "asked" /\ c.here
    BY <1>1, <2>1, CallIs
  <2>3. Ask(c) /\ wanted' = wanted
    BY <1>5, <2>1 DEF PlaceOrder
  <2>4. wanted' \in Carts
    BY <1>1, <2>3
  <2>5. QED BY <2>2, <2>3, <2>4, AskKeeps
<1>6. QED BY <1>2, <1>3, <1>4, <1>5
-------------------------------------------------------------------------------
(***************************************************************************)
(* The shop.                                                               *)
(***************************************************************************)

\* A step of the browser is one of these.
LEMMA BrowserKeeps ==
    ASSUME BrowserInv, Next
    PROVE  BrowserInv'
<1>1. CASE Shop
  BY <1>1, ShopperKeeps, SelectCurrencyKeeps, FocusKeeps, ReloadKeeps, Zenon DEF Shop
<1>2. CASE Serve
  BY <1>2, ReadCartKeeps, ShowCartKeeps, ShowShippingKeeps, AddItemReadsKeeps, AddItemWritesKeeps, EmptyCartWritesKeeps,
     PrepareKeeps, ChargeKeeps, ShipKeeps, AnsweredKeeps, Zenon DEF Serve
<1>3. CASE Fail
  BY <1>3, ReadFailsKeeps, ChargeKeeps, FailureKeeps, Zenon DEF Fail
<1>4. QED BY <1>1, <1>2, <1>3 DEF Next

\* A step of the one client leaves what is said of the other.
LEMMA OthersStep ==
    /\ BrowserInv /\ UNCHANGED vars => BrowserInv'
    /\ AppInv /\ UNCHANGED appVars => AppInv'
<1>1. ASSUME BrowserInv, UNCHANGED vars
      PROVE  BrowserInv'
  <2>1. UNCHANGED <<cart, charges, calls, cache, selected, session, wanted, calm, behind>>
    BY <1>1 DEF vars
  <2>2. BrowserTypes /\ ChargeInv /\ CalmInv /\ ShownInv
    BY <1>1 DEF BrowserInv
  <2>3. BrowserTypes'
    BY <2>1, <2>2 DEF BrowserTypes
  <2>4. ChargeInv'
    BY <2>1, <2>2 DEF ChargeInv
  <2>5. Settled' = Settled /\ \A i : InFlight(i)' = InFlight(i) /\ Pending(calls[i])' = Pending(calls[i])
    BY <2>1 DEF Settled, InFlight, Pending
  <2>6. CalmInv'
    BY <2>1, <2>2, <2>5 DEF CalmInv
  <2>7. ShownInv'
    BY <2>1, <2>2 DEF ShownInv, Clear, Fits
  <2>8. QED BY <2>3, <2>4, <2>6, <2>7 DEF BrowserInv
<1>2. ASSUME AppInv, UNCHANGED appVars
      PROVE  AppInv'
  <2>1. UNCHANGED <<user, launches, proxy, moves, applying, carts, users, data, requests, asked, owed, troubles>>
    BY <1>2 DEF appVars
  <2>2. AppTypes /\ SessionInv /\ FetchInv
    BY <1>2 DEF AppInv
  <2>3. AppTypes'
    BY <2>1, <2>2 DEF AppTypes
  <2>4. SessionInv'
    BY <2>1, <2>2 DEF SessionInv
  <2>5. M!Fetches' = M!Fetches /\ M!Shown' = M!Shown /\ M!CartOf(proxy, user)' = M!CartOf(proxy, user)
        /\ Followed' = Followed
    BY <2>1 DEF M!Fetches, M!Shown, M!CartOf, Followed
  <2>6. FetchInv'
    BY <2>2, <2>5 DEF FetchInv
  <2>7. QED BY <2>3, <2>4, <2>6 DEF AppInv
<1>3. QED BY <1>1, <1>2

\* The first page is being fetched.
LEMMA BrowserBegins ==
    ASSUME Init
    PROVE  BrowserInv
<1>1. /\ cart = Empty /\ charges = <<>> /\ calls = <<>> /\ wanted = Empty /\ calm = TRUE
      /\ selected = Default /\ session = Default
      /\ cache = [c \in Currencies |-> [data |-> None, fetch |-> IF c = Default THEN Asked ELSE Idle]]
  BY DEF Init
<1>2. ASSUME NEW c \in Currencies
      PROVE  /\ cache[c] \in Queries /\ cache[c].fetch.stage # "read"
             /\ c = Default => cache[c].fetch.stage # "idle"
  <2>1. cache[c].data = None /\ cache[c].fetch = IF c = Default THEN Asked ELSE Idle
    BY <1>1
  <2>2. cache[c] \in Queries
    BY <1>1, FetchConstants DEF Queries
  <2>3. QED BY <2>1, <2>2, FetchConstants
<1>3. cache \in [Currencies -> Queries]
  BY <1>1, <1>2
<1>4. DOMAIN calls = {} /\ DOMAIN charges = {}
  BY <1>1
<1>5. calls \in Seq(Range(calls)) /\ charges \in Seq(Range(charges))
  BY <1>1
<1>6. BrowserTypes
  BY <1>1, <1>3, <1>4, <1>5, CartFacts, CurrencyAssumption DEF BrowserTypes
<1>7. ChargeInv
  BY <1>4 DEF ChargeInv
<1>8. CalmInv
  BY <1>1, <1>4 DEF CalmInv
<1>9. ShownInv
  BY <1>1, <1>2, CurrencyAssumption DEF ShownInv, Fits
<1>10. QED BY <1>6, <1>7, <1>8, <1>9 DEF BrowserInv

\* So is the first page of the app.
LEMMA AppBegins ==
    ASSUME M!Init
    PROVE  AppInv
<1> DEFINE f == M!Request(1, "fetch")
<1>1. /\ user = None /\ launches = 1 /\ proxy = Home /\ moves = 0 /\ applying = 0
      /\ carts = [s \in Servers |-> [u \in {} |-> 0]] /\ users = {}
      /\ data = None /\ requests = {f} /\ asked = 1 /\ owed = FALSE /\ troubles = 0
  BY DEF M!Init
<1>2. f \in Requests /\ f.kind = "fetch" /\ f.stage = "asked"
  BY NewRequest
<1> HIDE DEF f
<1>3. \A s \in Servers : \E U \in SUBSET users : carts[s] \in [U -> Nat]
  <2>1. ASSUME NEW s \in Servers
        PROVE  carts[s] \in [{} -> Nat]
    BY <1>1
  <2>2. QED BY <1>1, <2>1
<1>4. owed \in BOOLEAN /\ DOMAIN carts = Servers
  BY <1>1
<1>5. AppTypes
  BY <1>1, <1>2, <1>3, <1>4, AppAssumption DEF AppTypes
<1>6. SessionInv
  BY <1>1, <1>2 DEF SessionInv
<1>7. M!Fetches \subseteq {f} /\ \A r \in M!Fetches : r.stage = "asked"
  BY <1>1, <1>2 DEF M!Fetches
<1>8. M!Fetches # {}
  BY <1>1, <1>2, NewRequest DEF M!Fetches, f
<1>9. FetchInv
  BY <1>7, <1>8 DEF FetchInv
<1>10. QED BY <1>5, <1>6, <1>9 DEF AppInv

\* The inductive invariant of the shop: that a call of a waiting shopper makes of the
\* cart what is wanted, that the app stores one session, and that a fetch follows
\* every change, at every step of the routes, the services and both clients.
THEOREM InductiveInvariant == ShopsSpec => []IInv
<1>1. ShopsInit => IInv
  BY BrowserBegins, AppBegins DEF ShopsInit, IInv
<1>2. IInv /\ [ShopsNext]_<<client, vars, appVars>> => IInv'
  <2> SUFFICES ASSUME IInv, [ShopsNext]_<<client, vars, appVars>>
               PROVE  BrowserInv' /\ AppInv'
    BY DEF IInv
  <2>1. BrowserInv /\ AppInv
    BY DEF IInv
  <2>2. CASE BrowserStep
    <3>1. Next /\ UNCHANGED appVars
      BY <2>2 DEF BrowserStep
    <3>2. QED BY <2>1, <3>1, BrowserKeeps, OthersStep
  <2>3. CASE AppStep
    <3>1. M!Next /\ UNCHANGED vars
      BY <2>3 DEF AppStep
    <3>2. QED BY <2>1, <3>1, AppKeeps, OthersStep
  <2>4. CASE UNCHANGED <<client, vars, appVars>>
    BY <2>1, <2>4, OthersStep
  <2>5. QED BY <2>2, <2>3, <2>4 DEF ShopsNext
<1>3. QED BY <1>1, <1>2, PTL DEF ShopsSpec

\* A shopper who waits for each change gets the cart picked, however the fetches, their
\* failures, the differences the selector sends and the failures of an order fall; once
\* nothing is on its way the pages show the cart, unless an answer was lost or the last
\* fetch of it given up, also to who did not wait; and the app shows the cart of its session in the shop it is set to (Cart.provider.tsx of both).
THEOREM ShownOnceQuiet == ShopsSpec => []CartIsShown
<1>1. IInv => CartIsShown
  <2> SUFFICES ASSUME IInv
               PROVE  CartIsAsPicked /\ M!CartIsOfTheShop
    BY DEF CartIsShown
  <2>1. BrowserInv /\ AppInv
    BY DEF IInv
  <2>2. CartIsAsPicked
    BY <2>1, WaitingIsWanted, QuietShows DEF CartIsAsPicked, Quiet
  <2>3. M!CartIsOfTheShop
    <3> SUFFICES ASSUME M!Quiet, ~owed
                 PROVE  M!Shown = M!CartOf(proxy, user)
      BY DEF M!CartIsOfTheShop
    <3>1. Followed
      BY DEF Followed, M!Quiet
    <3>2. M!Fetches = {}
      BY DEF M!Quiet, M!Fetches
    <3>3. QED BY <2>1, <3>1, <3>2 DEF AppInv, FetchInv
  <2>4. QED BY <2>2, <2>3
<1>2. QED BY <1>1, InductiveInvariant, PTL

\* The phone sends every request for the one session it keeps, although requests store
\* one at the same time and the app may be ended in between (Session.gateway.ts).
THEOREM OneSessionKept == ShopsSpec => []OneSession
<1>1. IInv => OneSession
  BY DEF IInv, AppInv, SessionInv, OneSession, M!OneSession
<1>2. QED BY <1>1, InductiveInvariant, PTL

\* Who is told that the payment was refused has not been charged, also when an answer
\* of the payment service or of shipping is lost (pages/api/checkout.ts).
THEOREM ToldRefusedIsUncharged == ShopsSpec => []RefusedIsNotCharged
<1>1. IInv => RefusedIsNotCharged
  BY DEF IInv, BrowserInv, ChargeInv, Unrefused, RefusedIsNotCharged
<1>2. QED BY <1>1, InductiveInvariant, PTL
-------------------------------------------------------------------------------
(***************************************************************************)
(* Sums over a finite set: induction, and that a fold over one is computed by *)
(* taking out one element after the other.                                 *)
(***************************************************************************)

\* Every set of natural numbers has a least element.
LEMMA Minimum ==
    ASSUME NEW T \in SUBSET Nat, T # {}
    PROVE  \E x \in T : \A y \in T : x <= y
<1> DEFINE R == OpToRel(<, Nat)
<1>1. IsWellFoundedOn(R, Nat)
  BY NatLessThanWellFounded
<1>2. \A x, y \in Nat : y < x => <<y, x>> \in R
  BY DEF OpToRel
<1> HIDE DEF R
<1>3. PICK x \in T : \A y \in T : ~ (<<y, x>> \in R)
  BY <1>1, WFMin
<1>4. \A y \in T : ~(y < x)
  BY <1>2, <1>3
<1>5. QED BY <1>4

\* A set of numbers that has zero and every next number has them all.
LEMMA Climb ==
    ASSUME NEW T, 0 \in T, \A n \in Nat : n \in T => n + 1 \in T
    PROVE  Nat \subseteq T
<1> DEFINE W == Nat \ T
<1>1. SUFFICES ASSUME W # {} PROVE FALSE
  OBVIOUS
<1>2. W \in SUBSET Nat
  OBVIOUS
<1> HIDE DEF W
<1>3. PICK m \in W : \A k \in W : m <= k
  BY <1>1, <1>2, Minimum
<1>4. m \in Nat /\ m \notin T /\ m # 0
  BY <1>3 DEF W
<1>5. m - 1 \in Nat /\ m - 1 \notin W
  BY <1>3, <1>4
<1>6. m - 1 \in T
  BY <1>5 DEF W
<1>7. m - 1 + 1 \in T
  BY <1>5, <1>6
<1>8. QED BY <1>4, <1>7

\* The element a fold takes out of a set.
Taken(s) == CHOOSE x \in s : TRUE
Rest(s) == s \ {Taken(s)}

\* It is one of them.
LEMMA TakenIsIn == ASSUME NEW s, s # {} PROVE Taken(s) \in s
  BY DEF Taken

\* One element is left out.
LEMMA RestIsSmaller ==
    ASSUME NEW s, s # {}, IsFiniteSet(s)
    PROVE  /\ IsFiniteSet(Rest(s)) /\ Taken(s) \in s /\ Rest(s) \subseteq s
           /\ Cardinality(s) \in Nat \ {0} /\ Cardinality(Rest(s)) = Cardinality(s) - 1
<1>1. Taken(s) \in s
  BY TakenIsIn
<1>2. IsFiniteSet(Rest(s)) /\ Cardinality(Rest(s)) = Cardinality(s) - 1
  BY <1>1, FS_RemoveElement DEF Rest
<1>3. Cardinality(s) \in Nat /\ Cardinality(s) # 0
  BY FS_CardinalityType, FS_EmptySet
<1>4. QED BY <1>1, <1>2, <1>3 DEF Rest

\* Induction over the subsets of a finite set.
LEMMA SetInduction ==
    ASSUME NEW S, IsFiniteSet(S), NEW T, {} \in T,
           \A s \in SUBSET S : s # {} /\ Rest(s) \in T => s \in T
    PROVE  SUBSET S \subseteq T
<1> DEFINE N == {n \in Nat : \A s \in SUBSET S : Cardinality(s) = n => s \in T}
<1>1. \A s \in SUBSET S : IsFiniteSet(s) /\ Cardinality(s) \in Nat
  BY FS_Subset, FS_CardinalityType
<1>2. 0 \in N
  BY <1>1, FS_EmptySet
<1>3. ASSUME NEW n \in Nat, n \in N
      PROVE  n + 1 \in N
  <2>1. ASSUME NEW s \in SUBSET S, Cardinality(s) = n + 1
        PROVE  s \in T
    <3>1. s # {}
      BY <2>1, FS_EmptySet
    <3>2. Rest(s) \in SUBSET S /\ Cardinality(Rest(s)) = n
      BY <1>1, <2>1, <3>1, RestIsSmaller
    <3>3. QED BY <1>3, <3>1, <3>2
  <2>2. QED BY <2>1
<1>4. Nat \subseteq N
  <2> HIDE DEF N
  <2>1. QED BY <1>2, <1>3, Climb
<1>5. QED BY <1>1, <1>4

\* A function on the subsets of a set by the element taken out first.
IsFold(g, S, base, op) ==
    g = [s \in SUBSET S |-> IF s = {} THEN base ELSE op[<<Taken(s), g[Rest(s)]>>]]

\* There is such a function, by induction over the size of its sets.
LEMMA FoldExists ==
    ASSUME NEW S, IsFiniteSet(S), NEW V, NEW base \in V, NEW op \in [S \X V -> V]
    PROVE  \E g \in [SUBSET S -> V] : IsFold(g, S, base, op)
<1> DEFINE Upto(g, n) == \A s \in SUBSET S : Cardinality(s) <= n =>
                g[s] = IF s = {} THEN base ELSE op[<<Taken(s), g[Rest(s)]>>]
           N == {n \in Nat : \E g \in [SUBSET S -> V] : Upto(g, n)}
<1>1. \A s \in SUBSET S : IsFiniteSet(s) /\ Cardinality(s) \in Nat
  BY FS_Subset, FS_CardinalityType
<1>2. 0 \in N
  <2> DEFINE g == [s \in SUBSET S |-> base]
  <2>1. g \in [SUBSET S -> V]
    OBVIOUS
  <2>2. Upto(g, 0)
    <3>1. \A s \in SUBSET S : Cardinality(s) <= 0 => s = {}
      BY <1>1, FS_EmptySet
    <3>2. QED BY <3>1
  <2> HIDE DEF g
  <2>3. QED BY <2>1, <2>2
<1>3. ASSUME NEW n \in Nat, n \in N
      PROVE  n + 1 \in N
  <2>1. PICK g \in [SUBSET S -> V] : Upto(g, n)
    BY <1>3
  <2> DEFINE f == [s \in SUBSET S |-> IF s = {} THEN base ELSE op[<<Taken(s), g[Rest(s)]>>]]
  <2>2. \A s \in SUBSET S : s # {} => /\ Taken(s) \in S /\ Rest(s) \in SUBSET S
                                      /\ Cardinality(Rest(s)) = Cardinality(s) - 1
    BY <1>1, RestIsSmaller
  <2>3. f \in [SUBSET S -> V]
    BY <2>2
  <2>4. \A s \in SUBSET S : Cardinality(s) <= n => f[s] = g[s]
    BY <2>1
  <2>5. \A s \in SUBSET S : f[s] = IF s = {} THEN base ELSE op[<<Taken(s), g[Rest(s)]>>]
    OBVIOUS
  <2> HIDE DEF f
  <2>6. Upto(f, n + 1)
    <3> TAKE s \in SUBSET S
    <3> HAVE Cardinality(s) <= n + 1
    <3>1. CASE s = {}
      BY <2>5, <3>1
    <3>2. CASE s # {}
      <4>1. Rest(s) \in SUBSET S /\ Cardinality(Rest(s)) <= n
        BY <1>1, <2>2, <3>2
      <4>2. f[Rest(s)] = g[Rest(s)]
        BY <2>4, <4>1
      <4>3. QED BY <2>5, <3>2, <4>2
    <3>3. QED BY <3>1, <3>2
  <2>7. QED BY <2>3, <2>6
<1>4. Nat \subseteq N
  <2> HIDE DEF N
  <2>1. QED BY <1>2, <1>3, Climb
<1>5. Cardinality(S) \in Nat
  BY <1>1
<1>6. PICK g \in [SUBSET S -> V] : Upto(g, Cardinality(S))
  BY <1>4, <1>5
<1>7. \A s \in SUBSET S : Cardinality(s) <= Cardinality(S)
  BY FS_Subset
<1>8. \A s \in SUBSET S : g[s] = IF s = {} THEN base ELSE op[<<Taken(s), g[Rest(s)]>>]
  BY <1>6, <1>7
<1>9. QED BY <1>8 DEF IsFold

\* The sum of a function over a set.
SumOf(val, S) == MapThenSumSet(LAMBDA p : val[p], S)

\* What the sum over every subset is.
IsSum(g, S, val) == g = [s \in SUBSET S |-> IF s = {} THEN 0 ELSE val[Taken(s)] + g[Rest(s)]]

\* A sum over a set is got by taking out one element after the other.
LEMMA Summed ==
    ASSUME NEW S, IsFiniteSet(S), NEW val \in [S -> Int]
    PROVE  \E g \in [SUBSET S -> Int] :
             /\ g[{}] = 0 /\ \A s \in SUBSET S : s # {} => g[s] = val[Taken(s)] + g[Rest(s)]
             /\ SumOf(val, S) = g[S]
<1> DEFINE op == [x \in S \X Int |-> val[x[1]] + x[2]]
<1>1. op \in [S \X Int -> Int]
  OBVIOUS
<1>2. \A p \in S, n \in Int : op[<<p, n>>] = val[p] + n
  OBVIOUS
<1> HIDE DEF op
<1>3. PICK h \in [SUBSET S -> Int] : IsFold(h, S, 0, op)
  <2>1. 0 \in Int
    OBVIOUS
  <2>2. QED BY <2>1, <1>1, FoldExists
<1>4. \A s \in SUBSET S : s # {} => Taken(s) \in S /\ Rest(s) \in SUBSET S
  BY FS_Subset, RestIsSmaller
<1>5. IsSum(h, S, val)
  <2>1. \A s \in SUBSET S : s # {} => op[<<Taken(s), h[Rest(s)]>>] = val[Taken(s)] + h[Rest(s)]
    BY <1>2, <1>4
  <2>2. QED BY <1>3, <2>1 DEF IsFold, IsSum
<1>6. PICK g : IsSum(g, S, val) /\ SumOf(val, S) = g[S]
  <2>1. IsSum(CHOOSE g : IsSum(g, S, val), S, val)
    BY <1>5, Zenon
  <2>2. SumOf(val, S) = (CHOOSE g : IsSum(g, S, val))[S]
    BY DEF SumOf, MapThenSumSet, MapThenFoldSet, IsSum, Taken, Rest
  <2>3. QED BY <2>1, <2>2, Zenon
<1>7. g[{}] = 0 /\ \A s \in SUBSET S : s # {} => g[s] = val[Taken(s)] + g[Rest(s)]
  BY <1>6 DEF IsSum
<1>8. DOMAIN g = SUBSET S
  BY <1>6 DEF IsSum
<1>9. g \in [SUBSET S -> Int]
  <2> DEFINE T == {s \in SUBSET S : g[s] \in Int}
  <2>1. {} \in T
    BY <1>7
  <2>2. \A s \in SUBSET S : s # {} /\ Rest(s) \in T => s \in T
    BY <1>4, <1>7
  <2>3. SUBSET S \subseteq T
    <3> HIDE DEF T
    <3>1. QED BY <2>1, <2>2, SetInduction
  <2>4. g = [s \in SUBSET S |-> g[s]]
    BY <1>6 DEF IsSum
  <2>5. QED BY <2>3, <2>4
<1>10. QED BY <1>6, <1>7, <1>9, Zenon

\* Term by term, c is k times b and a.
Linear(c, b, k, a, S) ==
    /\ a \in [S -> Int] /\ b \in [S -> Int] /\ c \in [S -> Int] /\ k \in Int
    /\ \A p \in S : c[p] = b[p] * k + a[p]

\* Sums are linear.
LEMMA SumLinear ==
    ASSUME NEW S, IsFiniteSet(S), NEW a, NEW b, NEW c, NEW k, Linear(c, b, k, a, S)
    PROVE  /\ SumOf(a, S) \in Int /\ SumOf(b, S) \in Int
           /\ SumOf(c, S) = SumOf(b, S) * k + SumOf(a, S)
<1>0. a \in [S -> Int] /\ b \in [S -> Int] /\ c \in [S -> Int]
  BY DEF Linear
<1>1. PICK f \in [SUBSET S -> Int] :
             /\ f[{}] = 0 /\ \A s \in SUBSET S : s # {} => f[s] = a[Taken(s)] + f[Rest(s)]
             /\ SumOf(a, S) = f[S]
  BY <1>0, Summed
<1>2. PICK g \in [SUBSET S -> Int] :
             /\ g[{}] = 0 /\ \A s \in SUBSET S : s # {} => g[s] = b[Taken(s)] + g[Rest(s)]
             /\ SumOf(b, S) = g[S]
  BY <1>0, Summed
<1>3. PICK h \in [SUBSET S -> Int] :
             /\ h[{}] = 0 /\ \A s \in SUBSET S : s # {} => h[s] = c[Taken(s)] + h[Rest(s)]
             /\ SumOf(c, S) = h[S]
  BY <1>0, Summed
<1>4. k \in Int
  BY DEF Linear
<1> DEFINE T == {s \in SUBSET S : h[s] = g[s] * k + f[s]}
<1>5. {} \in T
  BY <1>1, <1>2, <1>3, <1>4
<1>6. ASSUME NEW s \in SUBSET S, s # {}, Rest(s) \in T
      PROVE  s \in T
  <2>1. Taken(s) \in S /\ Rest(s) \in SUBSET S
    BY <1>6, FS_Subset, RestIsSmaller
  <2>2. PICK x \in Int, y \in Int, u \in Int, v \in Int :
          x = a[Taken(s)] /\ y = b[Taken(s)] /\ u = f[Rest(s)] /\ v = g[Rest(s)]
    BY <1>0, <2>1
  <2>3. h[s] = (y * k + x) + (v * k + u)
    BY <1>3, <1>6, <2>1, <2>2 DEF Linear
  <2>4. f[s] = x + u /\ g[s] = y + v
    BY <1>1, <1>2, <1>6, <2>2
  <2>5. (y * k + x) + (v * k + u) = (y + v) * k + (x + u)
    BY <1>4
  <2>6. QED BY <2>3, <2>4, <2>5
<1>7. SUBSET S \subseteq T
  <2> HIDE DEF T
  <2>1. QED BY <1>5, <1>6, SetInduction
<1>8. S \in T
  BY <1>7
<1>9. f[S] \in Int /\ g[S] \in Int
  OBVIOUS
<1>10. QED BY <1>1, <1>2, <1>3, <1>8, <1>9

\* Sums differ by what their terms differ by.
LEMMA SumBetween ==
    ASSUME NEW S, IsFiniteSet(S), NEW a \in [S -> Int], NEW b \in [S -> Int], NEW c \in [S -> Int],
           \A p \in S : a[p] - b[p] \in 0..c[p]
    PROVE  /\ SumOf(a, S) \in Int /\ SumOf(b, S) \in Int
           /\ SumOf(a, S) - SumOf(b, S) \in 0..SumOf(c, S)
<1>1. PICK f \in [SUBSET S -> Int] :
             /\ f[{}] = 0 /\ \A s \in SUBSET S : s # {} => f[s] = a[Taken(s)] + f[Rest(s)]
             /\ SumOf(a, S) = f[S]
  BY Summed
<1>2. PICK g \in [SUBSET S -> Int] :
             /\ g[{}] = 0 /\ \A s \in SUBSET S : s # {} => g[s] = b[Taken(s)] + g[Rest(s)]
             /\ SumOf(b, S) = g[S]
  BY Summed
<1>3. PICK h \in [SUBSET S -> Int] :
             /\ h[{}] = 0 /\ \A s \in SUBSET S : s # {} => h[s] = c[Taken(s)] + h[Rest(s)]
             /\ SumOf(c, S) = h[S]
  BY Summed
<1> DEFINE T == {s \in SUBSET S : f[s] - g[s] \in 0..h[s]}
<1>5. {} \in T
  BY <1>1, <1>2, <1>3
<1>6. ASSUME NEW s \in SUBSET S, s # {}, Rest(s) \in T
      PROVE  s \in T
  <2>1. Taken(s) \in S /\ Rest(s) \in SUBSET S
    BY <1>6, FS_Subset, RestIsSmaller
  <2>2. /\ f[s] = a[Taken(s)] + f[Rest(s)] /\ g[s] = b[Taken(s)] + g[Rest(s)]
        /\ h[s] = c[Taken(s)] + h[Rest(s)]
    BY <1>1, <1>2, <1>3, <1>6
  <2>3. a[Taken(s)] - b[Taken(s)] \in 0..c[Taken(s)] /\ f[Rest(s)] - g[Rest(s)] \in 0..h[Rest(s)]
    BY <1>6, <2>1
  <2>4. QED BY <2>1, <2>2, <2>3
<1>7. SUBSET S \subseteq T
  <2> HIDE DEF T
  <2>1. QED BY <1>5, <1>6, SetInduction
<1>8. S \in T
  BY <1>7
<1>9. QED BY <1>1, <1>2, <1>3, <1>8
-------------------------------------------------------------------------------
(***************************************************************************)
(* Amounts: what checkout and the pages compute, by value.                 *)
(***************************************************************************)

Amounts == [units : Int, nanos : Int]

\* An amount with as many units as fit.
Norm(v) == [units |-> v \div Nano, nanos |-> v % Nano]

\* Euclid: the quotient and the rest of a number, and of the number and some units more.
LEMMA Carry ==
    ASSUME NEW u \in Int, NEW n \in Int
    PROVE  /\ (u * Nano + n) \div Nano = u + n \div Nano
           /\ (u * Nano + n) % Nano = n % Nano
           /\ n \div Nano \in Int /\ n % Nano \in Int /\ n = (n \div Nano) * Nano + (n % Nano)
<1>1. Nano \in Nat \ {0}
  BY MoneyAssumption
<1>2. n = (n \div Nano) * Nano + (n % Nano) /\ n \div Nano \in Int /\ n % Nano \in 0..Nano - 1
  BY <1>1
<1>3. PICK q \in Int, r \in 0..Nano - 1 : q = n \div Nano /\ r = n % Nano /\ n = q * Nano + r
  BY <1>2
<1>4. u * Nano + n = (u + q) * Nano + r
  BY <1>1, <1>3
<1>5. \A a \in Int, b \in 0..Nano - 1 : (a * Nano + b) \div Nano = a /\ (a * Nano + b) % Nano = b
  BY <1>1
<1>6. u + q \in Int
  BY <1>3
<1>7. (u * Nano + n) \div Nano = u + q /\ (u * Nano + n) % Nano = r
  BY <1>3, <1>4, <1>5, <1>6
<1>8. QED BY <1>2, <1>3, <1>7

\* It is an amount of that value.
LEMMA NormValue ==
    ASSUME NEW v \in Int
    PROVE  Norm(v) \in Amounts /\ Value(Norm(v)) = v
  BY Carry DEF Norm, Amounts, Value

\* money.Sum adds values.
LEMMA SumValue ==
    ASSUME NEW l \in Amounts, NEW r \in Amounts
    PROVE  /\ Value(l) \in Int /\ Sum2(l, r) = Norm(Value(l) + Value(r))
           /\ Sum2(l, r) \in Amounts /\ Value(Sum2(l, r)) = Value(l) + Value(r)
<1>1. /\ l.units \in Int /\ l.nanos \in Int /\ r.units \in Int /\ r.nanos \in Int /\ Nano \in Nat
  BY MoneyAssumption DEF Amounts
<1>2. PICK u \in Int, n \in Int : u = l.units + r.units /\ n = l.nanos + r.nanos
  BY <1>1
<1>3. Value(l) \in Int /\ Value(r) \in Int /\ Value(l) + Value(r) = u * Nano + n
  BY <1>1, <1>2 DEF Value
<1>4. Sum2(l, r) = Norm(Value(l) + Value(r))
  BY <1>2, <1>3, Carry DEF Sum2, Norm
<1>5. QED BY <1>3, <1>4, NormValue

\* money.MultiplySlow multiplies them, but by none.
LEMMA Times ==
    ASSUME NEW m \in Amounts, NEW n \in Nat
    PROVE  /\ MultiplySlow(m, n) \in Amounts
           /\ n > 0 => Value(MultiplySlow(m, n)) = n * Value(m)
<1> DEFINE IsOut(g) == g = [k \in 0..n |-> IF k <= 1 THEN m ELSE Sum2(g[k - 1], m)]
           h == [k \in 0..n |-> IF k <= 1 THEN m ELSE Norm(k * Value(m))]
<1>1. Value(m) \in Int
  BY SumValue
<1>2. IsOut(h)
  <2>1. ASSUME NEW k \in 0..n, ~ (k <= 1)
        PROVE  Norm(k * Value(m)) = Sum2(h[k - 1], m)
    <3>1. k - 1 \in 0..n /\ k - 1 >= 1 /\ (k - 1) * Value(m) \in Int
      BY <2>1, <1>1
    <3>2. h[k - 1] \in Amounts /\ Value(h[k - 1]) = (k - 1) * Value(m)
      <4>1. CASE k - 1 <= 1
        <5>1. k - 1 = 1 /\ h[k - 1] = m
          BY <3>1, <4>1
        <5>2. (k - 1) * Value(m) = Value(m)
          BY <5>1, <1>1
        <5>3. QED BY <5>1, <5>2
      <4>2. CASE ~ (k - 1 <= 1)
        <5>1. h[k - 1] = Norm((k - 1) * Value(m))
          BY <3>1, <4>2
        <5>2. QED BY <5>1, <3>1, NormValue
      <4>3. QED BY <4>1, <4>2
    <3> HIDE DEF h
    <3>3. Sum2(h[k - 1], m) = Norm((k - 1) * Value(m) + Value(m))
      BY <3>2, SumValue
    <3>4. (k - 1) * Value(m) + Value(m) = k * Value(m)
      BY <1>1
    <3>5. QED BY <3>3, <3>4
  <2>2. QED BY <2>1
<1>3. PICK g : IsOut(g) /\ MultiplySlow(m, n) = g[n]
  <2>1. IsOut(CHOOSE g : IsOut(g))
    <3> HIDE DEF h, IsOut
    <3>1. QED BY <1>2, Zenon
  <2>2. MultiplySlow(m, n) = (CHOOSE g : IsOut(g))[n]
    BY DEF MultiplySlow
  <2>3. QED BY <2>1, <2>2
<1> DEFINE T == {k \in Nat : k <= n => g[k] \in Amounts /\ (k > 0 => Value(g[k]) = k * Value(m))}
<1>4. g[0] = m /\ (1 <= n => g[1] = m) /\ \A k \in 0..n : k > 1 => g[k] = Sum2(g[k - 1], m)
  BY <1>3
<1> HIDE DEF h, IsOut
<1>5. 0 \in T
  BY <1>4
<1>6. ASSUME NEW k \in Nat, k \in T
      PROVE  k + 1 \in T
  <2>1. SUFFICES ASSUME k + 1 <= n
                 PROVE  g[k + 1] \in Amounts /\ Value(g[k + 1]) = (k + 1) * Value(m)
    OBVIOUS
  <2>2. CASE k = 0
    BY <1>1, <1>4, <2>1, <2>2
  <2>3. CASE k > 0
    <3>1. g[k] \in Amounts /\ Value(g[k]) = k * Value(m)
      BY <1>6, <2>1, <2>3
    <3>2. k + 1 \in 0..n /\ k + 1 > 1 /\ (k + 1) - 1 = k
      BY <2>1, <2>3
    <3>3. g[k + 1] = Sum2(g[k], m)
      BY <1>4, <3>2
    <3>4. Value(g[k + 1]) = k * Value(m) + Value(m) /\ g[k + 1] \in Amounts
      BY <3>1, <3>3, SumValue
    <3>5. k * Value(m) + Value(m) = (k + 1) * Value(m)
      BY <1>1
    <3>6. QED BY <3>4, <3>5
  <2>4. QED BY <2>2, <2>3
<1>7. Nat \subseteq T
  <2> HIDE DEF T
  <2>1. QED BY <1>5, <1>6, Climb
<1>8. QED BY <1>3, <1>7

\* The charge for the items alone.
Items(cost, items) ==
    FoldSet(LAMBDA p, total : Sum2(total, MultiplySlow(cost[p], items[p])), Zero, DOMAIN items)

\* What checkout adds up, piece after piece, is the sum of price times quantity.
LEMMA ItemsValue ==
    ASSUME NEW S, IsFiniteSet(S), NEW items \in [S -> Nat \ {0}], NEW cost \in [S -> Amounts],
           NEW val \in [S -> Int], \A p \in S : val[p] = items[p] * Value(cost[p])
    PROVE  Items(cost, items) \in Amounts /\ Value(Items(cost, items)) = SumOf(val, S)
<1> DEFINE op == [x \in S \X Amounts |-> Sum2(x[2], MultiplySlow(cost[x[1]], items[x[1]]))]
           Is(g) == g = [s \in SUBSET S |-> IF s = {} THEN Zero
                            ELSE Sum2(g[Rest(s)], MultiplySlow(cost[Taken(s)], items[Taken(s)]))]
<1>1. ASSUME NEW p \in S
      PROVE  /\ MultiplySlow(cost[p], items[p]) \in Amounts
             /\ Value(MultiplySlow(cost[p], items[p])) = val[p]
  <2>1. items[p] \in Nat /\ items[p] > 0 /\ cost[p] \in Amounts
    OBVIOUS
  <2>2. QED BY <2>1, Times
<1>2. op \in [S \X Amounts -> Amounts]
  BY <1>1, SumValue
<1>3. \A p \in S, m \in Amounts : op[<<p, m>>] = Sum2(m, MultiplySlow(cost[p], items[p]))
  OBVIOUS
<1>4. Zero \in Amounts /\ Value(Zero) = 0
  BY MoneyAssumption DEF Zero, Amounts, Value
<1> HIDE DEF op
<1>5. PICK h \in [SUBSET S -> Amounts] : IsFold(h, S, Zero, op)
  BY <1>2, <1>4, FoldExists
<1>6. \A s \in SUBSET S : s # {} => Taken(s) \in S /\ Rest(s) \in SUBSET S
  BY FS_Subset, RestIsSmaller
<1>7. Is(h)
  <2>1. \A s \in SUBSET S : s # {} => op[<<Taken(s), h[Rest(s)]>>] =
            Sum2(h[Rest(s)], MultiplySlow(cost[Taken(s)], items[Taken(s)]))
    BY <1>3, <1>6
  <2>2. QED BY <1>5, <2>1 DEF IsFold
<1>8. PICK g : Is(g) /\ Items(cost, items) = g[S]
  <2>1. Is(CHOOSE g : Is(g))
    <3> HIDE DEF Is
    <3>1. QED BY <1>7, Zenon
  <2>2. DOMAIN items = S
    OBVIOUS
  <2>3. Items(cost, items) = (CHOOSE g : Is(g))[S]
    BY <2>2 DEF Items, FoldSet, MapThenFoldSet, Taken, Rest
  <2>4. QED BY <2>1, <2>3
<1>9. g[{}] = Zero /\ \A s \in SUBSET S : s # {} =>
        g[s] = Sum2(g[Rest(s)], MultiplySlow(cost[Taken(s)], items[Taken(s)]))
  BY <1>8
<1> HIDE DEF Is
<1>10. PICK f \in [SUBSET S -> Int] :
             /\ f[{}] = 0 /\ \A s \in SUBSET S : s # {} => f[s] = val[Taken(s)] + f[Rest(s)]
             /\ SumOf(val, S) = f[S]
  BY Summed
<1> DEFINE T == {s \in SUBSET S : g[s] \in Amounts /\ Value(g[s]) = f[s]}
<1>11. {} \in T
  BY <1>4, <1>9, <1>10
<1>12. ASSUME NEW s \in SUBSET S, s # {}, Rest(s) \in T
      PROVE  s \in T
  <2>1. Taken(s) \in S /\ Rest(s) \in SUBSET S
    BY <1>6, <1>12
  <2>2. PICK m \in Amounts : m = MultiplySlow(cost[Taken(s)], items[Taken(s)]) /\ Value(m) = val[Taken(s)]
    BY <1>1, <2>1
  <2>3. g[s] = Sum2(g[Rest(s)], m) /\ f[s] = val[Taken(s)] + f[Rest(s)]
    BY <1>9, <1>10, <1>12, <2>2
  <2>4. g[Rest(s)] \in Amounts /\ Value(g[Rest(s)]) = f[Rest(s)]
    BY <1>12
  <2>5. g[s] \in Amounts /\ Value(g[s]) = f[Rest(s)] + val[Taken(s)]
    BY <2>2, <2>3, <2>4, SumValue
  <2>6. QED BY <2>1, <2>3, <2>5
<1>13. SUBSET S \subseteq T
  <2> HIDE DEF T
  <2>1. QED BY <1>11, <1>12, SetInduction
<1>14. S \in T
  BY <1>13
<1>15. QED BY <1>8, <1>10, <1>14

\* The four sums of the order page and of the cart page.
OrderNanos(o, S) == MapThenSumSet(LAMBDA p : o.cost[p].nanos * o.items[p], S)
OrderUnits(o, S) == MapThenSumSet(LAMBDA p : o.cost[p].units * o.items[p], S)
CartNanos(items, currency, S) == MapThenSumSet(LAMBDA p : ProductPrice(p, currency).nanos * items[p], S)
CartUnits(items, currency, S) == MapThenSumSet(LAMBDA p : ProductPrice(p, currency).units * items[p], S)

\* Their terms, collected in functions.
OrderTerms(a, b, o, S) ==
    \A p \in S : a[p] = o.cost[p].nanos * o.items[p] /\ b[p] = o.cost[p].units * o.items[p]
CartTerms(a, b, items, currency, S) ==
    \A p \in S : /\ a[p] = ProductPrice(p, currency).nanos * items[p]
                 /\ b[p] = ProductPrice(p, currency).units * items[p]

\* The sums of the order page, of terms collected in a function.
LEMMA OrderSums ==
    ASSUME NEW S, NEW o, NEW a, NEW b, OrderTerms(a, b, o, S)
    PROVE  /\ OrderNanos(o, S) = SumOf(a, S)
           /\ OrderUnits(o, S) = SumOf(b, S)
<1> DEFINE A(g) == g = [s \in SUBSET S |-> IF s = {} THEN 0
                          ELSE o.cost[Taken(s)].nanos * o.items[Taken(s)] + g[Rest(s)]]
           B(g) == g = [s \in SUBSET S |-> IF s = {} THEN 0
                          ELSE o.cost[Taken(s)].units * o.items[Taken(s)] + g[Rest(s)]]
<1>1. \A s \in SUBSET S : s # {} => Taken(s) \in S
  BY DEF Taken
<1>2. \A g : (A(g) <=> IsSum(g, S, a)) /\ (B(g) <=> IsSum(g, S, b))
  BY <1>1 DEF IsSum, OrderTerms
<1>3. /\ (CHOOSE g : A(g)) = (CHOOSE g : IsSum(g, S, a))
      /\ (CHOOSE g : B(g)) = (CHOOSE g : IsSum(g, S, b))
  <2> HIDE DEF A, B
  <2> QED BY <1>2, Zenon
<1>4. SumOf(a, S) = (CHOOSE g : IsSum(g, S, a))[S] /\ SumOf(b, S) = (CHOOSE g : IsSum(g, S, b))[S]
  BY DEF SumOf, MapThenSumSet, MapThenFoldSet, IsSum, Taken, Rest
<1>5. OrderNanos(o, S) = (CHOOSE g : A(g))[S]
  BY DEF OrderNanos, MapThenSumSet, MapThenFoldSet, Taken, Rest
<1>6. OrderUnits(o, S) = (CHOOSE g : B(g))[S]
  BY DEF OrderUnits, MapThenSumSet, MapThenFoldSet, Taken, Rest
<1> HIDE DEF A, B
<1>7. QED BY <1>3, <1>4, <1>5, <1>6, Zenon

\* The sums of the cart page.
LEMMA CartSums ==
    ASSUME NEW S, NEW items, NEW currency, NEW a, NEW b, CartTerms(a, b, items, currency, S)
    PROVE  /\ CartNanos(items, currency, S) = SumOf(a, S)
           /\ CartUnits(items, currency, S) = SumOf(b, S)
<1> DEFINE A(g) == g = [s \in SUBSET S |-> IF s = {} THEN 0
                          ELSE ProductPrice(Taken(s), currency).nanos * items[Taken(s)] + g[Rest(s)]]
           B(g) == g = [s \in SUBSET S |-> IF s = {} THEN 0
                          ELSE ProductPrice(Taken(s), currency).units * items[Taken(s)] + g[Rest(s)]]
<1>1. \A s \in SUBSET S : s # {} => Taken(s) \in S
  BY DEF Taken
<1>2. \A g : (A(g) <=> IsSum(g, S, a)) /\ (B(g) <=> IsSum(g, S, b))
  BY <1>1 DEF IsSum, CartTerms
<1>3. /\ (CHOOSE g : A(g)) = (CHOOSE g : IsSum(g, S, a))
      /\ (CHOOSE g : B(g)) = (CHOOSE g : IsSum(g, S, b))
  <2> HIDE DEF A, B
  <2> QED BY <1>2, Zenon
<1>4. SumOf(a, S) = (CHOOSE g : IsSum(g, S, a))[S] /\ SumOf(b, S) = (CHOOSE g : IsSum(g, S, b))[S]
  BY DEF SumOf, MapThenSumSet, MapThenFoldSet, IsSum, Taken, Rest
<1>5. CartNanos(items, currency, S) = (CHOOSE g : A(g))[S]
  BY DEF CartNanos, MapThenSumSet, MapThenFoldSet, Taken, Rest
<1>6. CartUnits(items, currency, S) = (CHOOSE g : B(g))[S]
  BY DEF CartUnits, MapThenSumSet, MapThenFoldSet, Taken, Rest
<1> HIDE DEF A, B
<1>7. QED BY <1>3, <1>4, <1>5, <1>6, Zenon

\* An amount of units and nanos, the nanos carried, is the one of its value.
LEMMA Carried ==
    ASSUME NEW u \in Int, NEW n \in Int
    PROVE  [units |-> u + n \div Nano, nanos |-> n % Nano] = Norm(u * Nano + n)
  BY Carry DEF Norm

\* val has each price times its quantity, a its nanos and b its units.
Splits(val, a, b, items, price, S) ==
    /\ items \in [S -> Int] /\ price \in [S -> Amounts] /\ val \in [S -> Int]
    /\ a = [p \in S |-> price[p].nanos * items[p]] /\ b = [p \in S |-> price[p].units * items[p]]
    /\ \A p \in S : val[p] = items[p] * Value(price[p])

\* Sums of price times quantity, in nanos and in units, make up the sum of the values.
LEMMA Parts ==
    ASSUME NEW S, IsFiniteSet(S), NEW items, NEW price, NEW val, NEW a, NEW b,
           Splits(val, a, b, items, price, S), NEW ship, ship \in Amounts
    PROVE  /\ SumOf(a, S) + ship.nanos \in Int /\ SumOf(b, S) + ship.units \in Int
           /\ SumOf(val, S) \in Int
           /\ (SumOf(b, S) + ship.units) * Nano + (SumOf(a, S) + ship.nanos) = SumOf(val, S) + Value(ship)
<1>1. Nano \in Int /\ ship.units \in Int /\ ship.nanos \in Int
  BY MoneyAssumption DEF Amounts
<1>2. \A p \in S : items[p] \in Int /\ price[p].nanos \in Int /\ price[p].units \in Int
  BY DEF Amounts, Splits
<1>3. a \in [S -> Int] /\ b \in [S -> Int] /\ val \in [S -> Int]
  BY <1>2 DEF Splits
<1>4. ASSUME NEW p \in S
      PROVE  val[p] = b[p] * Nano + a[p]
  <2>1. PICK q \in Int, u \in Int, n \in Int : q = items[p] /\ u = price[p].units /\ n = price[p].nanos
    BY <1>2
  <2>2. val[p] = q * (u * Nano + n) /\ b[p] = u * q /\ a[p] = n * q
    BY <2>1 DEF Value, Splits
  <2>3. q * (u * Nano + n) = (u * q) * Nano + n * q
    BY <1>1
  <2>4. QED BY <2>2, <2>3
<1>5. /\ SumOf(a, S) \in Int /\ SumOf(b, S) \in Int
      /\ SumOf(val, S) = SumOf(b, S) * Nano + SumOf(a, S)
  <2>1. IsFiniteSet(S)
    OBVIOUS
  <2>2. Linear(val, b, Nano, a, S)
    BY <1>1, <1>3, <1>4 DEF Linear
  <2>3. QED BY ONLY <2>1, <2>2, SumLinear
<1>6. PICK x \in Int, y \in Int : x = SumOf(a, S) /\ y = SumOf(b, S)
  BY <1>5
<1>7. (y + ship.units) * Nano + (x + ship.nanos) = (y * Nano + x) + (ship.units * Nano + ship.nanos)
  BY <1>1
<1>8. y * Nano + x \in Int
  BY <1>1
<1>9. SumOf(val, S) = y * Nano + x /\ Value(ship) = ship.units * Nano + ship.nanos
  BY <1>5, <1>6 DEF Value
<1>10. QED BY <1>1, <1>6, <1>7, <1>8, <1>9

\* The order page: items at their cost, and shipping.
LEMMA OrderTotalIs ==
    ASSUME NEW S, IsFiniteSet(S), NEW o, o.items \in [S -> Int], o.cost \in [S -> Amounts],
           o.shippingCost \in Amounts,
           NEW val \in [S -> Int], \A p \in S : val[p] = o.items[p] * Value(o.cost[p])
    PROVE  OrderTotal(o) = Norm(SumOf(val, S) + Value(o.shippingCost))
<1>a. PICK a : a = [p \in S |-> o.cost[p].nanos * o.items[p]]
  OBVIOUS
<1>b. PICK b : b = [p \in S |-> o.cost[p].units * o.items[p]]
  OBVIOUS
<1> DEFINE u == SumOf(b, S) + o.shippingCost.units
           n == SumOf(a, S) + o.shippingCost.nanos
<1>1. DOMAIN o.items = S
  OBVIOUS
<1>2. /\ OrderNanos(o, S) = SumOf(a, S)
      /\ OrderUnits(o, S) = SumOf(b, S)
  <2>1. OrderTerms(a, b, o, S)
    BY <1>a, <1>b DEF OrderTerms
  <2>2. QED BY ONLY <2>1, OrderSums
<1>3. u \in Int /\ n \in Int /\ u * Nano + n = SumOf(val, S) + Value(o.shippingCost)
  <2>1. Splits(val, a, b, o.items, o.cost, S)
    BY <1>a, <1>b DEF Splits
  <2>2. IsFiniteSet(S) /\ o.shippingCost \in Amounts
    OBVIOUS
  <2>3. QED BY ONLY <2>1, <2>2, Parts
<1>4. OrderTotal(o) = [units |-> u + n \div Nano, nanos |-> n % Nano]
  BY <1>1, <1>2 DEF OrderTotal, OrderNanos, OrderUnits
<1> HIDE DEF u, n
<1>5. [units |-> u + n \div Nano, nanos |-> n % Nano] = Norm(u * Nano + n)
  BY <1>3, Carried
<1>6. QED BY <1>3, <1>4, <1>5, Zenon

\* The cart page: items at their price, and the shipping it counts.
LEMMA CartTotalIs ==
    ASSUME NEW S, IsFiniteSet(S), NEW items \in [S -> Int], NEW currency,
           NEW price \in [S -> Amounts], \A p \in S : price[p] = ProductPrice(p, currency),
           NEW ship \in Amounts,
           NEW val \in [S -> Int], \A p \in S : val[p] = items[p] * Value(price[p])
    PROVE  CartTotal(items, currency, ship) = Norm(SumOf(val, S) + Value(ship))
<1>a. PICK a : a = [p \in S |-> price[p].nanos * items[p]]
  OBVIOUS
<1>b. PICK b : b = [p \in S |-> price[p].units * items[p]]
  OBVIOUS
<1> DEFINE u == SumOf(b, S) + ship.units
           n == SumOf(a, S) + ship.nanos
<1>1. DOMAIN items = S
  OBVIOUS
<1>2. /\ CartNanos(items, currency, S) = SumOf(a, S)
      /\ CartUnits(items, currency, S) = SumOf(b, S)
  <2>1. CartTerms(a, b, items, currency, S)
    BY <1>a, <1>b DEF CartTerms
  <2>2. QED BY ONLY <2>1, CartSums
<1>3. u \in Int /\ n \in Int /\ u * Nano + n = SumOf(val, S) + Value(ship)
  <2>1. Splits(val, a, b, items, price, S)
    BY <1>a, <1>b DEF Splits
  <2>2. IsFiniteSet(S) /\ ship \in Amounts
    OBVIOUS
  <2>3. QED BY ONLY <2>1, <2>2, Parts
<1>4. CartTotal(items, currency, ship) = [units |-> u + n \div Nano, nanos |-> n % Nano]
  BY <1>1, <1>2 DEF CartTotal, CartNanos, CartUnits
<1> HIDE DEF u, n
<1>5. [units |-> u + n \div Nano, nanos |-> n % Nano] = Norm(u * Nano + n)
  BY <1>3, Carried
<1>6. QED BY <1>3, <1>4, <1>5, Zenon

\* Checkout: shipping, and every item as often as it is ordered.
LEMMA ChargedIs ==
    ASSUME NEW S, IsFiniteSet(S), NEW o, o.items \in [S -> Nat \ {0}], o.cost \in [S -> Amounts],
           o.shippingCost \in Amounts,
           NEW val \in [S -> Int], \A p \in S : val[p] = o.items[p] * Value(o.cost[p])
    PROVE  Charged(o) = Norm(Value(o.shippingCost) + SumOf(val, S))
<1>1. Charged(o) = Sum2(o.shippingCost, Items(o.cost, o.items))
  BY DEF Charged, Items
<1>2. Items(o.cost, o.items) \in Amounts /\ Value(Items(o.cost, o.items)) = SumOf(val, S)
  BY ItemsValue
<1>3. QED BY <1>1, <1>2, SumValue

\* The factors are numbers, and one of them is one.
LEMMA PowersAre == 1 \in Powers /\ \E top \in Nat : \A f \in Powers : f \in Nat /\ f <= top
<1>1. 1 \in Powers
  BY SMT DEF Powers
<1>2. 100000000 \in Nat /\ \A f \in Powers : f \in Nat /\ f <= 100000000
  BY SMT DEF Powers
<1>3. QED BY ONLY <1>1, <1>2, SMT

\* The nanos without the zeros in front of them are a number.
LEMMA FractionIsNumber ==
    ASSUME NEW n \in 0..Nano - 1
    PROVE  Fraction(n) \in Nat
<1>1. CASE n = 0
  BY <1>1 DEF Fraction
<1>2. CASE n # 0
  <2> DEFINE F == {f \in Powers : f <= (Nano - 1) \div n}
  <2>1. Nano - 1 \in Nat /\ n \in Nat \ {0} /\ n <= Nano - 1
    BY <1>2, MoneyAssumption
  <2>2. 1 <= (Nano - 1) \div n /\ (Nano - 1) \div n \in Int
    BY <2>1
  <2>3. PICK top \in Nat : \A f \in Powers : f \in Nat /\ f <= top
    BY PowersAre
  <2>4. 1 \in F /\ \A f \in F : f \in Nat /\ f <= top
    BY <2>2, <2>3, PowersAre
  <2>5. Fraction(n) = n * Max(F)
    BY <1>2 DEF Fraction
  <2> HIDE DEF F
  <2> DEFINE T == {top - f : f \in F}
  <2>6. T \in SUBSET Nat /\ T # {}
    BY <2>4
  <2>7. PICK t \in T : \A x \in T : t <= x
    BY <2>6, Minimum
  <2>8. PICK f \in F : t = top - f
    OBVIOUS
  <2>9. \A x \in F : f >= x
    <3> TAKE x \in F
    <3>1. top - x \in T /\ x \in Nat /\ f \in Nat
      BY <2>4
    <3>2. top - f <= top - x
      BY <2>7, <2>8, <3>1
    <3>3. QED BY <3>1, <3>2
  <2>10. Max(F) \in F
    BY <2>9 DEF Max
  <2>11. PICK m \in Nat : m = Max(F)
    BY <2>4, <2>10
  <2>12. QED BY <2>1, <2>5, <2>11
<1>3. QED BY <1>1, <1>2
-------------------------------------------------------------------------------
(***************************************************************************)
(* What the cart page shows, what checkout charges and what the order page shows. *)
(***************************************************************************)

\* The rates make numbers of numbers.
Rates == \A n \in Nat, c \in Currencies : Exchange(n, c) \in Nat

\* The parts of an amount that is not negative.
IsAmount(m) == m.units \in Nat /\ m.nanos \in 0..Nano - 1

\* The currency service converts by value.
LEMMA ConvertIs ==
    ASSUME Rates, NEW m, IsAmount(m), NEW c \in Currencies
    PROVE  /\ getDouble(m) \in Nat /\ Convert(m, c) \in Amounts
           /\ Value(Convert(m, c)) = Exchange(getDouble(m), c) /\ Exchange(getDouble(m), c) \in Nat
<1>1. getDouble(m) \in Nat
  BY FractionIsNumber, MoneyAssumption DEF getDouble, IsAmount
<1>2. PICK n \in Nat : n = Exchange(getDouble(m), c)
  BY <1>1 DEF Rates
<1>3. Convert(m, c) = Norm(n)
  BY <1>2 DEF Convert, Norm
<1>4. QED BY <1>1, <1>2, <1>3, NormValue

\* The quote of a cart of whole pieces.
LEMMA QuoteIs ==
    ASSUME NEW S, IsFiniteSet(S), NEW items \in [S -> Nat \ {0}]
    PROVE  IsAmount(Quote(items)) /\ SumOf(items, S) \in Nat
<1>1. SumOf(items, S) \in Nat
  <2>1. items \in [S -> Int] /\ \A p \in S : items[p] - items[p] \in 0..items[p]
    OBVIOUS
  <2>2. SumOf(items, S) \in Int /\ SumOf(items, S) - SumOf(items, S) \in 0..SumOf(items, S)
    BY <2>1, SumBetween
  <2>3. QED BY <2>2
<1>2. PICK n \in Nat : n = CostPerItem * SumOf(items, S)
  BY <1>1, MoneyAssumption
<1>3. DOMAIN items = S
  OBVIOUS
<1>4. Quote(items) = [units |-> n \div Nano, nanos |-> n % Nano]
  BY <1>2, <1>3 DEF Quote, SumOf
<1>5. n \div Nano \in Nat /\ n % Nano \in 0..Nano - 1
  BY MoneyAssumption
<1>6. QED BY <1>1, <1>4, <1>5 DEF IsAmount

\* An order as checkout prepares it.
Priced(items, currency) ==
    [items |-> items,
     cost |-> [p \in DOMAIN items |-> Convert(Price[p], currency)],
     shippingCost |-> Convert(Quote(items), currency)]

\* What of the pieces of a cart getDouble reads too much.
Misread(items) ==
    MapThenSumSet(LAMBDA p : items[p] * (getDouble(Price[p]) - Value(Price[p])), DOMAIN items)

\* A sum of those, of terms collected in a function.
LEMMA MisreadIs ==
    ASSUME NEW S, NEW items \in [S -> Int], NEW val,
           \A p \in S : val[p] = items[p] * (getDouble(Price[p]) - Value(Price[p]))
    PROVE  Misread(items) = SumOf(val, S)
<1> DEFINE A(g) == g = [s \in SUBSET S |-> IF s = {} THEN 0
          ELSE items[Taken(s)] * (getDouble(Price[Taken(s)]) - Value(Price[Taken(s)])) + g[Rest(s)]]
<1>1. \A s \in SUBSET S : s # {} => Taken(s) \in S
  BY DEF Taken
<1>2. \A g : A(g) <=> IsSum(g, S, val)
  BY <1>1 DEF IsSum
<1>3. (CHOOSE g : A(g)) = (CHOOSE g : IsSum(g, S, val))
  <2> HIDE DEF A
  <2> QED BY <1>2, Zenon
<1>4. SumOf(val, S) = (CHOOSE g : IsSum(g, S, val))[S]
  BY DEF SumOf, MapThenSumSet, MapThenFoldSet, IsSum, Taken, Rest
<1>5. DOMAIN items = S
  OBVIOUS
<1>6. Misread(items) = (CHOOSE g : A(g))[S]
  BY <1>5 DEF Misread, MapThenSumSet, MapThenFoldSet, Taken, Rest
<1> HIDE DEF A
<1>7. QED BY <1>3, <1>4, <1>6, Zenon

\* What is charged for an order, and what its page shows.
LEMMA PageIsCharged ==
    ASSUME Rates, NEW S \in SUBSET Products, NEW items \in [S -> Nat \ {0}],
           NEW c \in Currencies, NEW o, o = Priced(items, c),
           NEW val, val = [p \in S |-> items[p] * Value(Convert(Price[p], c))]
    PROVE  /\ OrderTotal(o) = Charged(o)
           /\ IsFiniteSet(S) /\ val \in [S -> Int] /\ SumOf(val, S) \in Int
           /\ Convert(Quote(items), c) \in Amounts /\ Value(Convert(Quote(items), c)) \in Int
           /\ Value(Charged(o)) = Value(Convert(Quote(items), c)) + SumOf(val, S)
<1>1. IsFiniteSet(S)
  BY ProductsAssumption, FS_Subset
<1>2. Convert(Quote(items), c) \in Amounts /\ Value(Convert(Quote(items), c)) \in Int
  BY <1>1, QuoteIs, ConvertIs
<1>3. ASSUME NEW p \in S
      PROVE  Convert(Price[p], c) \in Amounts /\ Value(Convert(Price[p], c)) \in Int
  <2>1. IsAmount(Price[p])
    BY PriceAssumption DEF IsAmount
  <2>2. QED BY <2>1, ConvertIs
<1>4. /\ o.items = items /\ o.cost = [p \in S |-> Convert(Price[p], c)]
      /\ o.shippingCost = Convert(Quote(items), c)
  BY DEF Priced
<1>5. o.cost \in [S -> Amounts] /\ o.items \in [S -> Nat \ {0}] /\ o.shippingCost \in Amounts
  BY <1>2, <1>3, <1>4
<1>6. val \in [S -> Int] /\ \A p \in S : val[p] = o.items[p] * Value(o.cost[p])
  BY <1>3, <1>4
<1>7. Charged(o) = Norm(Value(o.shippingCost) + SumOf(val, S))
  BY <1>1, <1>5, <1>6, ChargedIs
<1>8. OrderTotal(o) = Norm(SumOf(val, S) + Value(o.shippingCost))
  <2>1. o.items \in [S -> Int]
    BY <1>5
  <2>2. QED BY <1>1, <1>5, <1>6, <2>1, OrderTotalIs
<1>9. SumOf(val, S) \in Int
  <2>1. PICK none \in [S -> Int] : \A p \in S : none[p] = 0
    <3>1. [p \in S |-> 0] \in [S -> Int]
      OBVIOUS
    <3>2. QED BY <3>1
  <2>2. \A p \in S : val[p] - val[p] \in 0..none[p]
    BY <1>6, <2>1
  <2>3. QED BY <1>1, <1>6, <2>2, SumBetween
<1>10. PICK v \in Int, w \in Int : v = SumOf(val, S) /\ w = Value(o.shippingCost)
  BY <1>2, <1>4, <1>9
<1>11. v + w = w + v /\ w + v \in Int
  OBVIOUS
<1>12. OrderTotal(o) = Charged(o)
  BY <1>7, <1>8, <1>10, <1>11
<1>13. Value(Charged(o)) = w + v
  BY <1>7, <1>10, <1>11, NormValue
<1>14. QED BY <1>1, <1>2, <1>4, <1>6, <1>9, <1>10, <1>12, <1>13

\* The total of the cart page, with the shipping if that has been answered.
PageTotal(items, currency, answered) == CartTotal(items, currency, ShippingShown(items, currency, answered))

\* What the total of the page has more than the charge, with the shipping untold.
Lost(items, currency, o, answered) ==
    Value(PageTotal(items, currency, answered)) + (IF answered THEN 0 ELSE Value(o.shippingCost))
        - Value(Charged(o))

\* It is what is misread less than nothing, and a nano for each piece at most.
Explained(lost, items, currency, S) ==
    IF currency = Default THEN lost + Misread(items) \in 0..SumOf(items, S) ELSE lost = 0

\* What the cart page shows, and what checkout charges.
LEMMA CartIsCharged ==
    ASSUME Rates, NEW S \in SUBSET Products, NEW items \in [S -> Nat \ {0}],
           NEW c \in Currencies, NEW o, o = Priced(items, c), NEW told
    PROVE  Explained(Lost(items, c, o, told), items, c, S)
<1>u. PICK untold : untold = IF told THEN 0 ELSE Value(o.shippingCost)
  OBVIOUS
<1>l. PICK lost : lost = Value(PageTotal(items, c, told)) + untold - Value(Charged(o))
  OBVIOUS
<1>e. SUFFICES IF c = Default THEN lost + Misread(items) \in 0..SumOf(items, S) ELSE lost = 0
  BY <1>u, <1>l DEF Lost, Explained
<1>1. PICK val : val = [p \in S |-> items[p] * Value(Convert(Price[p], c))]
  OBVIOUS
<1>2. /\ IsFiniteSet(S) /\ val \in [S -> Int] /\ SumOf(val, S) \in Int
      /\ Convert(Quote(items), c) \in Amounts /\ Value(Convert(Quote(items), c)) \in Int
      /\ Value(Charged(o)) = Value(Convert(Quote(items), c)) + SumOf(val, S)
  BY <1>1, PageIsCharged
<1>3. PICK ship \in Amounts : ship = Convert(Quote(items), c) /\ ship = ShippingCost(items, c) /\ Value(ship) \in Int
  BY <1>2 DEF ShippingCost
<1>s. PICK part \in Amounts, x \in Int, y \in Int :
        /\ part = ShippingShown(items, c, told) /\ x = Value(part) /\ y = untold
        /\ x + y = Value(ship)
  <2>1. o.shippingCost = ship
    BY <1>3 DEF Priced
  <2>2. CASE told
    <3>1. ship = ShippingShown(items, c, told) /\ untold = 0
      BY <1>u, <1>3, <2>2 DEF ShippingShown
    <3>2. Value(ship) + 0 = Value(ship) /\ Value(ship) \in Int
      BY <1>3
    <3>3. QED BY <3>1, <3>2
  <2>3. CASE ~told
    <3>1. Zero = ShippingShown(items, c, told) /\ untold = Value(ship)
      BY <1>u, <2>1, <2>3 DEF ShippingShown
    <3>2. Zero \in Amounts /\ Value(Zero) = 0
      BY MoneyAssumption DEF Zero, Amounts, Value
    <3>3. 0 + Value(ship) = Value(ship) /\ Value(ship) \in Int
      BY <1>3
    <3>4. QED BY <3>1, <3>2, <3>3
  <2>4. QED BY <2>2, <2>3
<1>t. PICK t : t = PageTotal(items, c, told) /\ t = CartTotal(items, c, part)
  BY <1>s DEF PageTotal
<1>4. items \in [S -> Int]
  OBVIOUS
<1>5. ASSUME NEW p \in S
      PROVE  /\ IsAmount(Price[p]) /\ Price[p] \in Amounts /\ Value(Price[p]) \in Int
             /\ Convert(Price[p], c) \in Amounts /\ Value(Convert(Price[p], c)) \in Int
             /\ getDouble(Price[p]) \in Nat
             /\ c = Default => getDouble(Price[p]) - Value(Convert(Price[p], c)) \in 0..1
  <2>1. IsAmount(Price[p]) /\ getDouble(Price[p]) - Exchange(getDouble(Price[p]), Default) \in 0..1
    BY PriceAssumption DEF IsAmount
  <2>2. Price[p] \in Amounts
    BY PriceAssumption DEF Amounts
  <2>3. Value(Price[p]) \in Int
    BY <2>1, MoneyAssumption DEF IsAmount, Value
  <2>4. /\ getDouble(Price[p]) \in Nat /\ Convert(Price[p], c) \in Amounts
        /\ Value(Convert(Price[p], c)) = Exchange(getDouble(Price[p]), c)
        /\ Exchange(getDouble(Price[p]), c) \in Nat
    BY <2>1, ConvertIs
  <2>5. QED BY <2>1, <2>2, <2>3, <2>4
<1>6. PICK price : price = [p \in S |-> IF c = Default THEN Price[p] ELSE Convert(Price[p], c)]
  OBVIOUS
<1>7. price \in [S -> Amounts] /\ \A p \in S : price[p] = ProductPrice(p, c) /\ Value(price[p]) \in Int
  BY <1>5, <1>6 DEF ProductPrice
<1>8. PICK shown : shown = [p \in S |-> items[p] * Value(price[p])]
  OBVIOUS
<1>9. shown \in [S -> Int] /\ \A p \in S : shown[p] = items[p] * Value(price[p])
  BY <1>4, <1>7, <1>8
<1>10. t = Norm(SumOf(shown, S) + x)
  BY <1>2, <1>4, <1>7, <1>9, <1>s, <1>t, CartTotalIs
<1>11. CASE c # Default
  <2>1. \A p \in S : shown[p] = val[p]
    BY <1>1, <1>6, <1>8, <1>11
  <2>2. shown = val
    BY <1>1, <1>8, <2>1
  <2>3. PICK v \in Int, w \in Int : v = SumOf(val, S) /\ w = Value(ship)
    BY <1>2, <1>3
  <2>4. Value(t) = v + x
    BY <1>10, <2>2, <2>3, NormValue
  <2>5. Value(Charged(o)) = w + v
    BY <1>2, <1>3, <2>3
  <2>6. lost = (v + x) + y - (w + v) /\ x + y = w
    BY <1>l, <1>s, <1>t, <2>3, <2>4, <2>5
  <2>7. QED BY <1>11, <2>6
<1>12. CASE c = Default
  <2>1. PICK over : over = [p \in S |-> items[p] * (getDouble(Price[p]) - Value(Price[p]))]
    OBVIOUS
  <2>2. PICK read : read = [p \in S |-> items[p] * getDouble(Price[p])]
    OBVIOUS
  <2>3. ASSUME NEW p \in S
        PROVE  /\ over[p] \in Int /\ read[p] \in Int
               /\ over[p] = items[p] * (getDouble(Price[p]) - Value(Price[p]))
               /\ read[p] = shown[p] * 1 + over[p]
               /\ read[p] - val[p] \in 0..items[p]
    <3>1. PICK q \in Nat, g \in Int, u \in Int, z \in Int :
            q = items[p] /\ g = getDouble(Price[p]) /\ u = Value(Price[p]) /\ z = Value(Convert(Price[p], c))
      BY <1>5
    <3>2. g - z \in 0..1 /\ shown[p] = q * u /\ val[p] = q * z /\ over[p] = q * (g - u) /\ read[p] = q * g
      BY <1>1, <1>5, <1>6, <1>8, <1>12, <2>1, <2>2, <3>1
    <3>3. q * g = (q * u) * 1 + q * (g - u) /\ q * (g - u) \in Int /\ q * g \in Int
      OBVIOUS
    <3>4. q * g - q * z \in 0..q
      <4>1. CASE g = z
        BY <4>1
      <4>2. CASE g = z + 1
        <5>1. q * g = q * z + q /\ q * z \in Int
          BY <4>2
        <5>2. QED BY <5>1
      <4>3. QED BY <3>2, <4>1, <4>2
    <3>5. QED BY <3>1, <3>2, <3>3, <3>4
  <2>4. over \in [S -> Int] /\ read \in [S -> Int]
    BY <2>1, <2>2, <2>3
  <2>5. Misread(items) = SumOf(over, S)
    BY <1>4, <2>3, MisreadIs
  <2>6. Linear(read, shown, 1, over, S)
    BY <1>9, <2>3, <2>4 DEF Linear
  <2>7. SumOf(over, S) \in Int /\ SumOf(shown, S) \in Int /\ SumOf(read, S) = SumOf(shown, S) * 1 + SumOf(over, S)
    BY <1>2, <2>6, SumLinear
  <2>8. SumOf(read, S) - SumOf(val, S) \in 0..SumOf(items, S)
    BY <1>2, <1>4, <2>3, <2>4, SumBetween
  <2>9. PICK v \in Int, w \in Int, g \in Int, h \in Int :
          v = SumOf(val, S) /\ w = Value(ship) /\ g = SumOf(over, S) /\ h = SumOf(shown, S)
    BY <1>2, <1>3, <2>7
  <2>10. Value(t) = h + x
    BY <1>10, <2>9, NormValue
  <2>11. Value(Charged(o)) = w + v
    BY <1>2, <1>3, <2>9
  <2>12. lost + Misread(items) = (h + g) - v
    <3>1. lost = (h + x) + y - (w + v) /\ x + y = w /\ Misread(items) = g
      BY <1>l, <1>s, <1>t, <2>5, <2>9, <2>10, <2>11
    <3>2. ((h + x) + y - (w + v)) + g = (h + g) + (x + y) - (w + v)
      OBVIOUS
    <3>3. QED BY <3>1, <3>2
  <2>13. (h + g) - v \in 0..SumOf(items, S)
    BY <2>7, <2>8, <2>9
  <2>14. QED BY <1>12, <2>12, <2>13
<1>13. QED BY <1>11, <1>12
-------------------------------------------------------------------------------
(***************************************************************************)
(* Money in the shop: what is said of orders and charges at every step.    *)
(***************************************************************************)

\* At least one piece of everything.
Positive(items) == \A p \in DOMAIN items : items[p] > 0

\* An order as checkout prepares it, in this currency.
IsPriced(o, currency) ==
    o.items \in Carts /\ currency \in Currencies /\ o = Priced(o.items, currency)

\* What the page showed is the total of what was ordered.
AsShown(c) == Positive(c.order.items) /\ c.shown = PageTotal(c.order.items, c.currency, c.quoted)

\* The call of an order that is prepared, and of one that is charged and not failed.
Placed(c) == c.stage \in {"prepared", "charged"} \/ c.status = 200
Paid(c) == c.stage = "charged" \/ c.status = 200

\* An order that is asked for is of the cart shown, while the shopper waits.
CallMoney(i) ==
    /\ calls[i].currency \in Currencies
    /\ Placed(calls[i]) => IsPriced(calls[i].order, calls[i].currency) /\ (calm => AsShown(calls[i]))
    /\ Paid(calls[i]) => \E k \in DOMAIN charges : charges[k].call = i
    /\ calm /\ calls[i].stage = "asked" =>
        Positive(cart) /\ calls[i].shown = PageTotal(cart, calls[i].currency, calls[i].quoted)

OrdersInv == \A i \in DOMAIN calls : calls[i].kind = "order" => CallMoney(i)

\* A charge is of what was ordered, and the only one of its order.
ChargeMoney(k) ==
    LET c == calls[charges[k].call]
    IN  /\ IsPriced(c.order, c.currency) /\ (calm => AsShown(c))
        /\ charges[k].total = Charged(c.order)
        /\ \A j \in DOMAIN charges : charges[j].call = charges[k].call => j = k

TotalsInv == \A k \in DOMAIN charges : ChargeMoney(k)

\* The order page is of an order that was answered as placed.
PageInv ==
    order # None => \E i \in DOMAIN calls :
        /\ calls[i].kind = "order" /\ calls[i].stage = "ok" /\ calls[i].status = 200
        /\ calls[i].order = order

MoneyInv == Positive(wanted) /\ OrdersInv /\ TotalsInv /\ PageInv

\* Two calls are the same as far as money goes.
SameMoney(c, d) ==
    /\ c.kind = d.kind /\ c.currency = d.currency /\ c.order = d.order /\ c.shown = d.shown
    /\ c.quoted = d.quoted /\ c.stage = d.stage /\ c.status = d.status

\* A step that touches no order and charges nothing.
Untouched ==
    /\ DOMAIN calls \subseteq DOMAIN calls' /\ charges' = charges /\ (calm' => calm)
    /\ \A i \in DOMAIN calls : calls[i].kind = "order" => SameMoney(calls'[i], calls[i])
    /\ \A i \in DOMAIN calls : calls[i].kind # "order" => calls'[i].kind # "order"

\* Then what is said of an order stays,
LEMMA OrdersUntouched ==
    ASSUME ChargeInv, OrdersInv, Untouched, NEW i \in DOMAIN calls, calls[i].kind = "order",
           calm' /\ calls[i].stage = "asked" => cart' = cart
    PROVE  calls'[i].kind = "order" /\ CallMoney(i)'
<1>1. PICK c : c = calls[i]
  OBVIOUS
<1>2. PICK d : d = calls'[i]
  OBVIOUS
<1>3. /\ charges' = charges /\ (calm' => calm) /\ d.kind = "order" /\ d.currency = c.currency
      /\ d.order = c.order /\ d.shown = c.shown /\ d.quoted = c.quoted
      /\ d.stage = c.stage /\ d.status = c.status
  BY <1>1, <1>2 DEF Untouched, SameMoney
<1>4. CallMoney(i)
  BY DEF OrdersInv
<1>5. (Placed(d) <=> Placed(c)) /\ (Paid(d) <=> Paid(c)) /\ (AsShown(d) <=> AsShown(c))
  BY <1>3 DEF Placed, Paid, AsShown
<1>6. d.currency \in Currencies
  BY <1>1, <1>3, <1>4 DEF CallMoney
<1>7. Placed(d) => IsPriced(d.order, d.currency) /\ (calm' => AsShown(d))
  BY <1>1, <1>3, <1>4, <1>5 DEF CallMoney
<1>8. Paid(d) => \E k \in DOMAIN charges : charges[k].call = i
  BY <1>1, <1>3, <1>4, <1>5 DEF CallMoney
<1>9. calm' /\ d.stage = "asked" => Positive(cart') /\ d.shown = PageTotal(cart', d.currency, d.quoted)
  BY <1>1, <1>3, <1>4 DEF CallMoney
<1>10. QED BY <1>2, <1>3, <1>6, <1>7, <1>8, <1>9 DEF CallMoney

\* of a charge,
LEMMA TotalsUntouched ==
    ASSUME ChargeInv, TotalsInv, Untouched
    PROVE  TotalsInv'
<1>1. charges' = charges /\ (calm' => calm)
  BY DEF Untouched
<1>2. ASSUME NEW k \in DOMAIN charges
      PROVE  ChargeMoney(k)'
  <2>1. PICK i \in DOMAIN calls : i = charges[k].call /\ calls[i].kind = "order"
    BY DEF ChargeInv, Unrefused
  <2>2. PICK c : c = calls[i]
    OBVIOUS
  <2>3. PICK d : d = calls'[i]
    OBVIOUS
  <2>4. d.currency = c.currency /\ d.order = c.order /\ d.shown = c.shown /\ d.quoted = c.quoted
    BY <2>1, <2>2, <2>3 DEF Untouched, SameMoney
  <2>5. /\ IsPriced(c.order, c.currency) /\ (calm => AsShown(c))
        /\ charges[k].total = Charged(c.order)
        /\ \A j \in DOMAIN charges : charges[j].call = charges[k].call => j = k
    BY <2>1, <2>2 DEF TotalsInv, ChargeMoney
  <2>6. calm' => AsShown(d)
    BY <1>1, <2>4, <2>5 DEF AsShown
  <2>7. QED BY <1>1, <2>1, <2>3, <2>4, <2>5, <2>6 DEF ChargeMoney
<1>3. QED BY <1>1, <1>2 DEF TotalsInv

\* and of the order page.
LEMMA PageUntouched ==
    ASSUME PageInv, Untouched, order' \in {order, None}
    PROVE  PageInv'
<1>1. SUFFICES ASSUME order' # None
               PROVE  \E i \in DOMAIN calls' :
                        /\ calls'[i].kind = "order" /\ calls'[i].stage = "ok" /\ calls'[i].status = 200
                        /\ calls'[i].order = order'
  BY DEF PageInv
<1>2. PICK i \in DOMAIN calls :
        /\ calls[i].kind = "order" /\ calls[i].stage = "ok" /\ calls[i].status = 200
        /\ calls[i].order = order
  BY <1>1 DEF PageInv
<1>3. SameMoney(calls'[i], calls[i]) /\ i \in DOMAIN calls'
  BY <1>2 DEF Untouched
<1>4. QED BY <1>1, <1>2, <1>3 DEF SameMoney

\* A step that leaves the orders, and the cart to an order that is asked for.
LEMMA UntouchedKeeps ==
    ASSUME ChargeInv, MoneyInv, Untouched, DOMAIN calls' = DOMAIN calls, Positive(wanted'),
           order' \in {order, None},
           \A i \in DOMAIN calls : calm' /\ calls[i].kind = "order" /\ calls[i].stage = "asked" => cart' = cart
    PROVE  MoneyInv'
<1>1. OrdersInv /\ TotalsInv /\ PageInv
  BY DEF MoneyInv
<1>2. ASSUME NEW i \in DOMAIN calls, calls'[i].kind = "order"
      PROVE  CallMoney(i)'
  <2>1. calls[i].kind = "order"
    BY <1>2 DEF Untouched
  <2>2. QED BY <1>1, <2>1, OrdersUntouched
<1>3. OrdersInv'
  BY <1>2 DEF OrdersInv
<1>4. TotalsInv' /\ PageInv'
  BY <1>1, TotalsUntouched, PageUntouched
<1>5. QED BY <1>3, <1>4 DEF MoneyInv, Positive

\* The charges grow by one of this order, or stay.
Grows(i, o) ==
    \/ charges' = charges
    \/ \E charge : /\ Extends(charges', charges, charge)
                   /\ charge.call = i /\ charge.total = Charged(o) /\ calls[i].stage = "prepared"

\* The charges of before are among them.
LEMMA GrownCharges ==
    ASSUME BrowserTypes, NEW i, NEW o, Grows(i, o)
    PROVE  /\ DOMAIN charges \subseteq DOMAIN charges'
           /\ \A k \in DOMAIN charges : charges'[k] = charges[k]
           /\ \A k \in DOMAIN charges' \ DOMAIN charges :
                /\ charges'[k].call = i /\ charges'[k].total = Charged(o) /\ calls[i].stage = "prepared"
                /\ \A j \in DOMAIN charges' \ DOMAIN charges : j = k
<1>1. charges \in Seq(Range(charges))
  BY DEF BrowserTypes
<1>2. CASE charges' = charges
  BY <1>2
<1>3. CASE charges' # charges
  <2>1. PICK charge : /\ Extends(charges', charges, charge)
                      /\ charge.call = i /\ charge.total = Charged(o) /\ calls[i].stage = "prepared"
    BY <1>3 DEF Grows
  <2>2. PICK t : t = charges'
    OBVIOUS
  <2>3. Extends(t, charges, charge)
    BY <2>1, <2>2
  <2>4. /\ \A j \in DOMAIN charges : t[j] = charges[j]
        /\ DOMAIN t = DOMAIN charges \cup {Len(t)} /\ t[Len(t)] = charge
    BY ONLY <1>1, <2>3, Appended, ZenonT(40)
  <2>5. QED BY <2>1, <2>2, <2>4
<1>4. QED BY <1>2, <1>3

\* The call of an order goes on as c.
OrderMoves(i, c) ==
    /\ i \in DOMAIN calls /\ calls[i].kind = "order" /\ InFlight(i)
    /\ c.kind = "order" /\ c.currency = calls[i].currency /\ c.shown = calls[i].shown
    /\ c.quoted = calls[i].quoted
    /\ c.stage # "asked" /\ (c.order = calls[i].order \/ calls[i].stage = "asked")
    /\ calls' = [calls EXCEPT ![i] = c] /\ (calm' => calm) /\ calm' \in BOOLEAN
    /\ Grows(i, c.order)
    /\ Placed(c) => IsPriced(c.order, c.currency) /\ (calm' => AsShown(c))
    /\ Paid(c) => \E k \in DOMAIN charges' : charges'[k].call = i
    /\ wanted' = wanted \/ wanted' = Empty
    /\ order' = order \/ (c.stage = "ok" /\ c.status = 200 /\ order' = c.order)

\* What the other calls are left with.
LEMMA MovedCalls ==
    ASSUME BrowserTypes, NEW i, NEW c, OrderMoves(i, c)
    PROVE  /\ DOMAIN calls' = DOMAIN calls /\ calls'[i] = c
           /\ \A j \in DOMAIN calls : j # i => calls'[j] = calls[j]
<1>1. PICK t : t = calls'
  OBVIOUS
<1>2. calls \in Seq(Range(calls)) /\ i \in DOMAIN calls
  BY DEF BrowserTypes, OrderMoves
<1>3. t = [calls EXCEPT ![i] = c]
  BY <1>1 DEF OrderMoves
<1>4. DOMAIN t = DOMAIN calls /\ t[i] = c /\ \A j \in DOMAIN calls : j # i => t[j] = calls[j]
  BY <1>2, <1>3, Replaced
<1>5. QED BY <1>1, <1>4

\* What is said of every order stays,
LEMMA OrdersMoved ==
    ASSUME BrowserInv, OrdersInv, NEW i, NEW c, OrderMoves(i, c)
    PROVE  OrdersInv'
<1>1. BrowserTypes /\ CalmInv
  BY DEF BrowserInv
<1>2. PICK t : t = calls'
  OBVIOUS
<1>3. DOMAIN t = DOMAIN calls /\ t[i] = c /\ \A j \in DOMAIN calls : j # i => t[j] = calls[j]
  BY <1>1, <1>2, MovedCalls
<1>4. i \in DOMAIN calls /\ calls[i].kind = "order" /\ InFlight(i) /\ Grows(i, c.order) /\ (calm' => calm)
  BY DEF OrderMoves
<1>5. DOMAIN charges \subseteq DOMAIN charges' /\ \A k \in DOMAIN charges : charges'[k] = charges[k]
  BY <1>1, <1>4, GrownCharges
<1>6. CallMoney(i)'
  <2>1. calls[i].currency \in Currencies
    BY <1>4 DEF OrdersInv, CallMoney
  <2>2. c.currency \in Currencies /\ c.stage # "asked"
    BY <2>1 DEF OrderMoves
  <2>3. Placed(c) => IsPriced(c.order, c.currency) /\ (calm' => AsShown(c))
    BY DEF OrderMoves
  <2>4. Paid(c) => \E k \in DOMAIN charges' : charges'[k].call = i
    BY DEF OrderMoves
  <2>5. calls'[i] = c
    BY <1>2, <1>3
  <2>6. QED BY <2>2, <2>3, <2>4, <2>5 DEF CallMoney
<1>7. ASSUME NEW j \in DOMAIN calls, j # i, calls[j].kind = "order"
      PROVE  CallMoney(j)'
  <2>1. calls'[j] = calls[j]
    BY <1>2, <1>3, <1>7
  <2>2. CallMoney(j)
    BY <1>7 DEF OrdersInv
  <2>3. ~(calm' /\ calls[j].stage = "asked")
    <3>1. SUFFICES ASSUME calm', calls[j].stage = "asked"
                   PROVE  FALSE
      OBVIOUS
    <3>2. calm /\ InFlight(j) /\ InFlight(i)
      BY <1>4, <3>1 DEF InFlight
    <3>3. QED BY <1>1, <1>4, <1>7, <3>2 DEF CalmInv
  <2>4. Paid(calls[j]) => \E k \in DOMAIN charges' : charges'[k].call = j
    BY <1>5, <2>2 DEF CallMoney
  <2>5. /\ calls[j].currency \in Currencies
        /\ Placed(calls[j]) => IsPriced(calls[j].order, calls[j].currency) /\ (calm' => AsShown(calls[j]))
    BY <1>4, <2>2 DEF CallMoney
  <2>6. QED BY <2>1, <2>3, <2>4, <2>5 DEF CallMoney
<1>8. ASSUME NEW j \in DOMAIN calls', calls'[j].kind = "order"
      PROVE  CallMoney(j)'
  <2>1. j \in DOMAIN calls
    BY <1>2, <1>3
  <2>2. CASE j = i
    BY <1>6, <2>2
  <2>3. CASE j # i
    BY <1>2, <1>3, <1>7, <1>8, <2>1, <2>3
  <2>4. QED BY <2>2, <2>3
<1>9. QED BY <1>8 DEF OrdersInv

\* of every charge, and of a new one,
LEMMA TotalsMoved ==
    ASSUME BrowserInv, OrdersInv, TotalsInv, NEW i, NEW c, OrderMoves(i, c)
    PROVE  TotalsInv'
<1>1. BrowserTypes /\ ChargeInv
  BY DEF BrowserInv
<1>2. PICK t : t = calls'
  OBVIOUS
<1>3. DOMAIN t = DOMAIN calls /\ t[i] = c /\ \A j \in DOMAIN calls : j # i => t[j] = calls[j]
  BY <1>1, <1>2, MovedCalls
<1>4. i \in DOMAIN calls /\ calls[i].kind = "order" /\ InFlight(i) /\ Grows(i, c.order) /\ (calm' => calm)
  BY DEF OrderMoves
<1>5. /\ c.currency = calls[i].currency /\ c.shown = calls[i].shown /\ c.quoted = calls[i].quoted
      /\ c.order = calls[i].order \/ calls[i].stage = "asked"
  BY DEF OrderMoves
<1>6. /\ DOMAIN charges \subseteq DOMAIN charges'
      /\ \A k \in DOMAIN charges : charges'[k] = charges[k]
      /\ \A k \in DOMAIN charges' \ DOMAIN charges :
            /\ charges'[k].call = i /\ charges'[k].total = Charged(c.order) /\ calls[i].stage = "prepared"
            /\ \A j \in DOMAIN charges' \ DOMAIN charges : j = k
  BY <1>1, <1>4, GrownCharges
<1>7. \A k \in DOMAIN charges : charges[k].call \in DOMAIN calls /\ Unrefused(calls[charges[k].call])
  BY <1>1 DEF ChargeInv
<1>8. ASSUME NEW k \in DOMAIN charges
      PROVE  ChargeMoney(k)'
  <2>1. PICK j \in DOMAIN calls : j = charges[k].call /\ Unrefused(calls[j])
    BY <1>7
  <2>2. /\ IsPriced(calls[j].order, calls[j].currency) /\ (calm => AsShown(calls[j]))
        /\ charges[k].total = Charged(calls[j].order)
        /\ \A l \in DOMAIN charges : charges[l].call = j => l = k
    BY <2>1 DEF TotalsInv, ChargeMoney
  <2>3. PICK d : d = t[j]
    OBVIOUS
  <2>4. /\ d.currency = calls[j].currency /\ d.shown = calls[j].shown /\ d.order = calls[j].order
        /\ d.quoted = calls[j].quoted
    BY <1>3, <1>5, <2>1, <2>3 DEF Unrefused
  <2>5. AsShown(calls[j]) => AsShown(d)
    BY <2>4 DEF AsShown
  <2>6. \A l \in DOMAIN charges' : charges'[l].call = j => l = k
    BY <1>6, <2>1, <2>2 DEF Unrefused
  <2>7. charges'[k] = charges[k] /\ calls'[j] = d
    BY <1>2, <1>6, <2>3
  <2>8. QED BY <1>4, <2>1, <2>2, <2>4, <2>5, <2>6, <2>7 DEF ChargeMoney
<1>9. ASSUME NEW k \in DOMAIN charges', k \notin DOMAIN charges
      PROVE  ChargeMoney(k)'
  <2>1. charges'[k].call = i /\ charges'[k].total = Charged(c.order) /\ calls[i].stage = "prepared"
    BY <1>6, <1>9
  <2>2. c.order = calls[i].order
    BY <1>5, <2>1
  <2>3. IsPriced(calls[i].order, calls[i].currency) /\ (calm => AsShown(calls[i]))
    BY <1>4, <2>1 DEF OrdersInv, CallMoney, Placed
  <2>4. IsPriced(c.order, c.currency) /\ (calm' => AsShown(c))
    BY <1>4, <1>5, <2>2, <2>3 DEF AsShown
  <2>5. \A l \in DOMAIN charges' : charges'[l].call = i => l = k
    <3>1. \A l \in DOMAIN charges : charges[l].call # i
      BY <1>7, <2>1 DEF Unrefused
    <3>2. QED BY <1>6, <1>9, <3>1
  <2>6. calls'[i] = c
    BY <1>2, <1>3
  <2>7. QED BY <2>1, <2>4, <2>5, <2>6 DEF ChargeMoney
<1>10. QED BY <1>8, <1>9 DEF TotalsInv

\* and of the order page.
LEMMA PageMoved ==
    ASSUME BrowserTypes, PageInv, NEW i, NEW c, OrderMoves(i, c)
    PROVE  PageInv'
<1>1. PICK t : t = calls'
  OBVIOUS
<1>2. DOMAIN t = DOMAIN calls /\ t[i] = c /\ \A j \in DOMAIN calls : j # i => t[j] = calls[j]
  BY <1>1, MovedCalls
<1>3. i \in DOMAIN calls /\ c.kind = "order" /\ InFlight(i)
  BY DEF OrderMoves
<1>4. SUFFICES ASSUME order' # None
               PROVE  \E j \in DOMAIN t :
                        /\ t[j].kind = "order" /\ t[j].stage = "ok" /\ t[j].status = 200
                        /\ t[j].order = order'
  BY <1>1 DEF PageInv
<1>5. CASE order' = order
  <2>1. PICK j \in DOMAIN calls : /\ calls[j].kind = "order" /\ calls[j].stage = "ok"
                                  /\ calls[j].status = 200 /\ calls[j].order = order
    BY <1>4, <1>5 DEF PageInv
  <2>2. j # i
    BY <1>3, <2>1 DEF InFlight
  <2>3. QED BY <1>2, <1>5, <2>1, <2>2
<1>6. CASE c.stage = "ok" /\ c.status = 200 /\ order' = c.order
  BY <1>2, <1>3, <1>6
<1>7. QED BY <1>5, <1>6 DEF OrderMoves

\* A step of an order keeps what is said of money.
LEMMA OrderKeeps ==
    ASSUME BrowserInv, MoneyInv, NEW i, NEW c, OrderMoves(i, c)
    PROVE  MoneyInv'
<1>1. BrowserTypes /\ OrdersInv /\ TotalsInv /\ PageInv /\ Positive(wanted)
  BY DEF BrowserInv, MoneyInv
<1>2. Positive(wanted')
  BY <1>1 DEF OrderMoves, Positive, Empty
<1>3. OrdersInv' /\ TotalsInv' /\ PageInv'
  BY <1>1, OrdersMoved, TotalsMoved, PageMoved
<1>4. QED BY <1>2, <1>3 DEF MoneyInv, Positive

\* A call that is no order goes on.
ChangeMoves(i, c) ==
    /\ i \in DOMAIN calls /\ calls[i].kind # "order" /\ InFlight(i)
    /\ c.kind # "order" /\ calls' = [calls EXCEPT ![i] = c]
    /\ charges' = charges /\ (calm' => calm)
    /\ order' \in {order, None}
    /\ wanted' = wanted

\* It has nothing to do with money.
LEMMA ChangeKeeps ==
    ASSUME BrowserInv, MoneyInv, NEW i, NEW c, ChangeMoves(i, c)
    PROVE  MoneyInv'
<1>1. BrowserTypes /\ ChargeInv /\ CalmInv /\ Positive(wanted)
  BY DEF BrowserInv, MoneyInv
<1>2. PICK t : t = calls'
  OBVIOUS
<1>3. calls \in Seq(Range(calls)) /\ i \in DOMAIN calls /\ t = [calls EXCEPT ![i] = c]
  BY <1>1, <1>2 DEF BrowserTypes, ChangeMoves
<1>4. DOMAIN t = DOMAIN calls /\ t[i] = c /\ \A j \in DOMAIN calls : j # i => t[j] = calls[j]
  BY <1>3, Replaced
<1>5. /\ calls[i].kind # "order" /\ c.kind # "order" /\ charges' = charges /\ (calm' => calm)
      /\ order' \in {order, None} /\ wanted' = wanted /\ InFlight(i)
  BY DEF ChangeMoves
<1>6. \A j \in DOMAIN calls : calls[j].kind = "order" => t[j] = calls[j]
  BY <1>4, <1>5
<1>7. \A j \in DOMAIN calls : calls[j].kind # "order" => t[j].kind # "order"
  BY <1>4, <1>5
<1>8. Untouched
  BY <1>2, <1>4, <1>5, <1>6, <1>7 DEF Untouched, SameMoney
<1>9. ASSUME NEW j \in DOMAIN calls, calm', calls[j].kind = "order", calls[j].stage = "asked"
      PROVE  FALSE
  <2>1. calm /\ InFlight(j)
    BY <1>5, <1>9 DEF InFlight
  <2>2. QED BY <1>1, <1>3, <1>5, <1>9, <2>1 DEF CalmInv
<1>10. DOMAIN calls' = DOMAIN calls
  BY <1>2, <1>4
<1>11. Positive(wanted')
  BY <1>1, <1>5
<1>12. QED BY <1>1, <1>5, <1>8, <1>9, <1>10, <1>11, UntouchedKeeps

\* The cart service's part in a change, also when it fails.
LEMMA ChangeStepKeeps ==
    ASSUME BrowserInv, MoneyInv, NEW i \in DOMAIN calls,
           AddItemReads(i) \/ AddItemWrites(i) \/ EmptyCartWrites(i) \/ ChangeFails(i)
    PROVE  MoneyInv'
<1>1. IsCall(calls[i]) /\ calm \in BOOLEAN
  BY DEF BrowserInv, BrowserTypes
<1>2. /\ calls[i].kind # "order" /\ calls[i].stage \in {"asked", "adding", "done"}
      /\ charges' = charges /\ order' = order /\ wanted' = wanted
  BY <1>1 DEF AddItemReads, AddItemWrites, EmptyCartWrites, ChangeFails, Step, Failure
<1>3. calm' => calm
  BY DEF AddItemReads, AddItemWrites, EmptyCartWrites, ChangeFails, Step, Failure
<1>4. PICK c : c.kind = calls[i].kind /\ calls' = [calls EXCEPT ![i] = c]
  <2>1. CASE AddItemReads(i)
    <3>1. PICK c : c = [calls[i] EXCEPT !.stage = "adding", !.items = cart]
      OBVIOUS
    <3>2. c.kind = calls[i].kind /\ calls' = [calls EXCEPT ![i] = c]
      BY <1>1, <2>1, <3>1 DEF AddItemReads, Step, IsCall
    <3>3. QED BY <3>2
  <2>2. CASE AddItemWrites(i)
    <3>1. PICK c : c = [calls[i] EXCEPT !.stage = "done", !.status = 200]
      OBVIOUS
    <3>2. c.kind = calls[i].kind /\ calls' = [calls EXCEPT ![i] = c]
      BY <1>1, <2>2, <3>1 DEF AddItemWrites, Step, IsCall
    <3>3. QED BY <3>2
  <2>3. CASE EmptyCartWrites(i)
    <3>1. PICK c : c = [calls[i] EXCEPT !.stage = "done", !.status = 204]
      OBVIOUS
    <3>2. c.kind = calls[i].kind /\ calls' = [calls EXCEPT ![i] = c]
      BY <1>1, <2>3, <3>1 DEF EmptyCartWrites, Step, IsCall
    <3>3. QED BY <3>2
  <2>4. CASE ChangeFails(i)
    <3>1. PICK c : c = [calls[i] EXCEPT !.stage = "done", !.status = 500]
      OBVIOUS
    <3>2. c.kind = calls[i].kind /\ calls' = [calls EXCEPT ![i] = c]
      BY <1>1, <2>4, <3>1 DEF ChangeFails, Failure, Failed, IsCall
    <3>3. QED BY <3>2
  <2>5. QED BY <2>1, <2>2, <2>3, <2>4
<1>5. InFlight(i)
  BY <1>2 DEF InFlight
<1>6. ChangeMoves(i, c)
  BY <1>2, <1>3, <1>4, <1>5 DEF ChangeMoves
<1>7. QED BY <1>6, ChangeKeeps

\* Fetches and currencies leave the calls.
LEMMA PageStepKeeps ==
    ASSUME BrowserInv, MoneyInv,
           \/ \E c \in Currencies : SelectCurrency(c) \/ ReadCart(c) \/ ShowCart(c) \/ ReadFails(c)
           \/ ShowShipping \/ Focus
    PROVE  MoneyInv'
<1>1. calls' = calls /\ charges' = charges /\ order' = order /\ wanted' = wanted /\ cart' = cart
  BY DEF SelectCurrency, ReadCart, ShowCart, ReadFails, ShowShipping, Focus
<1>2. calm' => calm
  BY DEF SelectCurrency, ReadCart, ShowCart, ReadFails, ShowShipping, Focus, Upset
<1>3. Untouched
  BY <1>1, <1>2 DEF Untouched, SameMoney
<1>4. ChargeInv /\ Positive(wanted') /\ DOMAIN calls' = DOMAIN calls
  BY <1>1 DEF BrowserInv, MoneyInv
<1>5. QED BY <1>1, <1>3, <1>4, UntouchedKeeps

\* The page that is loaded anew forgets its calls, and no order is changed by it.
LEMMA ReloadMoneyKeeps ==
    ASSUME BrowserInv, MoneyInv, Reload
    PROVE  MoneyInv'
<1>1. BrowserTypes /\ ChargeInv
  BY DEF BrowserInv
<1>2. PICK t : t = calls' /\ t = [i \in DOMAIN calls |-> [calls[i] EXCEPT !.here = FALSE]]
  BY DEF Reload
<1>3. charges' = charges /\ order' = None /\ wanted' = wanted /\ cart' = cart /\ (calm' => calm)
  BY DEF Reload
<1>4. ASSUME NEW i \in DOMAIN calls
      PROVE  SameMoney(t[i], calls[i])
  <2>1. PICK c : c = t[i]
    OBVIOUS
  <2>2. PICK d : d = calls[i]
    OBVIOUS
  <2>3. c = [d EXCEPT !.here = FALSE] /\ IsCall(d)
    BY <1>1, <1>2, <2>1, <2>2 DEF BrowserTypes
  <2>4. SameMoney(c, d)
    BY <2>3 DEF IsCall, SameMoney
  <2>5. QED BY <2>1, <2>2, <2>4
<1>5. DOMAIN t = DOMAIN calls
  BY <1>2
<1>6. Untouched
  BY <1>2, <1>3, <1>4, <1>5 DEF Untouched, SameMoney
<1>7. Positive(wanted') /\ DOMAIN calls' = DOMAIN calls
  BY <1>2, <1>3, <1>5 DEF MoneyInv
<1>8. QED BY <1>1, <1>3, <1>6, <1>7, UntouchedKeeps

\* A call is sent, of the cart the page shows.
LEMMA AskMoneyKeeps ==
    ASSUME BrowserInv, MoneyInv, NEW call, Ask(call), call.stage = "asked", call.status = 0,
           call.kind = "order" =>
               call.currency = selected /\ call.shown = PageTotal(Shown, selected, call.quoted),
           Positive(wanted')
    PROVE  MoneyInv'
<1>1. BrowserTypes /\ ChargeInv /\ calls \in Seq(Range(calls)) /\ selected \in Currencies
  BY DEF BrowserInv, BrowserTypes
<1>2. PICK t : t = calls' /\ t = Append(calls, call)
  BY DEF Ask
<1>3. UNCHANGED <<cart, charges, order>>
  BY DEF Ask
<1>4. calm' = (calm /\ ~(Calling \/ Fetching) /\ ~(behind /\ call.kind \in {"pick", "order"}))
  BY DEF Ask, Upset
<1>5. /\ \A j \in DOMAIN calls : t[j] = calls[j]
      /\ DOMAIN t = DOMAIN calls \cup {Len(t)} /\ Len(t) \notin DOMAIN calls /\ t[Len(t)] = call
  <2>1. calls \in Seq(Range(calls)) /\ Extends(t, calls, call)
    BY <1>1, <1>2 DEF Extends
  <2>2. \A j \in DOMAIN calls : t[j] = calls[j]
    BY ONLY <2>1, Appended, ZenonT(40)
  <2>3. DOMAIN t = DOMAIN calls \cup {Len(t)} /\ t[Len(t)] = call
    BY ONLY <2>1, Appended, ZenonT(40)
  <2>4. Len(t) \notin DOMAIN calls
    BY ONLY <2>1, Appended, ZenonT(40)
  <2>5. QED BY <2>2, <2>3, <2>4
<1>6. Untouched
  BY <1>2, <1>3, <1>4, <1>5 DEF Untouched, SameMoney
<1>7. OrdersInv /\ TotalsInv /\ PageInv /\ Positive(wanted)
  BY DEF MoneyInv
<1>8. ASSUME NEW i \in DOMAIN calls', calls'[i].kind = "order"
      PROVE  CallMoney(i)'
  <2>1. CASE i \in DOMAIN calls
    <3>1. calls[i].kind = "order"
      BY <1>2, <1>5, <1>8, <2>1
    <3>2. QED BY <1>1, <1>3, <1>6, <1>7, <2>1, <3>1, OrdersUntouched
  <2>2. CASE i = Len(t)
    <3>1. calls'[i] = call
      BY <1>2, <1>5, <2>2
    <3>2. call.currency = selected /\ call.shown = PageTotal(Shown, selected, call.quoted) /\ call.kind = "order"
      BY <1>8, <3>1
    <3>3. ~Placed(call) /\ ~Paid(call)
      BY DEF Placed, Paid
    <3>4. calm' => Positive(cart) /\ Shown = cart
      BY <1>4, <1>7, <3>2, WaitingIsWanted, QuietShows
    <3>5. calm' => Positive(cart') /\ call.shown = PageTotal(cart', call.currency, call.quoted)
      BY <1>3, <3>2, <3>4
    <3>6. QED BY <1>1, <3>1, <3>2, <3>3, <3>5 DEF CallMoney
  <2>3. QED BY <1>2, <1>5, <1>8, <2>1, <2>2
<1>9. OrdersInv'
  BY <1>8 DEF OrdersInv
<1>10. TotalsInv' /\ PageInv'
  BY <1>1, <1>3, <1>6, <1>7, TotalsUntouched, PageUntouched
<1>11. QED BY <1>9, <1>10 DEF MoneyInv, Positive

\* An order is prepared: of the cart there is, which is the cart shown if the shopper waits.
LEMMA PrepareMoney ==
    ASSUME BrowserInv, MoneyInv, NEW i \in DOMAIN calls, Prepare(i)
    PROVE  MoneyInv'
<1>1. IsCall(calls[i]) /\ calm \in BOOLEAN /\ cart \in Carts
  BY DEF BrowserInv, BrowserTypes
<1>2. PICK o : o = Priced(cart, calls[i].currency)
  OBVIOUS
<1>3. PICK c : c = [calls[i] EXCEPT !.stage = "prepared", !.order = o]
  OBVIOUS
<1>4. /\ calls[i].kind = "order" /\ calls[i].stage = "asked" /\ calls' = [calls EXCEPT ![i] = c]
      /\ UNCHANGED <<cart, charges, order, wanted, calm>>
  BY <1>2, <1>3 DEF Prepare, Step, Priced
<1>5. /\ c.kind = "order" /\ c.stage = "prepared" /\ c.status = 0 /\ c.order = o
      /\ c.currency = calls[i].currency /\ c.shown = calls[i].shown /\ c.quoted = calls[i].quoted
  BY <1>1, <1>3, <1>4 DEF IsCall
<1>6. /\ calls[i].currency \in Currencies
      /\ calm => Positive(cart) /\ calls[i].shown = PageTotal(cart, calls[i].currency, calls[i].quoted)
  BY <1>4 DEF MoneyInv, OrdersInv, CallMoney
<1>7. o.items = cart
  BY <1>2 DEF Priced
<1>8. IsPriced(c.order, c.currency) /\ (calm' => AsShown(c))
  BY <1>1, <1>2, <1>4, <1>5, <1>6, <1>7 DEF IsPriced, AsShown
<1>9. Grows(i, c.order) /\ ~Paid(c) /\ InFlight(i)
  BY <1>4, <1>5 DEF Grows, Paid, InFlight
<1>10. OrderMoves(i, c)
  BY <1>1, <1>4, <1>5, <1>8, <1>9 DEF OrderMoves
<1>11. QED BY <1>10, OrderKeeps

\* What a call of an order may become that is prepared or charged already.
Follows(i, c, stage, status) ==
    /\ c.kind = calls[i].kind /\ c.currency = calls[i].currency /\ c.shown = calls[i].shown
    /\ c.order = calls[i].order /\ c.quoted = calls[i].quoted /\ c.stage = stage /\ c.status = status

\* Its stage and status are all that changes.
Moved(i, stage, status) == [calls[i] EXCEPT !.stage = stage, !.status = status]

LEMMA FollowsIs ==
    ASSUME NEW i, IsCall(calls[i]), NEW stage, NEW status, NEW c, c = Moved(i, stage, status)
    PROVE  Follows(i, c, stage, status)
  BY DEF IsCall, Follows, Moved

\* A call that fails, or is refused, is neither placed nor paid.
LEMMA FailedMoney ==
    ASSUME BrowserInv, MoneyInv, NEW i \in DOMAIN calls,
           PrepareFails(i) \/ ShipFails(i) \/ DetailsFail(i)
    PROVE  MoneyInv'
<1>1. IsCall(calls[i]) /\ calm \in BOOLEAN
  BY DEF BrowserInv, BrowserTypes
<1>2. PICK c : c = Moved(i, "done", 500)
  OBVIOUS
<1>3. /\ calls[i].kind = "order" /\ calls[i].stage \in {"asked", "charged", "done"}
      /\ calls' = [calls EXCEPT ![i] = c] /\ UNCHANGED <<charges, order, wanted>>
  BY <1>2 DEF PrepareFails, ShipFails, DetailsFail, Failure, Failed, StatusOf, Moved
<1>4. calm' \in BOOLEAN /\ (calm' => calm)
  BY <1>1, Zenon DEF PrepareFails, ShipFails, DetailsFail, Failure
<1>5. Follows(i, c, "done", 500)
  BY <1>1, <1>2, FollowsIs
<1>6. Grows(i, c.order) /\ ~Paid(c) /\ ~Placed(c) /\ InFlight(i)
  BY <1>3, <1>5 DEF Grows, Paid, Placed, InFlight, Follows
<1>7. OrderMoves(i, c)
  BY <1>1, <1>3, <1>4, <1>5, <1>6 DEF OrderMoves, Follows
<1>8. QED BY <1>7, OrderKeeps

\* An order is shipped, its cart emptied or not.
LEMMA ShippedMoney ==
    ASSUME BrowserInv, MoneyInv, NEW i \in DOMAIN calls, Ship(i) \/ EmptyFails(i)
    PROVE  MoneyInv'
<1>1. IsCall(calls[i]) /\ calm \in BOOLEAN
  BY DEF BrowserInv, BrowserTypes
<1>2. PICK c : c = Moved(i, "done", 200)
  OBVIOUS
<1>3. /\ calls[i].kind = "order" /\ calls[i].stage = "charged"
      /\ calls' = [calls EXCEPT ![i] = c] /\ UNCHANGED <<charges, order, wanted>>
  BY <1>2 DEF Ship, Step, EmptyFails, Failure, Moved
<1>4. calm' \in BOOLEAN /\ (calm' => calm)
  <2>1. CASE Ship(i)
    BY <1>1, <2>1 DEF Ship, Step
  <2>2. CASE EmptyFails(i)
    BY <1>1, <2>2, Zenon DEF EmptyFails, Failure
  <2>3. QED BY <2>1, <2>2
<1>5. Follows(i, c, "done", 200)
  BY <1>1, <1>2, FollowsIs
<1>6. Placed(calls[i]) /\ Paid(calls[i]) /\ CallMoney(i)
  BY <1>3 DEF Placed, Paid, MoneyInv, OrdersInv
<1>7. /\ IsPriced(calls[i].order, calls[i].currency) /\ (calm => AsShown(calls[i]))
      /\ \E k \in DOMAIN charges : charges[k].call = i
  BY <1>6 DEF CallMoney
<1>8. IsPriced(c.order, c.currency) /\ (calm' => AsShown(c)) /\ \E k \in DOMAIN charges' : charges'[k].call = i
  BY <1>3, <1>4, <1>5, <1>7 DEF Follows, AsShown
<1>9. Grows(i, c.order) /\ InFlight(i)
  BY <1>3 DEF Grows, InFlight
<1>10. OrderMoves(i, c)
  BY <1>3, <1>4, <1>5, <1>8, <1>9 DEF OrderMoves, Follows
<1>11. QED BY <1>10, OrderKeeps

\* The charge of an order, refused, or made and its answer perhaps lost.
LEMMA ChargedMoney ==
    ASSUME BrowserInv, MoneyInv, NEW i \in DOMAIN calls, Charge(i) \/ ChargeUnanswered(i)
    PROVE  MoneyInv'
<1>1. IsCall(calls[i]) /\ calm \in BOOLEAN /\ charges \in Seq(Range(charges))
  BY DEF BrowserInv, BrowserTypes
<1>2. calls[i].kind = "order" /\ calls[i].stage = "prepared" /\ calls[i].status = 0
  <2>1. calls[i].kind = "order" /\ calls[i].stage = "prepared"
    BY Zenon DEF Charge, Refuse, Step, ChargeUnanswered
  <2>2. QED BY ONLY <1>1, <2>1 DEF IsCall
<1>3. PICK charge : charge = [call |-> i, currency |-> calls[i].currency, total |-> Charged(calls[i].order)]
  OBVIOUS
<1>4. charge.call = i /\ charge.total = Charged(calls[i].order)
  BY <1>3
<1>5. PICK c : c = calls'[i]
  OBVIOUS
<1>6. ASSUME NEW d, calls' = [calls EXCEPT ![i] = d]
      PROVE  c = d
  BY <1>5, <1>6
<1>7. /\ calls' = [calls EXCEPT ![i] = c]
      /\ c.kind = "order" /\ c.currency = calls[i].currency /\ c.shown = calls[i].shown
      /\ c.quoted = calls[i].quoted
      /\ c.order = calls[i].order /\ c.stage \in {"charged", "done"} /\ c.status \in {0, 422, 500}
      /\ charges' = charges \/ charges' = Append(charges, charge)
      /\ c.stage = "charged" => charges' = Append(charges, charge)
  <2>1. CASE /\ calls' = [calls EXCEPT ![i] = [calls[i] EXCEPT !.stage = "charged"]]
             /\ charges' = Append(charges, charge)
    <3>1. c = [calls[i] EXCEPT !.stage = "charged"]
      BY <2>1, <1>6
    <3>2. Follows(i, c, "charged", 0)
      BY <1>1, <1>2, <3>1 DEF IsCall, Follows
    <3>3. QED BY <1>2, <2>1, <3>1, <3>2 DEF Follows
  <2>2. CASE /\ calls' = [calls EXCEPT ![i] = Moved(i, "done", 422)]
             /\ charges' = charges
    <3>1. c = Moved(i, "done", 422)
      BY <2>2, <1>6
    <3>2. Follows(i, c, "done", 422)
      BY <1>1, <3>1, FollowsIs
    <3>3. QED BY <1>2, <2>2, <3>1, <3>2 DEF Follows
  <2>3. CASE /\ calls' = [calls EXCEPT ![i] = Moved(i, "done", 500)]
             /\ charges' = charges \/ charges' = Append(charges, charge)
    <3>1. c = Moved(i, "done", 500)
      BY <2>3, <1>6
    <3>2. Follows(i, c, "done", 500)
      BY <1>1, <3>1, FollowsIs
    <3>3. QED BY <1>2, <2>3, <3>1, <3>2 DEF Follows
  <2>4. CASE Charge(i)
    BY <1>3, <2>1, <2>2, <2>4 DEF Charge, Refuse, Step, StatusOf, Moved
  <2>5. CASE ChargeUnanswered(i)
    BY <1>3, <2>3, <2>5 DEF ChargeUnanswered, Failure, Failed, StatusOf, Moved
  <2>6. QED BY <2>4, <2>5
<1>8. UNCHANGED <<order, wanted, calm>>
  <2>1. CASE Charge(i)
    BY <2>1 DEF Charge, Refuse, Step
  <2>2. CASE ChargeUnanswered(i)
    <3>1. calm' = calm
      BY <1>1, <2>2, Zenon DEF ChargeUnanswered, Failure
    <3>2. UNCHANGED <<order, wanted>>
      BY <2>2 DEF ChargeUnanswered, Failure
    <3>3. QED BY <3>1, <3>2
  <2>3. QED BY <2>1, <2>2
<1>9. IsPriced(calls[i].order, calls[i].currency) /\ (calm => AsShown(calls[i]))
  BY <1>2 DEF MoneyInv, OrdersInv, CallMoney, Placed
<1>10. IsPriced(c.order, c.currency) /\ (calm' => AsShown(c))
  BY <1>7, <1>8, <1>9 DEF AsShown
<1>11. Grows(i, c.order)
  BY <1>2, <1>4, <1>7 DEF Grows, Extends
<1>12. Paid(c) => \E k \in DOMAIN charges' : charges'[k].call = i
  <2>1. SUFFICES ASSUME Paid(c)
                 PROVE  \E k \in DOMAIN charges' : charges'[k].call = i
    OBVIOUS
  <2>2. PICK t : t = charges'
    OBVIOUS
  <2>3. Extends(t, charges, charge)
    BY <1>7, <2>1, <2>2 DEF Paid, Extends
  <2>4. DOMAIN t = DOMAIN charges \cup {Len(t)} /\ t[Len(t)] = charge
    BY ONLY <1>1, <2>3, Appended, ZenonT(40)
  <2>5. QED BY <1>4, <2>2, <2>4
<1>13. InFlight(i)
  BY <1>2 DEF InFlight
<1>14. OrderMoves(i, c)
  BY <1>1, <1>2, <1>7, <1>8, <1>10, <1>11, <1>12, <1>13 DEF OrderMoves
<1>15. QED BY <1>14, OrderKeeps

\* The answer of an order sends the shopper to its page, and only if it was placed.
LEMMA AnsweredMoney ==
    ASSUME BrowserInv, MoneyInv, NEW i \in DOMAIN calls, Answer(i)
    PROVE  MoneyInv'
<1>1. IsCall(calls[i]) /\ calm \in BOOLEAN
  BY DEF BrowserInv, BrowserTypes
<1>2. PICK stage : stage = IF calls[i].status < 300 THEN "ok" ELSE "failed"
  OBVIOUS
<1>3. PICK c : c = [calls[i] EXCEPT !.stage = stage]
  OBVIOUS
<1>4. /\ calls[i].stage = "done" /\ calls' = [calls EXCEPT ![i] = c] /\ UNCHANGED <<charges, calm>>
  BY <1>2, <1>3 DEF Answer
<1>5. Follows(i, c, stage, calls[i].status)
  BY <1>1, <1>3 DEF IsCall, Follows
<1>6. InFlight(i)
  BY <1>4 DEF InFlight
<1>7. CASE calls[i].kind = "order"
  <2>1. CallMoney(i) /\ calls[i].status \in {200, 422, 500}
    BY <1>1, <1>4, <1>7 DEF IsCall, MoneyInv, OrdersInv
  <2>2. stage \in {"ok", "failed"} /\ (stage = "ok" <=> calls[i].status = 200)
    BY <1>2, <2>1
  <2>3. Placed(c) <=> Placed(calls[i])
    BY <1>4, <1>5, <2>2 DEF Follows, Placed
  <2>4. Paid(c) <=> Paid(calls[i])
    BY <1>4, <1>5, <2>2 DEF Follows, Paid
  <2>5. Placed(c) => IsPriced(c.order, c.currency) /\ (calm' => AsShown(c))
    BY <1>4, <1>5, <2>1, <2>3 DEF Follows, CallMoney, AsShown
  <2>6. Paid(c) => \E k \in DOMAIN charges' : charges'[k].call = i
    BY <1>4, <2>1, <2>4 DEF CallMoney
  <2>7. /\ wanted' = wanted \/ wanted' = Empty
        /\ order' = order \/ (stage = "ok" /\ order' = calls[i].order)
    BY <1>2, <1>7 DEF Answer
  <2>8. Grows(i, c.order)
    BY <1>4 DEF Grows
  <2>9. OrderMoves(i, c)
    BY <1>1, <1>4, <1>5, <1>6, <1>7, <2>2, <2>5, <2>6, <2>7, <2>8 DEF OrderMoves, Follows
  <2>10. QED BY <2>9, OrderKeeps
<1>8. CASE calls[i].kind # "order"
  <2>1. order' \in {order, None} /\ wanted' = wanted
    BY <1>1, <1>8 DEF Answer, IsCall
  <2>2. ChangeMoves(i, c)
    BY <1>4, <1>5, <1>6, <1>8, <2>1 DEF ChangeMoves, Follows
  <2>3. QED BY <2>2, ChangeKeeps
<1>9. QED BY <1>7, <1>8

\* What is picked is more than none.
LEMMA PickedPositive ==
    ASSUME NEW items \in Carts, NEW p \in Products, NEW n \in Quantities, Positive(items)
    PROVE  Positive(Added(items, p, n)) /\ Positive([Added(items, p, 0) EXCEPT ![p] = n])
<1>1. n \in Nat /\ n > 0
  BY QuantityAssumption
<1>2. PICK a : a = Added(items, p, n)
  OBVIOUS
<1>3. PICK b : b = Added(items, p, 0)
  OBVIOUS
<1>4. \A r \in DOMAIN items : items[r] \in Int /\ items[r] > 0
  BY DEF Positive, Carts
<1>5. \A r : Quantity(items, r) = IF r \in DOMAIN items THEN items[r] ELSE 0
  BY DEF Quantity
<1>6. DOMAIN a = DOMAIN items \cup {p}
  BY <1>2 DEF Added
<1>7. DOMAIN b = DOMAIN items \cup {p}
  BY <1>3 DEF Added
<1>8. \A r \in DOMAIN items \cup {p} : a[r] = Quantity(items, r) + IF r = p THEN n ELSE 0
  BY <1>2 DEF Added
<1>9. \A r \in DOMAIN items \cup {p} : b[r] = Quantity(items, r) + IF r = p THEN 0 ELSE 0
  BY <1>3 DEF Added
<1>10. \A r \in DOMAIN a : a[r] > 0
  BY <1>1, <1>4, <1>5, <1>6, <1>8
<1>11. \A r \in DOMAIN b : r # p => b[r] > 0
  BY <1>4, <1>5, <1>7, <1>9
<1>12. PICK d : d = [b EXCEPT ![p] = n]
  OBVIOUS
<1>13. DOMAIN d = DOMAIN b /\ d[p] = n /\ \A r \in DOMAIN b : r # p => d[r] = b[r]
  BY <1>7, <1>12
<1>14. \A r \in DOMAIN d : d[r] > 0
  BY <1>1, <1>11, <1>13
<1>15. QED BY <1>2, <1>3, <1>10, <1>12, <1>14 DEF Positive

\* A call says what the page showed when it was sent.
LEMMA CallShows ==
    ASSUME NEW kind, NEW p, NEW q, NEW card, NEW c, c = Call(kind, p, q, card)
    PROVE  /\ c.kind = kind /\ c.stage = "asked" /\ c.status = 0
           /\ c.currency = selected
           /\ kind = "order" => c.shown = PageTotal(Shown, selected, c.quoted)
<1> DEFINE told == kind = "order" /\ quoted
           total == IF kind = "order" THEN CartTotal(Shown, selected, ShippingShown(Shown, selected, quoted))
                    ELSE Zero
<1>1. c = [kind |-> kind, product |-> p, quantity |-> q, card |-> card, currency |-> selected,
           stage |-> "asked", items |-> Empty, quoted |-> told, shown |-> total, order |-> None,
           status |-> 0, here |-> TRUE]
  BY DEF Call
<1>2. ASSUME kind = "order"
      PROVE  total = PageTotal(Shown, selected, told)
  BY <1>2 DEF PageTotal, ShippingShown
<1> HIDE DEF told, total
<1>3. /\ c.kind = kind /\ c.stage = "asked" /\ c.status = 0
      /\ c.currency = selected /\ c.shown = total /\ c.quoted = told
  BY <1>1
<1>4. QED BY <1>2, <1>3

\* Each of the shopper's buttons.
LEMMA ShopperMoney ==
    ASSUME BrowserInv, MoneyInv,
           \/ \E p \in Products, q \in Quantities : AddToCart(p, q) \/ Pick(p, q)
           \/ EmptyCart
           \/ \E card \in Cards : PlaceOrder(card)
    PROVE  MoneyInv'
<1>1. wanted \in Carts /\ Positive(wanted)
  BY DEF BrowserInv, BrowserTypes, MoneyInv
<1>2. PICK c : Ask(c) /\ Positive(wanted') /\ \E kind, p, q, card : c = Call(kind, p, q, card)
  <2>1. ASSUME NEW p \in Products, NEW n \in Quantities
        PROVE  Positive(Added(wanted, p, n)) /\ Positive([Added(wanted, p, 0) EXCEPT ![p] = n])
    BY <1>1, PickedPositive
  <2>2. ASSUME NEW p \in Products, NEW q \in Quantities, AddToCart(p, q)
        PROVE  Ask(Call("add", p, q, None)) /\ Positive(wanted')
    BY <2>1, <2>2, Zenon DEF AddToCart
  <2>3. ASSUME NEW p \in Products, NEW q \in Quantities, Pick(p, q)
        PROVE  Ask(Call("pick", p, Delta(p, q), None)) /\ Positive(wanted')
    BY <2>1, <2>3, Zenon DEF Pick
  <2>4. Positive(Empty)
    BY DEF Positive, Empty
  <2>5. ASSUME EmptyCart
        PROVE  Ask(Call("empty", None, 0, None)) /\ Positive(wanted')
    BY <2>4, <2>5, Zenon DEF EmptyCart
  <2>6. ASSUME NEW card \in Cards, PlaceOrder(card)
        PROVE  Ask(Call("order", None, 0, card)) /\ Positive(wanted')
    BY <1>1, <2>6, Zenon DEF PlaceOrder
  <2>7. QED BY <2>2, <2>3, <2>5, <2>6, Zenon
<1>3. /\ c.stage = "asked" /\ c.status = 0
      /\ c.kind = "order" => c.currency = selected /\ c.shown = PageTotal(Shown, selected, c.quoted)
  BY <1>2, CallShows
<1>4. QED BY <1>2, <1>3, AskMoneyKeeps

\* A step of the browser is one of these.
LEMMA MoneyKeeps ==
    ASSUME BrowserInv, MoneyInv, Next
    PROVE  MoneyInv'
<1>1. CASE Shop
  BY <1>1, ShopperMoney, PageStepKeeps, ReloadMoneyKeeps, Zenon DEF Shop
<1>2. CASE Serve
  BY <1>2, PageStepKeeps, ChangeStepKeeps, PrepareMoney, ChargedMoney, ShippedMoney,
     AnsweredMoney, Zenon DEF Serve
<1>3. CASE Fail
  BY <1>3, PageStepKeeps, ChangeStepKeeps, FailedMoney, ChargedMoney, ShippedMoney, Zenon DEF Fail
<1>4. QED BY <1>1, <1>2, <1>3 DEF Next

\* Nothing is ordered yet.
LEMMA MoneyBegins ==
    ASSUME Init
    PROVE  MoneyInv
<1>1. charges = <<>> /\ calls = <<>> /\ order = None /\ wanted = Empty
  BY DEF Init
<1>2. DOMAIN calls = {} /\ DOMAIN charges = {} /\ DOMAIN wanted = {}
  BY <1>1 DEF Empty
<1>3. QED BY <1>1, <1>2 DEF MoneyInv, Positive, OrdersInv, TotalsInv, PageInv

\* The inductive invariant of money: an order is of the cart that was shown, priced
\* as checkout prices it, and charged that once.
THEOREM MoneyInvariant == ShopsSpec => []MoneyInv
<1>1. ShopsInit => MoneyInv
  BY MoneyBegins DEF ShopsInit
<1>2. IInv /\ MoneyInv /\ [ShopsNext]_<<client, vars, appVars>> => MoneyInv'
  <2> SUFFICES ASSUME IInv, MoneyInv, [ShopsNext]_<<client, vars, appVars>>
               PROVE  MoneyInv'
    OBVIOUS
  <2>1. BrowserInv
    BY DEF IInv
  <2>2. ASSUME UNCHANGED vars
        PROVE  MoneyInv'
    <3>1. UNCHANGED <<cart, charges, calls, order, wanted, calm>>
      BY <2>2 DEF vars
    <3>2. Untouched /\ ChargeInv /\ Positive(wanted') /\ DOMAIN calls' = DOMAIN calls
      BY <2>1, <3>1 DEF Untouched, SameMoney, BrowserInv, MoneyInv
    <3>3. QED BY <3>1, <3>2, UntouchedKeeps
  <2>3. CASE BrowserStep
    BY <2>1, <2>3, MoneyKeeps DEF BrowserStep
  <2>4. CASE AppStep
    BY <2>2, <2>4 DEF AppStep
  <2>5. CASE UNCHANGED <<client, vars, appVars>>
    BY <2>2, <2>5
  <2>6. QED BY <2>3, <2>4, <2>5 DEF ShopsNext
<1>3. QED BY <1>1, <1>2, InductiveInvariant, PTL DEF ShopsSpec

\* The items of an order that is priced as a function of a finite set of products.
LEMMA PricedItems ==
    ASSUME NEW o, NEW c, IsPriced(o, c), Positive(o.items)
    PROVE  \E S \in SUBSET Products : o.items \in [S -> Nat \ {0}] /\ DOMAIN o.items = S
<1>1. PICK items \in Carts : items = o.items
  BY DEF IsPriced
<1>2. PICK S \in SUBSET Products : items \in [S -> Int]
  BY DEF Carts
<1>3. DOMAIN items = S /\ \A p \in S : items[p] > 0 /\ items[p] \in Int
  BY <1>1, <1>2 DEF Positive
<1>4. items \in [S -> Nat \ {0}]
  BY <1>2, <1>3
<1>5. QED BY <1>1, <1>3, <1>4

\* A charge and what was shown differ by what is misread and what is cut.
ShownIsCharged(k) ==
    LET call == calls[charges[k].call]
        items == call.order.items
        untold == IF call.quoted THEN 0 ELSE Value(call.order.shippingCost)
        lost == Value(call.shown) + untold - Value(charges[k].total)
    IN  IF call.currency = Default
        THEN lost + Misread(items) \in 0..SumOf(items, DOMAIN items)
        ELSE lost = 0

\* The card is charged what the cart page showed when the order was sent, and the
\* shipping if the page had no answer about it, for any
\* prices, rates that make numbers of numbers, and any quantities: to the nano in a
\* converted currency, and in the catalogue's own but for what the currency service
\* reads too much into a price and the nano each piece may lose (CartItems.tsx,
\* PlaceOrder of checkout, getDouble).
THEOREM ChargedWhatWasShown == Rates => (ShopsSpec => []ChargedAsShown)
<1> SUFFICES ASSUME Rates
             PROVE  ShopsSpec => []ChargedAsShown
  OBVIOUS
<1>1. MoneyInv => ChargedAsShown
  <2>1. ASSUME MoneyInv, calm, NEW k \in DOMAIN charges
        PROVE  ShownIsCharged(k)
    <3>1. PICK call : call = calls[charges[k].call]
      OBVIOUS
    <3>2. IsPriced(call.order, call.currency) /\ AsShown(call) /\ charges[k].total = Charged(call.order)
      BY <2>1, <3>1 DEF MoneyInv, TotalsInv, ChargeMoney
    <3>3. PICK S \in SUBSET Products : call.order.items \in [S -> Nat \ {0}] /\ DOMAIN call.order.items = S
      BY <3>2, PricedItems DEF AsShown
    <3>4. PICK items \in [S -> Nat \ {0}], c \in Currencies, o \in {call.order} :
            /\ items = call.order.items /\ c = call.currency
            /\ o = Priced(items, c) /\ DOMAIN items = S
      BY <3>2, <3>3 DEF IsPriced
    <3>5. Explained(Lost(items, c, o, call.quoted), items, c, S)
      BY <3>4, CartIsCharged
    <3>6. ShownIsCharged(k) <=> Explained(Lost(items, c, o, call.quoted), items, c, S)
      BY <3>1, <3>2, <3>4 DEF ShownIsCharged, AsShown, Lost, Explained
    <3>7. QED BY <3>5, <3>6
  <2>2. (calm => \A k \in DOMAIN charges : ShownIsCharged(k)) => ChargedAsShown
    BY DEF ChargedAsShown, ShownIsCharged, Misread, SumOf
  <2>3. QED BY <2>1, <2>2
<1>2. QED BY <1>1, MoneyInvariant, PTL

\* The order page shows what its order was charged, and that order was charged once,
\* whatever is bought, in any currency (checkout/[orderId], MultiplySlow, chargeCard).
THEOREM PageShowsTheCharge == Rates => (ShopsSpec => []OrderPageShowsCharge)
<1> SUFFICES ASSUME Rates
             PROVE  ShopsSpec => []OrderPageShowsCharge
  OBVIOUS
<1>1. MoneyInv => OrderPageShowsCharge
  <2> SUFFICES ASSUME MoneyInv, order # None, Positive(order.items)
               PROVE  \E k \in DOMAIN charges :
                        /\ calls[charges[k].call].order = order
                        /\ OrderTotal(order) = charges[k].total
                        /\ \A j \in DOMAIN charges \ {k} : charges[j].call # charges[k].call
    BY DEF OrderPageShowsCharge, Positive
  <2>1. PICK i \in DOMAIN calls :
          calls[i].kind = "order" /\ calls[i].status = 200 /\ calls[i].order = order
    BY DEF MoneyInv, PageInv
  <2>2. PICK k \in DOMAIN charges : charges[k].call = i
    BY <2>1 DEF MoneyInv, OrdersInv, CallMoney, Paid
  <2>3. /\ IsPriced(order, calls[i].currency) /\ charges[k].total = Charged(order)
        /\ \A j \in DOMAIN charges : charges[j].call = i => j = k
    BY <2>1, <2>2 DEF MoneyInv, TotalsInv, ChargeMoney
  <2>4. PICK S \in SUBSET Products : order.items \in [S -> Nat \ {0}] /\ DOMAIN order.items = S
    BY <2>3, PricedItems
  <2>5. calls[i].currency \in Currencies /\ order = Priced(order.items, calls[i].currency)
    BY <2>3 DEF IsPriced
  <2>6. PICK items \in [S -> Nat \ {0}], c \in Currencies, o \in {order} :
          items = order.items /\ c = calls[i].currency /\ o = Priced(items, c)
    BY <2>4, <2>5
  <2>7. PICK val : val = [p \in S |-> items[p] * Value(Convert(Price[p], c))]
    OBVIOUS
  <2>8. OrderTotal(o) = Charged(o)
    BY <2>6, <2>7, PageIsCharged
  <2>9. QED BY <2>1, <2>2, <2>3, <2>6, <2>8
<1>2. QED BY <1>1, MoneyInvariant, PTL
=============================================================================
