------------------------------- MODULE Shops --------------------------------
(***************************************************************************)
(* The two clients of the shop: the browser and the phone app.  A cart     *)
(* belongs to a session, and no two sessions have one in common, so a      *)
(* behaviour follows one client and leaves out the steps of the other.     *)
(***************************************************************************)
EXTENDS Storefront

CONSTANTS Servers, Home, MaxLaunches, MaxMoves, MaxRequests, MaxTroubles    \* Mobile

ASSUME AppAssumption ==
    /\ Home \in Servers /\ None \notin Nat
    /\ {MaxLaunches, MaxMoves, MaxRequests, MaxTroubles} \subseteq Nat

VARIABLES
    client,     \* the client followed: browser or app
    user, launches, proxy, moves, applying, carts, users, data, requests, asked, owed, troubles

M == INSTANCE Mobile

appVars == <<user, launches, proxy, moves, applying, carts, users, data, requests, asked, owed, troubles>>

ShopsInit == client \in {"browser", "app"} /\ Init /\ M!Init

BrowserStep == client = "browser" /\ Next /\ UNCHANGED <<client, appVars>>
AppStep == client = "app" /\ M!Next /\ UNCHANGED <<client, vars>>

ShopsNext == BrowserStep \/ AppStep

ShopsSpec == ShopsInit /\ [][ShopsNext]_<<client, vars, appVars>>

-------------------------------------------------------------------------------
\* Once nothing is on its way, a shopper who waits for each change sees the cart
\* picked (CartIsAsPicked), and the app the cart of the shop it is set to
\* (CartIsOfTheShop), whichever fetches the changes overtook.
CartIsShown == CartIsAsPicked /\ M!CartIsOfTheShop

\* The app sends every request for the one session it keeps (getSession).
OneSession == M!OneSession
=============================================================================
