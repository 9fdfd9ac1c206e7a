------------------------------- MODULE Protos -------------------------------
(***************************************************************************)
(* The messages and services of the shop as its frontend speaks them       *)
(* (frontend/protos/demo.ts, generated from demo.proto): every message     *)
(* type with its fields, the binary and JSON codecs, and calls of the      *)
(* services between the frontend and peers written in other languages and  *)
(* built from another version of the schema.                               *)
(*                                                                         *)
(* An encoded message is the sequence of its fields as they stand on the   *)
(* wire, one token each; bytes and varints are left out.                   *)
(***************************************************************************)
EXTENDS Integers, Sequences, SequencesExt

CONSTANTS
    Undefined,  \* a field that has no value
    Null,       \* a null in a JSON object
    Refused,    \* the decoder has thrown
    Safe,       \* Number.MAX_SAFE_INTEGER, scaled down
    MaxEdits    \* bound: ways in which one message may differ from the frontend's own encoding

ASSUME SafeAssumption == Safe \in Nat /\ Safe > 1
ASSUME BoundAssumption == MaxEdits \in Nat

-------------------------------------------------------------------------------
(***************************************************************************)
(* Field descriptors: number, name in messages, name in demo.proto.        *)
(***************************************************************************)
Field(num, name, alias, type, repeated, of) ==
    [num |-> num, name |-> name, alias |-> alias, type |-> type, repeated |-> repeated, of |-> of]

Str(num, name, alias) == Field(num, name, alias, "string", FALSE, <<>>)
Strs(num, name, alias) == Field(num, name, alias, "string", TRUE, <<>>)
Int32(num, name, alias) == Field(num, name, alias, "int32", FALSE, <<>>)
Int64(num, name, alias) == Field(num, name, alias, "int64", FALSE, <<>>)
Bool(num, name, alias) == Field(num, name, alias, "bool", FALSE, <<>>)
Msg(num, name, alias, of) == Field(num, name, alias, "message", FALSE, of)
Msgs(num, name, alias, of) == Field(num, name, alias, "message", TRUE, of)

-------------------------------------------------------------------------------
(***************************************************************************)
(* The messages.                                                           *)
(***************************************************************************)
CartItem == <<Str(1, "productId", "product_id"), Int32(2, "quantity", "quantity")>>
AddItemRequest == <<Str(1, "userId", "user_id"), Msg(2, "item", "item", CartItem)>>
EmptyCartRequest == <<Str(1, "userId", "user_id")>>
GetCartRequest == <<Str(1, "userId", "user_id")>>
Cart == <<Str(1, "userId", "user_id"), Msgs(2, "items", "items", CartItem)>>
Empty == <<>>
ListRecommendationsRequest == <<Str(1, "userId", "user_id"), Strs(2, "productIds", "product_ids")>>
ListRecommendationsResponse == <<Strs(1, "productIds", "product_ids")>>
Money == <<
    Str(1, "currencyCode", "currency_code"), Int64(2, "units", "units"), Int32(3, "nanos", "nanos")>>
Product == <<
    Str(1, "id", "id"), Str(2, "name", "name"), Str(3, "description", "description"),
    Str(4, "picture", "picture"), Msg(5, "priceUsd", "price_usd", Money),
    Strs(6, "categories", "categories")>>
ListProductsResponse == <<Msgs(1, "products", "products", Product)>>
GetProductRequest == <<Str(1, "id", "id")>>
SearchProductsRequest == <<Str(1, "query", "query")>>
SearchProductsResponse == <<Msgs(1, "results", "results", Product)>>
Address == <<
    Str(1, "streetAddress", "street_address"), Str(2, "city", "city"), Str(3, "state", "state"),
    Str(4, "country", "country"), Str(5, "zipCode", "zip_code")>>
GetQuoteRequest == <<Msg(1, "address", "address", Address), Msgs(2, "items", "items", CartItem)>>
GetQuoteResponse == <<Msg(1, "costUsd", "cost_usd", Money)>>
ShipOrderRequest == <<Msg(1, "address", "address", Address), Msgs(2, "items", "items", CartItem)>>
ShipOrderResponse == <<Str(1, "trackingId", "tracking_id")>>
GetSupportedCurrenciesResponse == <<Strs(1, "currencyCodes", "currency_codes")>>
CurrencyConversionRequest == <<Msg(1, "from", "from", Money), Str(2, "toCode", "to_code")>>
CreditCardInfo == <<
    Str(1, "creditCardNumber", "credit_card_number"), Int32(2, "creditCardCvv", "credit_card_cvv"),
    Int32(3, "creditCardExpirationYear", "credit_card_expiration_year"),
    Int32(4, "creditCardExpirationMonth", "credit_card_expiration_month")>>
ChargeRequest == <<
    Msg(1, "amount", "amount", Money), Msg(2, "creditCard", "credit_card", CreditCardInfo)>>
ChargeResponse == <<Str(1, "transactionId", "transaction_id")>>
OrderItem == <<Msg(1, "item", "item", CartItem), Msg(2, "cost", "cost", Money)>>
OrderResult == <<
    Str(1, "orderId", "order_id"), Str(2, "shippingTrackingId", "shipping_tracking_id"),
    Msg(3, "shippingCost", "shipping_cost", Money),
    Msg(4, "shippingAddress", "shipping_address", Address), Msgs(5, "items", "items", OrderItem)>>
SendOrderConfirmationRequest == <<Str(1, "email", "email"), Msg(2, "order", "order", OrderResult)>>
PlaceOrderRequest == <<
    Str(1, "userId", "user_id"), Str(2, "userCurrency", "user_currency"),
    Msg(3, "address", "address", Address), Str(5, "email", "email"),
    Msg(6, "creditCard", "credit_card", CreditCardInfo)>>
PlaceOrderResponse == <<Msg(1, "order", "order", OrderResult)>>
AdRequest == <<Strs(1, "contextKeys", "context_keys")>>
Ad == <<Str(1, "redirectUrl", "redirect_url"), Str(2, "text", "text")>>
AdResponse == <<Msgs(1, "ads", "ads", Ad)>>
Flag == <<
    Str(1, "name", "name"), Str(2, "description", "description"), Bool(3, "enabled", "enabled")>>
GetFlagRequest == <<Str(1, "name", "name")>>
GetFlagResponse == <<Msg(1, "flag", "flag", Flag)>>
CreateFlagRequest == <<
    Str(1, "name", "name"), Str(2, "description", "description"), Bool(3, "enabled", "enabled")>>
CreateFlagResponse == <<Msg(1, "flag", "flag", Flag)>>
UpdateFlagRequest == <<Str(1, "name", "name"), Bool(2, "enabled", "enabled")>>
UpdateFlagResponse == <<>>
ListFlagsRequest == <<>>
ListFlagsResponse == <<Msgs(1, "flag", "flag", Flag)>>
DeleteFlagRequest == <<Str(1, "name", "name")>>
DeleteFlagResponse == <<>>

-------------------------------------------------------------------------------
(***************************************************************************)
(* The services: the request and the response of every method.             *)
(***************************************************************************)
Method(request, response) == [request |-> request, response |-> response]

CartService == [
    addItem |-> Method(AddItemRequest, Empty),
    getCart |-> Method(GetCartRequest, Cart),
    emptyCart |-> Method(EmptyCartRequest, Empty)]
RecommendationService == [
    listRecommendations |-> Method(ListRecommendationsRequest, ListRecommendationsResponse)]
ProductCatalogService == [
    listProducts |-> Method(Empty, ListProductsResponse),
    getProduct |-> Method(GetProductRequest, Product),
    searchProducts |-> Method(SearchProductsRequest, SearchProductsResponse)]
ShippingService == [
    getQuote |-> Method(GetQuoteRequest, GetQuoteResponse),
    shipOrder |-> Method(ShipOrderRequest, ShipOrderResponse)]
CurrencyService == [
    getSupportedCurrencies |-> Method(Empty, GetSupportedCurrenciesResponse),
    convert |-> Method(CurrencyConversionRequest, Money)]
PaymentService == [charge |-> Method(ChargeRequest, ChargeResponse)]
EmailService == [sendOrderConfirmation |-> Method(SendOrderConfirmationRequest, Empty)]
CheckoutService == [placeOrder |-> Method(PlaceOrderRequest, PlaceOrderResponse)]
AdService == [getAds |-> Method(AdRequest, AdResponse)]
FeatureFlagService == [
    getFlag |-> Method(GetFlagRequest, GetFlagResponse),
    createFlag |-> Method(CreateFlagRequest, CreateFlagResponse),
    updateFlag |-> Method(UpdateFlagRequest, UpdateFlagResponse),
    listFlags |-> Method(ListFlagsRequest, ListFlagsResponse),
    deleteFlag |-> Method(DeleteFlagRequest, DeleteFlagResponse)]

\* what a call of one of them sends in one direction
MethodsOf(service) == {service[method] : method \in DOMAIN service}
Methods == UNION {
    MethodsOf(CartService), MethodsOf(RecommendationService), MethodsOf(ProductCatalogService),
    MethodsOf(ShippingService), MethodsOf(CurrencyService), MethodsOf(PaymentService),
    MethodsOf(EmailService), MethodsOf(CheckoutService), MethodsOf(AdService),
    MethodsOf(FeatureFlagService)}
Types == {method.request : method \in Methods} \cup {method.response : method \in Methods}

-------------------------------------------------------------------------------
(***************************************************************************)
(* The codecs.                                                             *)
(***************************************************************************)
Names(type) == {type[i].name : i \in DOMAIN type}
Named(type, name) == type[CHOOSE i \in DOMAIN type : type[i].name = name]

Default(f) ==
    CASE f.repeated -> <<>>
      [] f.type = "message" -> Undefined
      [] f.type = "string" -> ""
      [] f.type = "bool" -> FALSE
      [] OTHER -> 0

\* createBase...()
Base(type) == [name \in Names(type) |-> Default(Named(type, name))]

\* the low three bits of a tag
WireType(f) == IF f.type \in {"string", "message"} THEN 2 ELSE 0

\* encode: one token for a value that is not the default, one for each repeated value
RECURSIVE Encode(_, _)
Encode(type, message) ==
    LET Token(f, v) == [num |-> f.num, wire |-> WireType(f),
                        value |-> IF f.type = "message" THEN Encode(f.of, v) ELSE v]
        Tokens(f) == LET v == message[f.name]
                     IN CASE f.repeated -> [i \in DOMAIN v |-> Token(f, v[i])]
                          [] ~f.repeated /\ v = Default(f) -> <<>>
                          [] OTHER -> <<Token(f, v)>>
    IN  FlattenSeq([i \in DOMAIN type |-> Tokens(type[i])])

\* mutant: the decoder takes every varint
longToNumber_Unchecked(n) == IF n > Safe THEN Safe ELSE n

longToNumber(n) == IF n > Safe \/ n < -Safe THEN Refused ELSE n

\* mutant: a field is known by its number alone
Known_AnyWireType(type, token) == {i \in DOMAIN type : type[i].num = token.num}

\* the case of the switch, and its test of the whole tag
Known(type, token) == {i \in DOMAIN type : type[i].num = token.num /\ WireType(type[i]) = token.wire}

\* decode: tokens in the order of the wire, unknown ones skipped
RECURSIVE Decode(_, _)
Decode(type, tokens) ==
    LET Read(f, v) == CASE f.type = "message" -> Decode(f.of, v)
                        [] f.type = "int64" -> longToNumber(v)
                        [] OTHER -> v
        Put(message, f, v) ==
            CASE v = Refused -> Refused
              [] v # Refused /\ f.repeated -> [message EXCEPT ![f.name] = Append(@, v)]
              [] OTHER -> [message EXCEPT ![f.name] = v]
        Step(message, token) ==
            IF message = Refused \/ Known(type, token) = {} THEN message
            ELSE LET f == type[CHOOSE i \in Known(type, token) : TRUE]
                 IN  Put(message, f, Read(f, token.value))
    IN  FoldLeft(Step, Base(type), tokens)

\* toJSON: what is not the default, under the names of the messages
RECURSIVE ToJSON(_, _)
ToJSON(type, message) ==
    LET Text(f, v) == IF f.type = "message" THEN ToJSON(f.of, v) ELSE v
        Written(f) == LET v == message[f.name]
                      IN  IF f.repeated THEN [i \in DOMAIN v |-> Text(f, v[i])] ELSE Text(f, v)
    IN  [name \in {n \in Names(type) : message[n] # Default(Named(type, n))} |->
            Written(Named(type, name))]

Get(object, key) == IF key \in DOMAIN object THEN object[key] ELSE Undefined
isSet(v) == v # Null /\ v # Undefined

\* mutant: the names of demo.proto are not read
Given_NameOnly(object, f) == Get(object, f.name)

\* the value of a field, under either of its names
Given(object, f) ==
    IF isSet(Get(object, f.name)) THEN Get(object, f.name) ELSE Get(object, f.alias)

RECURSIVE FromJSON(_, _)
FromJSON(type, object) ==
    LET Value(f, v) == IF f.type = "message" THEN FromJSON(f.of, v) ELSE v
        Read(f) == LET v == Given(object, f)
                   IN CASE ~isSet(v) -> Default(f)
                        [] isSet(v) /\ f.repeated -> [i \in DOMAIN v |-> Value(f, v[i])]
                        [] OTHER -> Value(f, v)
    IN  [name \in Names(type) |-> Read(Named(type, name))]

\* mutant: a null is kept
Filled_Null(object, f) == IF f.name \in DOMAIN object THEN object[f.name] ELSE Default(f)

\* object.field ?? default
Filled(object, f) == IF isSet(Get(object, f.name)) THEN object[f.name] ELSE Default(f)

\* create and fromPartial: the fields given, defaults for the rest
RECURSIVE FromPartial(_, _)
FromPartial(type, object) ==
    LET Value(f, v) == IF f.type = "message" /\ isSet(v) THEN FromPartial(f.of, v) ELSE v
        Read(f) == LET v == Filled(object, f)
                   IN  IF f.repeated /\ isSet(v) THEN [i \in DOMAIN v |-> Value(f, v[i])]
                       ELSE Value(f, v)
    IN  [name \in Names(type) |-> Read(Named(type, name))]

-------------------------------------------------------------------------------
(***************************************************************************)
(* Messages the peers may send: every field at its default and not, inner  *)
(* messages absent, empty, full, and with an integer no double can hold.   *)
(***************************************************************************)
RECURSIVE Full(_, _)
Full(type, long) ==
    LET Value(f) == CASE f.type = "string" -> "text"
                      [] f.type = "bool" -> TRUE
                      [] f.type = "int32" -> -1
                      [] f.type = "int64" -> long
                      [] OTHER -> Full(f.of, long)
    IN  [name \in Names(type) |->
            IF Named(type, name).repeated THEN <<Value(Named(type, name))>> ELSE Value(Named(type, name))]

Values(f) ==
    CASE f.type = "string" -> {"", "text"}
      [] f.type = "bool" -> {FALSE, TRUE}
      [] f.type = "int32" -> {0, -1}
      [] f.type = "int64" -> {0, Safe, -Safe, Safe + 1, -Safe - 1}
      [] OTHER -> {Base(f.of), Full(f.of, 1), Full(f.of, Safe + 1)}

Sampled(f) ==
    IF f.repeated
    THEN {<<>>} \cup {<<v>> : v \in Values(f)}
         \cup (IF f.type = "message" THEN {<<Full(f.of, 1), Base(f.of)>>} ELSE {<<"text", "">>})
    ELSE {Default(f)} \cup Values(f)

RECURSIVE SamplesTo(_, _)
SamplesTo(type, n) ==
    IF n = 0 THEN {<<>>}
    ELSE {Append(s, v) : s \in SamplesTo(type, n - 1), v \in Sampled(type[n])}

Samples(type) ==
    {[name \in Names(type) |-> s[CHOOSE i \in DOMAIN type : type[i].name = name]] :
        s \in SamplesTo(type, Len(type))}

\* the message has an integer beyond what a double holds exactly
RECURSIVE Unsafe(_, _)
Unsafe(type, message) ==
    \E i \in DOMAIN type :
        LET f == type[i]
            v == message[f.name]
            Bad(w) == CASE f.type = "int64" -> w > Safe \/ w < -Safe
                        [] f.type = "message" -> Unsafe(f.of, w)
                        [] OTHER -> FALSE
        IN  IF f.repeated THEN \E j \in DOMAIN v : Bad(v[j]) ELSE v # Undefined /\ Bad(v)

-------------------------------------------------------------------------------
VARIABLES
    type,   \* the type of the message on its way
    sent,   \* the message
    form,   \* "none", "tokens", "json" or "read"
    medium, \* its encoding
    edits,  \* how often the encoding has been changed
    read    \* what the receiver has made of it

vars == <<type, sent, form, medium, edits, read>>

Init ==
    /\ type = Empty /\ sent = Base(Empty)
    /\ form = "none" /\ medium = <<>> /\ edits = 0 /\ read = Undefined

\* requestSerialize, responseSerialize: either side of a call sends its message
Serialize ==
    /\ form = "none"
    /\ \E t \in Types : \E message \in Samples(t) :
        /\ type' = t /\ sent' = message
        /\ medium' = Encode(t, message)
    /\ form' = "tokens"
    /\ UNCHANGED <<edits, read>>

Edit(tokens) ==
    /\ edits < MaxEdits
    /\ medium' = tokens /\ edits' = edits + 1
    /\ UNCHANGED <<type, sent, form, read>>

\* another encoder writes the fields in another order
Reorder ==
    form = "tokens" /\ \E i \in 1..Len(medium) - 1 :
        /\ medium[i].num # medium[i + 1].num
        /\ Edit([medium EXCEPT ![i] = medium[i + 1], ![i + 1] = medium[i]])

\* a peer built from another schema sends a field the receiver has not, or has with another type
Extend ==
    form = "tokens" /\ \E i \in 1..Len(medium) + 1 :
        \E token \in {[num |-> Len(type) + 9, wire |-> 2, value |-> "new"]}
                     \cup {[num |-> type[j].num, wire |-> 5, value |-> "old"] : j \in DOMAIN type} :
            Edit(InsertAt(medium, i, token))

\* a peer writes a plain field more than once, its value last
Repeat ==
    form = "tokens" /\ \E i \in DOMAIN medium : \E j \in Known(type, medium[i]) :
        /\ type[j].type # "message" /\ ~type[j].repeated
        /\ Edit(InsertAt(medium, i, [medium[i] EXCEPT !.value = Default(type[j])]))

\* requestDeserialize, responseDeserialize
Deserialize ==
    /\ form = "tokens"
    /\ read' = Decode(type, medium) /\ form' = "read" /\ medium' = <<>>
    /\ UNCHANGED <<type, sent, edits>>

\* the message is written as an object
Write ==
    /\ form = "none"
    /\ \E t \in Types : \E message \in {s \in Samples(t) : ~Unsafe(t, s)} :
        /\ type' = t /\ sent' = message
        /\ medium' = ToJSON(t, message)
    /\ form' = "json"
    /\ UNCHANGED <<edits, read>>

\* the names of demo.proto instead, at every level
RECURSIVE Renamed(_, _)
Renamed(t, object) ==
    LET Value(f, v) == IF f.type # "message" THEN v
                       ELSE IF f.repeated THEN [i \in DOMAIN v |-> Renamed(f.of, v[i])]
                       ELSE Renamed(f.of, v)
        Of(alias) == CHOOSE f \in {t[i] : i \in DOMAIN t} : f.alias = alias
    IN  [alias \in {Named(t, name).alias : name \in DOMAIN object} |->
            Value(Of(alias), object[Of(alias).name])]

\* an absent field may be written as null
WithNull(t, object, name) == [key \in DOMAIN object \cup {name} |-> IF key = name THEN Null ELSE object[key]]

WriteNull ==
    /\ form = "json" /\ edits < MaxEdits
    /\ \E name \in Names(type) \ DOMAIN medium : medium' = WithNull(type, medium, name)
    /\ edits' = edits + 1
    /\ UNCHANGED <<type, sent, form, read>>

Parse ==
    /\ form = "json"
    /\ \/ read' = FromJSON(type, medium)
       \/ edits = 0 /\ read' = FromJSON(type, Renamed(type, medium))
       \/ read' = FromPartial(type, medium)
    /\ form' = "read" /\ medium' = <<>>
    /\ UNCHANGED <<type, sent, edits>>

\* the next message
Done ==
    /\ form = "read"
    /\ type' = Empty /\ sent' = Base(Empty)
    /\ form' = "none" /\ medium' = <<>> /\ edits' = 0 /\ read' = Undefined

Next ==
    \/ Serialize \/ Reorder \/ Extend \/ Repeat \/ Deserialize
    \/ Write \/ WriteNull \/ Parse \/ Done

Spec == Init /\ [][Next]_vars

-------------------------------------------------------------------------------
(***************************************************************************)
(* Properties.                                                             *)
(***************************************************************************)

\* A message arrives as it was sent, whatever other encoders did to its form
\* on the way: fields in another order, fields of another schema, a plain
\* field written twice (decode of every message).
ArrivesAsSent ==
    form = "read" => (read = sent \/ (read = Refused /\ Unsafe(type, sent)))

\* An amount that a double cannot hold is refused and never rounded
\* (longToNumber, in the price of a product and wherever a price is nested).
UnsafeIsRefused ==
    (form = "read" /\ Unsafe(type, sent)) => read = Refused

=============================================================================
