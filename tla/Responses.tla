------------------------------ MODULE Responses ------------------------------
(***************************************************************************)
(* What becomes of the answer of a handler on its way out: the interceptor *)
(* of its route, BaseResponseInterceptor, BigIntInterceptor,               *)
(* ResolvePromisesInterceptor, JSON. BigInts come from Ogmios; JSON cannot *)
(* write them. The ClassSerializerInterceptor of OgmiosController is left  *)
(* out: it changes neither BigInts nor their places.                       *)
(***************************************************************************)
EXTENDS BigIntConversion

CONSTANTS
    Parameters,   \* protocol parameters, as Ogmios answers them
    UtxoSets,     \* arrays of UTxOs, as Ogmios answers them
    Rows          \* what the other handlers return

\* The outputs that Ogmios answers have the shape of its schema: below 'value', each
\* quantity has the policy and the name of its asset, and the lovelace those of ada. No
\* policy is called 'lovelace': they are hashes. The converter reads these keys.
IsUtxoSet(v) ==
    /\ IsValue(v) /\ v[<<>>].kind = "array"
    /\ Keys(v) # {} => "[0]" \in Keys(v)
    /\ \A k \in Keys(v) : /\ <<k, "script">> \in DOMAIN v
                          /\ <<k, "value", "ada", "lovelace">> \in DOMAIN v
                          /\ <<k, "value", "lovelace">> \notin DOMAIN v
    /\ \A p \in BigPaths(v) :
        /\ Len(p) >= 2
        /\ p[2] = "value" => Len(p) = 4
        /\ p[2] = "value" /\ p[3] = "ada" => p[4] = "lovelace"

ASSUME ResponsesAssumption ==
    /\ \A v \in Parameters : IsValue(v) /\ v[<<>>].kind = "object"
    /\ \A v \in UtxoSets : IsUtxoSet(v)
    /\ \A v \in Rows : IsValue(v) /\ v[<<>>].kind # "bigint"

VARIABLES
    route,        \* which handler
    source,       \* what it was answered
    error,        \* "none", or what is thrown
    stage,        \* the step that comes next
    body,         \* the answer so far
    under,        \* where in body the data is that the listed paths are relative to
    listed,       \* the paths in bigIntFields
    status        \* of the response

vars == <<route, source, error, stage, body, under, listed, status>>

Routes == {"test", "protocol-parameters", "protocol-parameters-simple",
           "addresses/utxo", "tx/utxo", "main/utxo", "others"}

SourcesOf(r) ==
    IF r \in {"test", "protocol-parameters", "protocol-parameters-simple"} THEN Parameters
    ELSE IF r = "others" THEN Rows ELSE UtxoSets

Init ==
    /\ route \in Routes /\ source \in SourcesOf(route)
    /\ error = "none" /\ stage = "guard" /\ status = 200
    /\ body = Null /\ under = <<>> /\ listed = {}

Goto(s) == stage' = s /\ UNCHANGED <<route, source>>

\* A guard throws before any interceptor is called.
Refused ==
    /\ stage = "guard"
    /\ Goto("sent") /\ error' = "guard" /\ status' = 401
    /\ UNCHANGED <<body, under, listed>>

Admitted ==
    /\ stage = "guard" /\ Goto("handler")
    /\ UNCHANGED <<error, body, under, listed, status>>

\* What the handler of r makes of the answer v.
Handled(r, v) ==
    CASE r \in {"test", "protocol-parameters-simple"} -> convertBigIntToString(v)
      [] r = "main/utxo" -> convertUtxoToUTxOObject(v)
      [] r = "tx/utxo" /\ Keys(v) = {} -> Null
      [] r = "tx/utxo" /\ Keys(v) # {} -> Kid(v, "[0]")
      [] OTHER -> v

HandlerReturns ==
    /\ stage = "handler" /\ Goto("route")
    /\ body' = Handled(route, source)
    /\ UNCHANGED <<error, under, listed, status>>

\* An HttpException with a status of its own, QueryFailedError, anything else.
HandlerThrows ==
    /\ stage = "handler" /\ Goto("base")
    /\ error' \in {"http", "db", "other"}
    /\ UNCHANGED <<body, under, listed, status>>

\* BigIntInterceptor, on a route or for all of them: the listed paths are relative
\* to what is then in 'data'.
Transform ==
    IF body # Null /\ hasBigInt(body) THEN
        /\ listed' = bigIntFields(body)
        /\ under'  = <<"data">>
        /\ body'   = Object([data |-> convertBigIntToString(body),
                             bigIntFields |-> Array([i \in {"[0]"} |-> Word])])
    ELSE UNCHANGED <<body, under, listed>>

RouteInterceptor ==
    /\ stage = "route" /\ Goto("base")
    /\ \/ route = "protocol-parameters" /\ Transform
       \/ route = "test" /\ body' = convertBigIntToString(body) /\ UNCHANGED <<under, listed>>
       \/ route \notin {"protocol-parameters", "test"} /\ UNCHANGED <<body, under, listed>>
    /\ UNCHANGED <<error, status>>

\* BaseResponseInterceptor: the envelope.
Envelope ==
    /\ stage = "base" /\ error = "none" /\ Goto("bigint")
    /\ body' = Object([data |-> body, statusCode |-> Leaf("number", status),
                       message |-> Word, status |-> Word])
    /\ under' = IF listed = {} THEN under ELSE <<"data">> \o under
    /\ UNCHANGED <<error, listed, status>>

\* Its catchError: a problem is thrown, which no other interceptor maps.
Problem ==
    /\ stage = "base" /\ error # "none" /\ Goto("sent")
    /\ status' = CASE error = "http" -> 400 [] error = "db" -> 400 [] error = "other" -> 500
    /\ body' = Object([k \in {"type", "title", "status", "detail", "instance"} |-> Word])
    /\ UNCHANGED <<error, under, listed>>

GlobalBigInt ==
    /\ stage = "bigint" /\ Goto("promises")
    /\ Transform
    /\ UNCHANGED <<error, status>>

\* No handler returns promises in its answer: a copy is made.
ResolvePromises ==
    /\ stage = "promises" /\ Goto("sent")
    /\ UNCHANGED <<error, body, under, listed, status>>

\* JSON has been written.
Done == stage = "sent" /\ UNCHANGED vars

Next ==
    \/ Refused \/ Admitted \/ HandlerReturns \/ HandlerThrows \/ RouteInterceptor
    \/ Envelope \/ Problem \/ GlobalBigInt \/ ResolvePromises \/ Done

Spec == Init /\ [][Next]_vars

------------------------------------------------------------------------------
(* Properties. *)

\* What leaves has no BigInt in it, whichever route and however deep: JSON.stringify
\* would throw.
NothingUnwritable == stage = "sent" => BigPaths(body) = {}

Answered == stage = "sent" /\ error = "none"

\* Where in the body the handler's value ends up: one level deeper if BigInts were
\* listed, by the route's interceptor or by the global one.
Position == IF listed = {} THEN <<"data">> ELSE <<"data", "data">>

\* Where the handler puts what was at path p of its source.
Moved(p) ==
    CASE route = "main/utxo" /\ Len(p) = 4 /\ p[3] = "ada" -> <<p[1], p[2], p[4]>>
      [] route = "tx/utxo" -> Tail(p)
      [] OTHER -> p

\* What the handler is to return of its source.
Returned ==
    {p \in BigPaths(source) : /\ route = "tx/utxo" => p[1] = "[0]"
                              /\ route = "main/utxo" => p[2] = "value"}

\* No amount is lost or altered: each is written in decimal at its place.
AmountsArrive ==
    Answered => \A p \in Returned :
        /\ Position \o Moved(p) \in DOMAIN body
        /\ body[Position \o Moved(p)] = Node("string", source[p].num)

\* Where BigInts are listed, the list is right: a reader that follows it finds every
\* BigInt of the answer and nothing else, though an envelope was put around the list or
\* the list around the envelope.
ListIsExact ==
    Answered /\ route \in {"protocol-parameters", "addresses/utxo", "tx/utxo"} =>
        {under \o p : p \in listed} = {Position \o Moved(p) : p \in Returned}
=============================================================================
