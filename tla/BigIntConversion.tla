-------------------------- MODULE BigIntConversion --------------------------
(***************************************************************************)
(* The conversions of bigint.utils.ts, and the one of UTxOs, on JSON-like  *)
(* values. A value is a tree, given by its nodes: a function from their    *)
(* paths (an element of an array has its index as key) to their kind and,  *)
(* for leaves, the number they stand for. A string that is no decimal      *)
(* number stands for NoNumber.                                             *)
(***************************************************************************)
EXTENDS Integers, Sequences, FiniteSets

CONSTANT Key    \* of objects and arrays

\* The keys that the code reads and writes.
ASSUME KeysAssumption ==
    {"data", "statusCode", "message", "status", "bigIntFields", "[0]", "value",
     "ada", "lovelace", "referenceScript", "scriptLanguage", "script", "cborHex",
     "type", "title", "detail", "instance"} \subseteq Key

NoNumber == -1

\* What the recursions of the code go into, and all kinds.
Inner == {"object", "array"}
Kinds == Inner \cup {"bigint", "number", "string", "null", "date"}

Node(kind, num) == [kind |-> kind, num |-> num]

Leaf(kind, num) == [p \in {<<>>} |-> Node(kind, num)]

\* The tree with these children by key.
Tree(kind, kids) ==
    [p \in {<<>>} \cup UNION {{<<k>> \o q : q \in DOMAIN kids[k]} : k \in DOMAIN kids} |->
        IF p = <<>> THEN Node(kind, NoNumber) ELSE kids[Head(p)][Tail(p)]]

Big(d)    == Leaf("bigint", d)
Digits(d) == Leaf("string", d)
Word      == Leaf("string", NoNumber)
Null      == Leaf("null", NoNumber)
Date      == Leaf("date", NoNumber)
Object(kids) == Tree("object", kids)
Array(kids)  == Tree("array", kids)

\* The paths of the nodes that the node at p is in.
Above(p) == {SubSeq(p, 1, n) : n \in 0 .. Len(p) - 1}

IsValue(v) ==
    /\ DOMAIN v \subseteq Seq(Key) /\ <<>> \in DOMAIN v
    /\ \A p \in DOMAIN v : v[p] \in [kind : Kinds, num : Int]
    /\ \A p \in DOMAIN v : \A q \in Above(p) : q \in DOMAIN v /\ v[q].kind \in Inner

Keys(v) == {Head(p) : p \in DOMAIN v \ {<<>>}}

\* The value at a key of v.
Kid(v, k) ==
    [q \in {Tail(p) : p \in {r \in DOMAIN v : r # <<>> /\ Head(r) = k}} |-> v[<<k>> \o q]]

BigPaths(v) == {p \in DOMAIN v : v[p].kind = "bigint"}

------------------------------------------------------------------------------
(* bigint.utils.ts. *)

\* Where a recursion gets: down through arrays and objects.
Reached(v) == {p \in DOMAIN v : \A q \in Above(p) : v[q].kind \in Inner}

\* A date is an object without entries.
convertBigIntToString(v) ==
    [p \in Reached(v) |-> CASE v[p].kind = "bigint" -> Node("string", v[p].num)
                            [] v[p].kind = "date"   -> Node("object", NoNumber)
                            [] OTHER                -> v[p]]

\* Mutated form of bigIntFields: an index is left out of the path.
bigIntFields_NoIndex(v) ==
    {SelectSeq(p, LAMBDA k : k \notin {"[0]", "[1]"}) : p \in Reached(v) \cap BigPaths(v)} \ {<<>>}

\* The paths that transformForApiResponse() lists, in its data; the data itself is
\* converted as convertBigIntToString does.
bigIntFields(v) == {p \in Reached(v) : p # <<>> /\ v[p].kind = "bigint"}

\* Mutated form of hasBigInt: arrays are not searched.
hasBigInt_NoArrays(v) ==
    \E p \in BigPaths(v) : \A q \in Above(p) : v[q].kind = "object"

hasBigInt(v) == \E p \in Reached(v) : v[p].kind = "bigint"

------------------------------------------------------------------------------
(* ogmios-converter.ts. *)

\* A script is known by its language: Word stands for one of the four that the code
\* knows, any other value for no script or one in another language.
convertReferenceScript(script) ==
    IF script # Word THEN Null
    ELSE Object([scriptLanguage |-> Word, script |-> Object([cborHex |-> Word])])

\* Mutated form of ConvertValue: 'ada' is deleted before the lovelace is read.
ConvertValue_TooLate(value) ==
    Object([k \in Keys(value) \ {"ada"} |-> convertBigIntToString(Kid(value, k))])

\* The lovelace is lifted out of 'ada', which is deleted.
ConvertValue(value) ==
    Object([k \in {"lovelace"} \cup (Keys(value) \ {"ada"}) |->
               IF k \in Keys(value) \ {"ada"} THEN convertBigIntToString(Kid(value, k))
               ELSE Digits(value[<<"ada", "lovelace">>].num)])

\* The result is keyed by transaction and index, which tell a UTxO from the others;
\* here its place in the answer does.
convertUtxoToUTxOObject(utxos) ==
    Object([k \in Keys(utxos) |->
              Object([value |-> ConvertValue(Kid(Kid(utxos, k), "value")),
                      referenceScript |-> convertReferenceScript(Kid(Kid(utxos, k), "script"))])])
=============================================================================
