----------------------------- MODULE MCResponses -----------------------------
(* Small instances of Responses for TLC. *)
EXTENDS Responses, TLC

Keywords == STRING
Number == Leaf("number", 1)

\* Parameters with amounts, numbers and lists of either.
SomeParameters ==
    LET some == {Big(1), Number, Digits(1), Word} IN
    {Object([fee |-> a, deposit |-> Object([ada |-> Object([lovelace |-> b])]),
             costs |-> Object([v |-> Array(("[0]" :> c) @@ ("[1]" :> d))])]) :
        a \in some, b \in {Big(2), Number}, c \in some, d \in {Big(3), Null}}

Ada(n) == "ada" :> Object([lovelace |-> Big(n)])
Tokens == {Object([a |-> Big(5)]), Object([a |-> Big(5), b |-> Big(6)])}

\* Outputs without and with tokens; without a reference script, with one in a known
\* and in an unknown language.
Outputs ==
    {Object([transaction |-> Object([id |-> Word]), value |-> Object(v), script |-> s]) :
        v \in {Ada(1)} \cup {Ada(2) @@ ("policy" :> t) : t \in Tokens}, s \in {Null, Word, Digits(1)}}

SomeUtxoSets ==
    {Array(<<>>)} \cup {Array("[0]" :> o) : o \in Outputs}
                    \cup {Array(("[0]" :> o) @@ ("[1]" :> p)) : o, p \in Outputs}

\* Entities of the database, a tip, null.
SomeRows ==
    {Null, Object([slot |-> Number, id |-> Word])} \cup
    {Array(("[0]" :> Object([createdAt |-> Date, description |-> d, id |-> Number]))) :
        d \in {Word, Digits(1), Null}}
=============================================================================
