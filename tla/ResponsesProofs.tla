--------------------------- MODULE ResponsesProofs ---------------------------
(***************************************************************************)
(* Proofs about Responses for answers of any shape and depth.              *)
(***************************************************************************)
EXTENDS Responses, SequenceTheorems, TLAPS

Path == Seq(Key)

------------------------------------------------------------------------------
(* Paths. *)

\* A key before a path, and back.
LEMMA ConsFacts ==
    ASSUME NEW k \in Key, NEW q \in Path
    PROVE  /\ <<k>> \o q \in Path /\ <<k>> \o q # <<>>
           /\ Head(<<k>> \o q) = k /\ Tail(<<k>> \o q) = q
           /\ Len(<<k>> \o q) = Len(q) + 1
           /\ (<<k>> \o q)[1] = k
<1>1. <<k>> \in Path /\ Len(<<k>>) = 1 /\ <<k>>[1] = k
  BY DEF Path
<1>2. /\ <<k>> \o q \in Path /\ Len(<<k>> \o q) = 1 + Len(q)
      /\ \A i \in 1 .. 1 + Len(q) : (<<k>> \o q)[i] = IF i <= 1 THEN <<k>>[i] ELSE q[i - 1]
  BY <1>1, ConcatProperties DEF Path
<1>3. Len(q) \in Nat
  BY LenProperties DEF Path
<1>4. <<k>> \o q # <<>> /\ (<<k>> \o q)[1] = k
  BY <1>1, <1>2, <1>3, EmptySeq
<1>5. Head(<<k>> \o q) = k
  BY <1>2, <1>4 DEF Path
<1>6. Tail(<<k>> \o q) = q
  <2>1. /\ Tail(<<k>> \o q) \in Path /\ Len(Tail(<<k>> \o q)) = Len(q)
        /\ \A i \in 1 .. Len(q) : Tail(<<k>> \o q)[i] = (<<k>> \o q)[i + 1]
    BY <1>2, <1>3, <1>4, HeadTailProperties DEF Path
  <2>2. \A i \in 1 .. Len(q) : Tail(<<k>> \o q)[i] = q[i]
    BY <1>2, <1>3, <2>1
  <2> QED
    BY <2>1, <2>2, SeqEqual DEF Path
<1> QED
  BY <1>2, <1>3, <1>4, <1>5, <1>6

LEMMA UnconsFacts ==
    ASSUME NEW p \in Path, p # <<>>
    PROVE  /\ Head(p) \in Key /\ Tail(p) \in Path
           /\ p = <<Head(p)>> \o Tail(p)
           /\ Head(p) = p[1]
<1>1. /\ Head(p) \in Key /\ Tail(p) \in Path
      /\ Len(Tail(p)) = Len(p) - 1
      /\ \A i \in 1 .. Len(Tail(p)) : Tail(p)[i] = p[i + 1]
  BY HeadTailProperties DEF Path
<1>2. Head(p) = p[1]
  BY DEF Path
<1>3. Len(p) \in Nat /\ Len(p) >= 1
  BY EmptySeq, LenProperties DEF Path
<1>4. <<Head(p)>> \in Path /\ Len(<<Head(p)>>) = 1 /\ <<Head(p)>>[1] = Head(p)
  BY <1>1 DEF Path
<1>5. /\ <<Head(p)>> \o Tail(p) \in Path /\ Len(<<Head(p)>> \o Tail(p)) = Len(p)
      /\ \A i \in 1 .. Len(p) : (<<Head(p)>> \o Tail(p))[i] =
            IF i <= 1 THEN <<Head(p)>>[i] ELSE Tail(p)[i - 1]
  BY <1>1, <1>3, <1>4, ConcatProperties DEF Path
<1>6. \A i \in 1 .. Len(p) : p[i] = (<<Head(p)>> \o Tail(p))[i]
  <2> SUFFICES ASSUME NEW i \in 1 .. Len(p) PROVE p[i] = (<<Head(p)>> \o Tail(p))[i]
    OBVIOUS
  <2>1. CASE i = 1
    BY <2>1, <1>2, <1>3, <1>4, <1>5
  <2>2. CASE i # 1
    <3>1. i - 1 \in 1 .. Len(Tail(p)) /\ (i - 1) + 1 = i
      BY <2>2, <1>1, <1>3
    <3> QED
      BY <3>1, <2>2, <1>1, <1>3, <1>5
  <2> QED
    BY <2>1, <2>2
<1>7. p = <<Head(p)>> \o Tail(p)
  BY <1>5, <1>6, SeqEqual DEF Path
<1> QED
  BY <1>1, <1>2, <1>7

\* Paths that are written out.
LEMMA SpelledOne ==
    ASSUME NEW a \in Key
    PROVE  <<a>> \in Path /\ <<a>> \o <<>> = <<a>>
<1>1. <<a>> \in Path
  BY DEF Path
<1> QED
  BY <1>1, ConcatEmptySeq DEF Path

LEMMA SpelledTwo ==
    ASSUME NEW a \in Key, NEW b \in Key
    PROVE  <<a, b>> \in Path /\ <<a>> \o <<b>> = <<a, b>>
<1>1. <<a, b>> \in Path
  BY DEF Path
<1>2. <<a, b>> # <<>> /\ Head(<<a, b>>) = a /\ Tail(<<a, b>>) = <<b>>
  OBVIOUS
<1> QED
  BY <1>1, <1>2, UnconsFacts

LEMMA SpelledThree ==
    ASSUME NEW a \in Key, NEW b \in Key, NEW c \in Key
    PROVE  <<a, b, c>> \in Path /\ <<a>> \o <<b, c>> = <<a, b, c>>
<1>1. <<a, b, c>> \in Path
  BY DEF Path
<1>2. <<a, b, c>> # <<>> /\ Head(<<a, b, c>>) = a /\ Tail(<<a, b, c>>) = <<b, c>>
  OBVIOUS
<1> QED
  BY <1>1, <1>2, UnconsFacts

LEMMA SpelledFour ==
    ASSUME NEW a \in Key, NEW b \in Key, NEW c \in Key, NEW d \in Key
    PROVE  <<a, b, c, d>> \in Path /\ <<a>> \o <<b, c, d>> = <<a, b, c, d>>
<1>1. <<a, b, c, d>> \in Path
  BY DEF Path
<1>2. /\ <<a, b, c, d>> # <<>>
      /\ Head(<<a, b, c, d>>) = a /\ Tail(<<a, b, c, d>>) = <<b, c, d>>
  OBVIOUS
<1> QED
  BY <1>1, <1>2, UnconsFacts

\* What a path with one more key in front is in.
LEMMA AboveCons ==
    ASSUME NEW k \in Key, NEW q \in Path
    PROVE  Above(<<k>> \o q) = {<<>>} \cup {<<k>> \o a : a \in Above(q)}
<1> DEFINE p == <<k>> \o q
<1>1. Len(q) \in Nat /\ Len(p) = Len(q) + 1 /\ p \in Path
  BY ConsFacts, LenProperties DEF Path
<1>2. SubSeq(p, 1, 0) = <<>>
  BY SubSeqEmpty
<1>3. \A n \in 1 .. Len(q) : SubSeq(p, 1, n) = <<k>> \o SubSeq(q, 1, n - 1)
  <2> SUFFICES ASSUME NEW n \in 1 .. Len(q)
               PROVE  SubSeq(p, 1, n) = <<k>> \o SubSeq(q, 1, n - 1)
    OBVIOUS
  <2>1. SubSeq(p, 1, n) = <<p[1]>> \o SubSeq(p, 2, n)
    BY <1>1, SubSeqRecursiveFirst DEF Path
  <2>2. SubSeq(p, 2, n) = SubSeq(q, 1, n - 1)
    <3>1. CASE n = 1
      <4>1. SubSeq(p, 2, 1) = <<>> /\ SubSeq(q, 1, 0) = <<>>
        BY SubSeqEmpty
      <4> QED
        BY <3>1, <4>1
    <3>2. CASE n # 1
      <4>1. <<k>> \in Path /\ Len(<<k>>) = 1
        BY DEF Path
      <4>2. /\ 2 \in Len(<<k>>) + 1 .. Len(<<k>>) + Len(q)
            /\ n \in Len(<<k>>) + 1 .. Len(<<k>>) + Len(q)
        BY <3>2, <4>1, <1>1
      <4>3. SubSeq(<<k>> \o q, 2, n) = SubSeq(q, 2 - Len(<<k>>), n - Len(<<k>>))
        BY <4>1, <4>2, SubSeqOfConcat2 DEF Path
      <4> QED
        BY <4>1, <4>3
    <3> QED
      BY <3>1, <3>2
  <2> QED
    BY <2>1, <2>2, ConsFacts
<1>4. \A a : a \in Above(p) => a \in {<<>>} \cup {<<k>> \o b : b \in Above(q)}
  <2> SUFFICES ASSUME NEW n \in 0 .. Len(p) - 1
               PROVE  SubSeq(p, 1, n) \in {<<>>} \cup {<<k>> \o b : b \in Above(q)}
    BY DEF Above
  <2>1. CASE n = 0
    BY <2>1, <1>2
  <2>2. CASE n # 0
    <3>1. n \in 1 .. Len(q) /\ n - 1 \in 0 .. Len(q) - 1
      BY <2>2, <1>1
    <3> QED
      BY <3>1, <1>3 DEF Above
  <2> QED
    BY <2>1, <2>2
<1>5. <<>> \in Above(p)
  <2>1. 0 \in 0 .. Len(p) - 1
    BY <1>1
  <2> QED
    BY <2>1, <1>2 DEF Above
<1>6. ASSUME NEW b \in Above(q) PROVE <<k>> \o b \in Above(p)
  <2>1. PICK m \in 0 .. Len(q) - 1 : b = SubSeq(q, 1, m)
    BY DEF Above
  <2>2. m + 1 \in 1 .. Len(q) /\ m + 1 \in 0 .. Len(p) - 1 /\ (m + 1) - 1 = m
    BY <1>1, <2>1
  <2>3. SubSeq(p, 1, m + 1) = <<k>> \o b
    BY <1>3, <2>1, <2>2
  <2> QED
    BY <2>2, <2>3 DEF Above
<1> QED
  BY <1>4, <1>5, <1>6
LEMMA AbovePath == ASSUME NEW q \in Path, NEW a \in Above(q) PROVE a \in Path
<1>1. PICK n \in 0 .. Len(q) - 1 : a = SubSeq(q, 1, n)
  BY DEF Above
<1>2. Len(q) \in Nat /\ \A i \in 1 .. n : q[i] \in Key
  BY ElementOfSeq, LenProperties DEF Path
<1> QED
  BY <1>1, <1>2, SubSeqProperties DEF Path

LEMMA RootAbove == ASSUME NEW q \in Path, q # <<>> PROVE <<>> \in Above(q)
<1>1. Len(q) \in Nat \ {0}
  BY EmptySeq DEF Path
<1>2. SubSeq(q, 1, 0) = <<>>
  BY SubSeqEmpty
<1> QED
  BY <1>1, <1>2 DEF Above

------------------------------------------------------------------------------
(* Values. *)

LEMMA NodeFields == \A kind, num : Node(kind, num).kind = kind /\ Node(kind, num).num = num
BY DEF Node

LEMMA LeafValue ==
    ASSUME NEW kind \in Kinds, NEW num \in Int
    PROVE  /\ IsValue(Leaf(kind, num))
           /\ DOMAIN Leaf(kind, num) = {<<>>} /\ Leaf(kind, num)[<<>>] = Node(kind, num)
<1>1. Above(<<>>) = {}
  <2>1. Len(<<>>) = 0
    BY EmptySeq
  <2> QED
    BY <2>1 DEF Above
<1>2. <<>> \in Seq(Key)
  BY EmptySeq
<1> QED
  BY <1>1, <1>2 DEF IsValue, Leaf, Node

\* The leaves that the interceptors and the converter write.
LEMMA Written ==
    /\ \A d \in Int : IsValue(Digits(d)) /\ BigPaths(Digits(d)) = {}
    /\ IsValue(Word) /\ BigPaths(Word) = {}
    /\ IsValue(Null) /\ BigPaths(Null) = {}
    /\ \A d \in Int : IsValue(Leaf("number", d)) /\ BigPaths(Leaf("number", d)) = {}
<1>1. \A kind \in Kinds \ {"bigint"}, num \in Int :
         IsValue(Leaf(kind, num)) /\ BigPaths(Leaf(kind, num)) = {}
  <2> SUFFICES ASSUME NEW kind \in Kinds \ {"bigint"}, NEW num \in Int
               PROVE  IsValue(Leaf(kind, num)) /\ BigPaths(Leaf(kind, num)) = {}
    OBVIOUS
  <2>1. /\ IsValue(Leaf(kind, num))
        /\ DOMAIN Leaf(kind, num) = {<<>>} /\ Leaf(kind, num)[<<>>] = Node(kind, num)
    BY LeafValue
  <2>2. \A p \in DOMAIN Leaf(kind, num) : Leaf(kind, num)[p].kind # "bigint"
    BY <2>1 DEF Node
  <2> QED
    BY <2>1, <2>2 DEF BigPaths
<1>2. {"string", "null", "number"} \subseteq Kinds \ {"bigint"} /\ NoNumber \in Int
  BY DEF Kinds, NoNumber
<1> QED
  BY <1>1, <1>2 DEF Digits, Word, Null

\* A tree has its root, and the nodes of its children.
HasNodes(t, kind, kids) ==
    /\ <<>> \in DOMAIN t /\ t[<<>>] = Node(kind, NoNumber)
    /\ \A k \in DOMAIN kids : \A q \in DOMAIN kids[k] :
           <<k>> \o q \in DOMAIN t /\ t[<<k>> \o q] = kids[k][q]
    /\ \A p \in DOMAIN t : p # <<>> =>
           \E k \in DOMAIN kids : \E q \in DOMAIN kids[k] : p = <<k>> \o q

LEMMA TreeNodes ==
    ASSUME NEW kind, NEW kids, DOMAIN kids \subseteq Key,
           \A k \in DOMAIN kids : IsValue(kids[k])
    PROVE  HasNodes(Tree(kind, kids), kind, kids)
<1> DEFINE t == Tree(kind, kids)
<1>1. DOMAIN t = {<<>>} \cup UNION {{<<k>> \o q : q \in DOMAIN kids[k]} : k \in DOMAIN kids}
  BY DEF Tree
<1>2. <<>> \in DOMAIN t /\ t[<<>>] = Node(kind, NoNumber)
  BY <1>1 DEF Tree
<1>3. ASSUME NEW k \in DOMAIN kids, NEW q \in DOMAIN kids[k]
      PROVE  <<k>> \o q \in DOMAIN t /\ t[<<k>> \o q] = kids[k][q]
  <2>1. <<k>> \o q \in DOMAIN t
    BY <1>1
  <2>2. q \in Path /\ k \in Key
    BY DEF IsValue, Path
  <2>3. <<k>> \o q # <<>> /\ Head(<<k>> \o q) = k /\ Tail(<<k>> \o q) = q
    BY <2>2, ConsFacts
  <2> QED
    BY <2>1, <2>3 DEF Tree
<1>4. \A p \in DOMAIN t : p # <<>> =>
         \E k \in DOMAIN kids : \E q \in DOMAIN kids[k] : p = <<k>> \o q
  BY <1>1
<1> HIDE DEF t
<1>5. HasNodes(t, kind, kids)
  BY <1>2, <1>3, <1>4 DEF HasNodes
<1> QED
  BY <1>5 DEF t

\* A tree of values is a value, and its BigInts are those of its children.
LEMMA TreeValue ==
    ASSUME NEW kind \in Inner, NEW kids, DOMAIN kids \subseteq Key,
           \A k \in DOMAIN kids : IsValue(kids[k])
    PROVE  /\ IsValue(Tree(kind, kids))
           /\ \A p : p \in BigPaths(Tree(kind, kids)) <=>
                  \E k \in DOMAIN kids : \E q \in BigPaths(kids[k]) : p = <<k>> \o q
<1> DEFINE t == Tree(kind, kids)
<1>1. HasNodes(t, kind, kids)
  BY TreeNodes
<1> HIDE DEF t
<1>2. t[<<>>] \in [kind : Kinds, num : Int] /\ t[<<>>].kind \in Inner
  BY <1>1 DEF HasNodes, Node, NoNumber, Kinds
<1>3. \A k \in DOMAIN kids : \A q \in DOMAIN kids[k] : k \in Key /\ q \in Path
  BY DEF IsValue, Path
<1>4. ASSUME NEW p \in DOMAIN t
      PROVE  /\ p \in Path /\ t[p] \in [kind : Kinds, num : Int]
             /\ \A a \in Above(p) : a \in DOMAIN t /\ t[a].kind \in Inner
  <2>1. CASE p = <<>>
    <3>1. Above(p) = {} /\ p \in Path
      BY <2>1, EmptySeq DEF Above, Path
    <3> QED
      BY <2>1, <3>1, <1>2
  <2>2. CASE p # <<>>
    <3>1. PICK k \in DOMAIN kids : \E q \in DOMAIN kids[k] : p = <<k>> \o q
      BY <2>2, <1>1 DEF HasNodes
    <3>2. PICK q \in DOMAIN kids[k] : p = <<k>> \o q
      BY <3>1
    <3>3. p \in Path /\ Above(p) = {<<>>} \cup {<<k>> \o a : a \in Above(q)}
      BY <1>3, <3>2, ConsFacts, AboveCons
    <3>4. t[p] \in [kind : Kinds, num : Int]
      BY <1>1, <3>2 DEF IsValue, HasNodes
    <3>5. \A a \in Above(q) : <<k>> \o a \in DOMAIN t /\ t[<<k>> \o a].kind \in Inner
      BY <1>1 DEF IsValue, HasNodes
    <3> QED
      BY <3>3, <3>4, <3>5, <1>1, <1>2 DEF HasNodes
  <2> QED
    BY <2>1, <2>2
<1>5. IsValue(t)
  BY <1>1, <1>4 DEF IsValue, Path, HasNodes
<1>6. \A p : p \in BigPaths(t) <=>
         \E k \in DOMAIN kids : \E q \in BigPaths(kids[k]) : p = <<k>> \o q
  <2>1. ASSUME NEW p \in BigPaths(t)
        PROVE  \E k \in DOMAIN kids : \E q \in BigPaths(kids[k]) : p = <<k>> \o q
    <3>1. p # <<>> /\ p \in DOMAIN t
      BY <2>1, <1>2 DEF BigPaths, Inner
    <3>2. PICK k \in DOMAIN kids : \E q \in DOMAIN kids[k] : p = <<k>> \o q
      BY <3>1, <1>1 DEF HasNodes
    <3> QED
      BY <2>1, <3>2, <1>1 DEF HasNodes, BigPaths
  <2>2. ASSUME NEW k \in DOMAIN kids, NEW q \in BigPaths(kids[k])
        PROVE  <<k>> \o q \in BigPaths(t)
    BY <2>2, <1>1 DEF HasNodes, BigPaths
  <2> QED
    BY <2>1, <2>2
<1> QED
  BY <1>5, <1>6 DEF t

\* Without BigInts in its children, there is none in the tree.
LEMMA PlainTree ==
    ASSUME NEW kind \in Inner, NEW kids,
           \A k \in DOMAIN kids : k \in Key /\ IsValue(kids[k]) /\ BigPaths(kids[k]) = {}
    PROVE  IsValue(Tree(kind, kids)) /\ BigPaths(Tree(kind, kids)) = {}
<1>1. DOMAIN kids \subseteq Key
  OBVIOUS
<1>2. /\ IsValue(Tree(kind, kids))
      /\ \A p \in BigPaths(Tree(kind, kids)) : \E k \in DOMAIN kids : BigPaths(kids[k]) # {}
  BY <1>1, TreeValue
<1> QED
  BY <1>2

\* What is below a key.
LEMMA KidValue ==
    ASSUME NEW v, IsValue(v), NEW k \in Keys(v)
    PROVE  /\ k \in Key /\ IsValue(Kid(v, k))
           /\ \A q : q \in DOMAIN Kid(v, k) <=> q \in Path /\ <<k>> \o q \in DOMAIN v
           /\ \A q \in DOMAIN Kid(v, k) : Kid(v, k)[q] = v[<<k>> \o q]
<1> DEFINE w == Kid(v, k)
<1>1. k \in Key
  BY UnconsFacts DEF Keys, IsValue, Path
<1>2. ASSUME NEW q PROVE q \in DOMAIN w <=> q \in Path /\ <<k>> \o q \in DOMAIN v
  <2>1. ASSUME q \in DOMAIN w PROVE q \in Path /\ <<k>> \o q \in DOMAIN v
    <3>1. PICK r \in DOMAIN v : r # <<>> /\ Head(r) = k /\ q = Tail(r)
      BY <2>1 DEF Kid
    <3>2. r \in Path
      BY DEF IsValue, Path
    <3> QED
      BY <3>1, <3>2, UnconsFacts
  <2>2. ASSUME q \in Path, <<k>> \o q \in DOMAIN v PROVE q \in DOMAIN w
    <3>1. <<k>> \o q # <<>> /\ Head(<<k>> \o q) = k /\ Tail(<<k>> \o q) = q
      BY <1>1, <2>2, ConsFacts
    <3> QED
      BY <3>1, <2>2 DEF Kid
  <2> QED
    BY <2>1, <2>2
<1>3. ASSUME NEW q \in DOMAIN w PROVE w[q] = v[<<k>> \o q]
  BY DEF Kid
<1>4. IsValue(w)
  <2> HIDE DEF w
  <2>1. DOMAIN w \subseteq Path
    BY <1>2
  <2>2. ASSUME NEW q \in DOMAIN w
        PROVE  /\ w[q] \in [kind : Kinds, num : Int]
               /\ \A a \in Above(q) : a \in DOMAIN w /\ w[a].kind \in Inner
    <3>1. q \in Path /\ <<k>> \o q \in DOMAIN v
      BY <1>2
    <3>2. Above(<<k>> \o q) = {<<>>} \cup {<<k>> \o a : a \in Above(q)}
      BY <1>1, <3>1, AboveCons
    <3>3. w[q] \in [kind : Kinds, num : Int]
      BY <1>3, <3>1 DEF IsValue
    <3>4. ASSUME NEW a \in Above(q) PROVE a \in DOMAIN w /\ w[a].kind \in Inner
      <4>1. <<k>> \o a \in DOMAIN v /\ v[<<k>> \o a].kind \in Inner
        BY <3>1, <3>2 DEF IsValue
      <4>2. a \in Path
        BY <3>1, AbovePath
      <4> QED
        BY <4>1, <4>2, <1>2, <1>3
    <3> QED
      BY <3>3, <3>4
  <2>3. <<>> \in DOMAIN w
    <3>1. PICK r \in DOMAIN v : r # <<>> /\ Head(r) = k
      BY DEF Keys
    <3>2. r \in Path /\ Tail(r) \in Path /\ r = <<k>> \o Tail(r)
      BY <3>1, UnconsFacts DEF IsValue, Path
    <3>3. Tail(r) \in DOMAIN w
      BY <1>2, <3>2
    <3>4. CASE Tail(r) = <<>>
      BY <3>3, <3>4
    <3>5. CASE Tail(r) # <<>>
      <4>1. <<>> \in Above(Tail(r))
        BY <3>2, <3>5, RootAbove
      <4> QED
        BY <2>2, <3>3, <4>1
    <3> QED
      BY <3>4, <3>5
  <2> QED
    BY <2>1, <2>2, <2>3 DEF IsValue, Path
<1> QED
  BY <1>1, <1>2, <1>3, <1>4

------------------------------------------------------------------------------
(* Conversions. *)

\* The recursions get everywhere.
LEMMA AllReached == ASSUME NEW v, IsValue(v) PROVE Reached(v) = DOMAIN v
BY DEF Reached, IsValue

\* hasBigInt finds a BigInt wherever it is, and bigIntFields lists them all.
LEMMA Found ==
    ASSUME NEW v, IsValue(v)
    PROVE  /\ hasBigInt(v) <=> BigPaths(v) # {}
           /\ bigIntFields(v) = BigPaths(v) \ {<<>>}
BY AllReached DEF hasBigInt, bigIntFields, BigPaths

\* convertBigIntToString keeps every node in its place and leaves no BigInt.
LEMMA Converted ==
    ASSUME NEW v, IsValue(v)
    PROVE  /\ IsValue(convertBigIntToString(v))
           /\ DOMAIN convertBigIntToString(v) = DOMAIN v
           /\ BigPaths(convertBigIntToString(v)) = {}
           /\ \A p \in DOMAIN v : v[p].kind \in {"bigint", "string"} =>
                  convertBigIntToString(v)[p] = Node("string", v[p].num)
<1> DEFINE c == convertBigIntToString(v)
           m(p) == CASE v[p].kind = "bigint" -> Node("string", v[p].num)
                     [] v[p].kind = "date"   -> Node("object", NoNumber)
                     [] OTHER                -> v[p]
<1>1. c = [p \in DOMAIN v |-> m(p)]
  BY AllReached DEF convertBigIntToString
<1> HIDE DEF c
<1>2. ASSUME NEW p \in DOMAIN v
      PROVE  /\ m(p) \in [kind : Kinds, num : Int] /\ m(p).kind # "bigint"
             /\ v[p].kind \in Inner => m(p).kind \in Inner
             /\ v[p].kind = "bigint" => m(p) = Node("string", v[p].num)
             /\ v[p].kind = "string" => m(p) = v[p]
  <2>1. v[p] \in [kind : Kinds, num : Int]
    BY DEF IsValue
  <2>2. /\ Node("string", v[p].num) \in [kind : Kinds, num : Int]
        /\ Node("object", NoNumber) \in [kind : Kinds, num : Int]
    BY <2>1 DEF Node, Kinds, Inner, NoNumber
  <2> QED
    BY <2>1, <2>2 DEF Node, Inner
<1> HIDE DEF m
<1>3. DOMAIN c = DOMAIN v /\ \A p \in DOMAIN v : c[p] = m(p)
  BY <1>1
<1>4. IsValue(c)
  BY <1>2, <1>3 DEF IsValue
<1>5. BigPaths(c) = {}
  BY <1>2, <1>3 DEF BigPaths
<1>6. \A p \in DOMAIN v : v[p].kind \in {"bigint", "string"} => c[p] = Node("string", v[p].num)
  <2> SUFFICES ASSUME NEW p \in DOMAIN v, v[p].kind = "string" PROVE v[p] = Node("string", v[p].num)
    BY <1>2, <1>3
  <2>1. v[p] \in [kind : Kinds, num : Int]
    BY DEF IsValue
  <2> QED
    BY <2>1 DEF Node
<1> QED
  BY <1>3, <1>4, <1>5, <1>6 DEF c

\* Whatever is put around a value beside nodes without BigInts, the value is under 'data'.
LEMMA Wrapped ==
    ASSUME NEW kids, DOMAIN kids \subseteq Key, "data" \in DOMAIN kids,
           \A k \in DOMAIN kids : IsValue(kids[k]),
           \A k \in DOMAIN kids \ {"data"} : BigPaths(kids[k]) = {}
    PROVE  /\ IsValue(Object(kids)) /\ <<>> \notin BigPaths(Object(kids))
           /\ BigPaths(Object(kids)) = {<<"data">> \o p : p \in BigPaths(kids["data"])}
           /\ \A p \in DOMAIN kids["data"] :
                  /\ <<"data">> \o p \in DOMAIN Object(kids)
                  /\ Object(kids)[<<"data">> \o p] = kids["data"][p]
<1> DEFINE w == Object(kids)
<1>1. "object" \in Inner
  BY DEF Inner
<1>2. IsValue(w) /\ \A p : p \in BigPaths(w) <=>
         \E k \in DOMAIN kids : \E q \in BigPaths(kids[k]) : p = <<k>> \o q
  BY <1>1, TreeValue DEF Object
<1>3. HasNodes(w, "object", kids)
  BY TreeNodes DEF Object
<1> HIDE DEF w
<1>4. BigPaths(w) = {<<"data">> \o p : p \in BigPaths(kids["data"])}
  <2>1. ASSUME NEW p \in BigPaths(w) PROVE \E q \in BigPaths(kids["data"]) : p = <<"data">> \o q
    BY <1>2
  <2>2. ASSUME NEW q \in BigPaths(kids["data"]) PROVE <<"data">> \o q \in BigPaths(w)
    BY <1>2
  <2> QED
    BY <2>1, <2>2
<1>5. <<>> \notin BigPaths(w)
  BY <1>3 DEF HasNodes, BigPaths, Node
<1>6. \A p \in DOMAIN kids["data"] : <<"data">> \o p \in DOMAIN w /\ w[<<"data">> \o p] = kids["data"][p]
  BY <1>3 DEF HasNodes
<1> QED
  BY <1>2, <1>4, <1>5, <1>6 DEF w

------------------------------------------------------------------------------
(* What the handlers return. *)

Raw == {"protocol-parameters", "addresses/utxo", "tx/utxo", "others"}

\* The value that is answered stands at pos in b, with the BigInts of b listed as l
\* relative to u; or none is listed, and they are those the handler left.
Answer(b, pos, l, u) ==
    /\ IsValue(b) /\ pos \in Path
    /\ \A p \in Returned :
        /\ Moved(p) \in Path
        /\ pos \o Moved(p) \in DOMAIN b
        /\ b[pos \o Moved(p)].kind \in {"bigint", "string"}
        /\ b[pos \o Moved(p)].num = source[p].num
    /\ IF l = {}
       THEN /\ u = <<>>
            /\ BigPaths(b) = IF route \in Raw THEN {pos \o Moved(p) : p \in Returned} ELSE {}
       ELSE /\ BigPaths(b) = {} /\ u \in Path /\ l \subseteq Path
            /\ {u \o p : p \in l} = {pos \o Moved(p) : p \in Returned}

LEMMA SourceIsValue ==
    ASSUME route \in Routes, source \in SourcesOf(route)
    PROVE  /\ IsValue(source)
           /\ route \notin {"addresses/utxo", "tx/utxo", "main/utxo"} =>
                  source[<<>>].kind # "bigint"
           /\ route \in {"addresses/utxo", "tx/utxo", "main/utxo"} => IsUtxoSet(source)
BY ResponsesAssumption DEF Routes, SourcesOf, IsUtxoSet

\* Returned as it is.
LEMMA AsItIs ==
    ASSUME route \in {"protocol-parameters", "addresses/utxo", "others"},
           source \in SourcesOf(route)
    PROVE  Answer(source, <<>>, {}, <<>>) /\ <<>> \notin BigPaths(source)
<1>1. IsValue(source)
  BY SourceIsValue DEF Routes
<1>2. <<>> \notin BigPaths(source)
  BY SourceIsValue DEF Routes, BigPaths, IsUtxoSet
<1>3. Returned = BigPaths(source) /\ \A p : Moved(p) = p
  BY DEF Returned, Moved
<1>4. \A p \in BigPaths(source) : p \in Path /\ p \in DOMAIN source /\ source[p].kind = "bigint"
  BY <1>1 DEF IsValue, BigPaths, Path
<1>5. <<>> \in Path /\ \A p \in Path : <<>> \o p = p
  BY EmptySeq, ConcatEmptySeq DEF Path
<1>6. BigPaths(source) = {<<>> \o Moved(p) : p \in Returned}
  BY <1>3, <1>4, <1>5
<1> QED
  BY <1>1, <1>2, <1>3, <1>4, <1>5, <1>6 DEF Answer, Raw

\* Returned in decimal.
LEMMA InDecimal ==
    ASSUME route \in {"test", "protocol-parameters-simple"}, source \in SourcesOf(route)
    PROVE  Answer(convertBigIntToString(source), <<>>, {}, <<>>)
<1>1. IsValue(source)
  BY SourceIsValue DEF Routes
<1>2. Returned = BigPaths(source) /\ \A p : Moved(p) = p
  BY DEF Returned, Moved
<1>3. \A p \in BigPaths(source) : p \in Path /\ p \in DOMAIN source /\ source[p].kind = "bigint"
  BY <1>1 DEF IsValue, BigPaths, Path
<1>4. <<>> \in Path /\ \A p \in Path : <<>> \o p = p
  BY EmptySeq, ConcatEmptySeq DEF Path
<1> DEFINE c == convertBigIntToString(source)
<1>5. /\ IsValue(c) /\ DOMAIN c = DOMAIN source /\ BigPaths(c) = {}
      /\ \A p \in BigPaths(source) : c[p] = Node("string", source[p].num)
  BY <1>1, <1>3, Converted
<1> HIDE DEF c
<1>6. \A p \in BigPaths(source) : c[p].kind = "string" /\ c[p].num = source[p].num
  BY <1>5, NodeFields
<1>7. \A p \in Returned :
         /\ Moved(p) \in Path
         /\ <<>> \o Moved(p) \in DOMAIN c
         /\ c[<<>> \o Moved(p)].kind \in {"bigint", "string"}
         /\ c[<<>> \o Moved(p)].num = source[p].num
  BY <1>2, <1>3, <1>4, <1>5, <1>6
<1>8. route \notin Raw
  BY DEF Raw
<1>9. Answer(c, <<>>, {}, <<>>)
  BY <1>4, <1>5, <1>7, <1>8 DEF Answer
<1> QED
  BY <1>9 DEF c

\* The first output alone, or null.
LEMMA FirstOutput ==
    ASSUME route = "tx/utxo", source \in SourcesOf(route)
    PROVE  /\ Answer(Handled(route, source), <<>>, {}, <<>>)
           /\ <<>> \notin BigPaths(Handled(route, source))
<1>1. IsUtxoSet(source) /\ IsValue(source)
  BY SourceIsValue DEF Routes, IsUtxoSet
<1>2. \A p \in BigPaths(source) :
         /\ p \in Path /\ p \in DOMAIN source /\ Len(p) >= 2 /\ p # <<>>
         /\ Tail(p) \in Path /\ Len(Tail(p)) = Len(p) - 1
         /\ p = <<p[1]>> \o Tail(p) /\ p[1] \in Keys(source)
  <2> SUFFICES ASSUME NEW p \in BigPaths(source)
               PROVE  /\ p \in Path /\ p \in DOMAIN source /\ Len(p) >= 2 /\ p # <<>>
                      /\ Tail(p) \in Path /\ Len(Tail(p)) = Len(p) - 1
                      /\ p = <<p[1]>> \o Tail(p) /\ p[1] \in Keys(source)
    OBVIOUS
  <2>1. p \in Path /\ p \in DOMAIN source /\ Len(p) >= 2
    BY <1>1 DEF IsValue, IsUtxoSet, BigPaths, Path
  <2>2. p # <<>>
    BY <2>1, EmptySeq
  <2>3. Len(Tail(p)) = Len(p) - 1
    BY <2>1, <2>2, HeadTailProperties DEF Path
  <2> QED
    BY <2>1, <2>2, <2>3, UnconsFacts DEF Keys
<1>3. Returned = {p \in BigPaths(source) : p[1] = "[0]"} /\ \A p : Moved(p) = Tail(p)
  BY DEF Returned, Moved
<1>4. <<>> \in Path /\ \A p \in Path : <<>> \o p = p
  BY EmptySeq, ConcatEmptySeq DEF Path
<1>5. CASE Keys(source) = {}
  <2>1. Handled(route, source) = Null
    BY <1>5 DEF Handled
  <2>2. Returned = {}
    BY <1>2, <1>3, <1>5
  <2> QED
    BY <2>1, <2>2, <1>4, Written DEF Answer
<1>6. CASE Keys(source) # {}
  <2> DEFINE h == Kid(source, "[0]")
  <2>1. Handled(route, source) = h /\ "[0]" \in Keys(source)
    BY <1>1, <1>6 DEF Handled, IsUtxoSet
  <2>2. /\ IsValue(h) /\ "[0]" \in Key
        /\ \A q : q \in DOMAIN h <=> q \in Path /\ <<"[0]">> \o q \in DOMAIN source
        /\ \A q \in DOMAIN h : h[q] = source[<<"[0]">> \o q]
    BY <1>1, <2>1, KidValue
  <2> HIDE DEF h
  <2>3. ASSUME NEW p \in Returned
        PROVE  /\ Tail(p) \in Path /\ Tail(p) \in DOMAIN h /\ h[Tail(p)] = source[p]
               /\ source[p].kind = "bigint"
    BY <1>2, <1>3, <2>2 DEF BigPaths
  <2>4. ASSUME NEW q \in BigPaths(h) PROVE q # <<>> /\ \E p \in Returned : q = Tail(p)
    <3>1. q \in Path /\ <<"[0]">> \o q \in BigPaths(source)
      BY <2>2, <2>4 DEF BigPaths
    <3>2. (<<"[0]">> \o q)[1] = "[0]" /\ Tail(<<"[0]">> \o q) = q
      BY <2>2, <3>1, ConsFacts
    <3>3. <<"[0]">> \o q \in Returned
      BY <1>3, <3>1, <3>2
    <3>4. Len(<<"[0]">> \o q) >= 2 /\ Len(<<"[0]">> \o q) = Len(q) + 1
      BY <1>2, <2>2, <3>1, ConsFacts
    <3>5. q # <<>>
      BY <3>4, EmptySeq
    <3> QED
      BY <3>2, <3>3, <3>5
  <2>5. BigPaths(h) = {<<>> \o Moved(p) : p \in Returned}
    <3>1. ASSUME NEW p \in Returned PROVE <<>> \o Moved(p) \in BigPaths(h)
      BY <1>3, <1>4, <2>3 DEF BigPaths
    <3>2. ASSUME NEW q \in BigPaths(h) PROVE \E p \in Returned : q = <<>> \o Moved(p)
      BY <1>3, <1>4, <2>3, <2>4
    <3> QED
      BY <3>1, <3>2
  <2>6. <<>> \notin BigPaths(h)
    BY <2>4
  <2>7. \A p \in Returned :
           /\ Moved(p) \in Path
           /\ <<>> \o Moved(p) \in DOMAIN h
           /\ h[<<>> \o Moved(p)].kind \in {"bigint", "string"}
           /\ h[<<>> \o Moved(p)].num = source[p].num
    <3> SUFFICES ASSUME NEW p \in Returned
                 PROVE  /\ Moved(p) \in Path
                        /\ <<>> \o Moved(p) \in DOMAIN h
                        /\ h[<<>> \o Moved(p)].kind \in {"bigint", "string"}
                        /\ h[<<>> \o Moved(p)].num = source[p].num
      OBVIOUS
    <3>1. Moved(p) = Tail(p) /\ <<>> \o Tail(p) = Tail(p)
      BY <1>3, <1>4, <2>3
    <3> QED
      BY <2>3, <3>1
  <2>8. route \in Raw
    BY DEF Raw
  <2>9. Answer(h, <<>>, {}, <<>>)
    BY <1>4, <2>2, <2>5, <2>7, <2>8 DEF Answer
  <2> QED
    BY <2>1, <2>6, <2>9
<1> QED
  BY <1>5, <1>6

\* A quantity of an output, given by its policy and its name.
LEMMA QuantityPath ==
    ASSUME IsUtxoSet(source), NEW p \in BigPaths(source), p[2] = "value"
    PROVE  /\ p \in Path /\ p[1] \in Keys(source) /\ p[3] \in Key /\ p[4] \in Key
           /\ p = <<p[1], "value", p[3], p[4]>> /\ Len(p) = 4
<1>1. p \in Path /\ Len(p) = 4
  BY DEF IsUtxoSet, IsValue, BigPaths, Path
<1>2. p = <<p[1], "value", p[3], p[4]>>
  BY <1>1 DEF Path
<1>3. p # <<>> /\ p \in DOMAIN source
  BY <1>1, EmptySeq DEF BigPaths
<1>4. p[1] \in Keys(source)
  BY <1>1, <1>3, UnconsFacts DEF Keys
<1>5. p[3] \in Key /\ p[4] \in Key
  <2>1. 3 \in 1 .. Len(p) /\ 4 \in 1 .. Len(p)
    BY <1>1
  <2> QED
    BY <1>1, <2>1, ElementOfSeq DEF Path
<1> QED
  BY <1>1, <1>2, <1>4, <1>5

\* What the converter reads of an output.
LEMMA OutputParts ==
    ASSUME IsUtxoSet(source), NEW k \in Keys(source)
    PROVE  LET value == Kid(Kid(source, k), "value") IN
           /\ k \in Key
           /\ IsValue(value) /\ IsValue(Kid(Kid(source, k), "script"))
           /\ <<"ada", "lovelace">> \in DOMAIN value /\ "lovelace" \notin Keys(value)
           /\ \A a \in Key, b \in Key :
                  <<k, "value", a, b>> \in DOMAIN source =>
                      /\ <<a, b>> \in DOMAIN value
                      /\ value[<<a, b>>] = source[<<k, "value", a, b>>]
<1> DEFINE output == Kid(source, k)
           value  == Kid(output, "value")
<1>0. "value" \in Key /\ "script" \in Key /\ "ada" \in Key /\ "lovelace" \in Key
  BY KeysAssumption
<1>k. k \in Key
  BY KidValue DEF IsUtxoSet
<1>1. /\ k \in Key /\ IsValue(output)
      /\ \A q : q \in DOMAIN output <=> q \in Path /\ <<k>> \o q \in DOMAIN source
      /\ \A q \in DOMAIN output : output[q] = source[<<k>> \o q]
  BY KidValue DEF IsUtxoSet
<1> HIDE DEF output
<1>2. "script" \in Keys(output)
  <2>1. <<"script">> \in Path /\ <<k>> \o <<"script">> = <<k, "script">>
    BY <1>0, <1>1, SpelledOne, SpelledTwo
  <2>2. <<"script">> \in DOMAIN output
    BY <2>1, <1>1 DEF IsUtxoSet
  <2>3. Head(<<"script">>) = "script" /\ <<"script">> # <<>>
    OBVIOUS
  <2> QED
    BY <2>2, <2>3 DEF Keys
<1>3. ASSUME NEW a \in Key, NEW b \in Key, <<k, "value", a, b>> \in DOMAIN source
      PROVE  /\ <<"value", a, b>> \in DOMAIN output
             /\ output[<<"value", a, b>>] = source[<<k, "value", a, b>>]
  <2>1. <<"value", a, b>> \in Path
    BY <1>0, SpelledThree
  <2>2. <<k>> \o <<"value", a, b>> = <<k, "value", a, b>>
    BY <1>0, <1>k, SpelledFour
  <2> QED
    BY <2>1, <2>2, <1>1, <1>3
<1>4. "value" \in Keys(output)
  <2>1. <<"value", "ada", "lovelace">> \in DOMAIN output
    BY <1>0, <1>3 DEF IsUtxoSet
  <2>2. /\ Head(<<"value", "ada", "lovelace">>) = "value"
        /\ <<"value", "ada", "lovelace">> # <<>>
    OBVIOUS
  <2> QED
    BY <2>1, <2>2 DEF Keys
<1>5. /\ IsValue(value)
      /\ \A q : q \in DOMAIN value <=> q \in Path /\ <<"value">> \o q \in DOMAIN output
      /\ \A q \in DOMAIN value : value[q] = output[<<"value">> \o q]
  BY <1>1, <1>4, KidValue
<1>6. IsValue(Kid(output, "script"))
  BY <1>1, <1>2, KidValue
<1> HIDE DEF value
<1>7. ASSUME NEW a \in Key, NEW b \in Key, <<k, "value", a, b>> \in DOMAIN source
      PROVE  /\ <<a, b>> \in DOMAIN value
             /\ value[<<a, b>>] = source[<<k, "value", a, b>>]
  <2>1. <<a, b>> \in Path /\ <<"value">> \o <<a, b>> = <<"value", a, b>>
    BY <1>0, SpelledTwo, SpelledThree
  <2> QED
    BY <2>1, <1>3, <1>5, <1>7
<1>8. <<"ada", "lovelace">> \in DOMAIN value
  BY <1>0, <1>7 DEF IsUtxoSet
<1>9. "lovelace" \notin Keys(value)
  <2>1. SUFFICES ASSUME "lovelace" \in Keys(value) PROVE FALSE
    OBVIOUS
  <2>2. <<>> \in DOMAIN Kid(value, "lovelace")
    BY <1>5, <2>1, KidValue DEF IsValue
  <2>3. <<"lovelace">> \o <<>> \in DOMAIN value
    BY <1>5, <2>1, <2>2, KidValue
  <2>4. <<"lovelace">> \in DOMAIN value
    BY <1>0, <2>3, SpelledOne
  <2>5. <<"value">> \o <<"lovelace">> \in DOMAIN output
    BY <1>5, <2>4
  <2>6. <<"value", "lovelace">> \in DOMAIN output
    BY <1>0, <2>5, SpelledTwo
  <2>7. <<k>> \o <<"value", "lovelace">> \in DOMAIN source
    BY <1>1, <2>6
  <2>8. <<k, "value", "lovelace">> \in DOMAIN source
    BY <1>0, <1>1, <2>7, SpelledThree
  <2> QED
    BY <2>8 DEF IsUtxoSet
<1>10. /\ k \in Key
       /\ IsValue(value) /\ IsValue(Kid(output, "script"))
       /\ <<"ada", "lovelace">> \in DOMAIN value /\ "lovelace" \notin Keys(value)
       /\ \A a \in Key, b \in Key :
              <<k, "value", a, b>> \in DOMAIN source =>
                  /\ <<a, b>> \in DOMAIN value
                  /\ value[<<a, b>>] = source[<<k, "value", a, b>>]
  BY <1>1, <1>5, <1>6, <1>7, <1>8, <1>9
<1> QED
  BY <1>10 DEF value, output

\* The converter writes an object per output, without BigInts; the lovelace are lifted
\* out of 'ada', the other quantities stay in their place.
LEMMA ConvertedValue ==
    ASSUME NEW value, IsValue(value), <<"ada", "lovelace">> \in DOMAIN value,
           "lovelace" \notin Keys(value)
    PROVE  /\ IsValue(ConvertValue(value)) /\ BigPaths(ConvertValue(value)) = {}
           /\ <<"lovelace">> \in DOMAIN ConvertValue(value)
           /\ ConvertValue(value)[<<"lovelace">>] =
                  Node("string", value[<<"ada", "lovelace">>].num)
           /\ \A a \in Key, b \in Key :
                  a # "ada" /\ <<a, b>> \in DOMAIN value /\ value[<<a, b>>].kind = "bigint" =>
                      /\ <<a, b>> \in DOMAIN ConvertValue(value)
                      /\ ConvertValue(value)[<<a, b>>] = Node("string", value[<<a, b>>].num)
<1> DEFINE kids == [k \in {"lovelace"} \cup (Keys(value) \ {"ada"}) |->
                       IF k \in Keys(value) \ {"ada"} THEN convertBigIntToString(Kid(value, k))
                       ELSE Digits(value[<<"ada", "lovelace">>].num)]
           c == ConvertValue(value)
<1>0. "lovelace" \in Key /\ "ada" \in Key /\ "object" \in Inner
  BY KeysAssumption DEF Inner
<1>1. c = Object(kids)
  BY DEF ConvertValue
<1>2. DOMAIN kids = {"lovelace"} \cup (Keys(value) \ {"ada"})
  OBVIOUS
<1>3. kids["lovelace"] = Digits(value[<<"ada", "lovelace">>].num)
  BY <1>2
<1>4. \A k \in Keys(value) \ {"ada"} : kids[k] = convertBigIntToString(Kid(value, k))
  BY <1>2
<1>5. value[<<"ada", "lovelace">>].num \in Int
  BY DEF IsValue
<1> HIDE DEF kids, c
<1>6. \A k \in DOMAIN kids : k \in Key /\ IsValue(kids[k]) /\ BigPaths(kids[k]) = {}
  <2>1. \A k \in Keys(value) \ {"ada"} : k \in Key /\ IsValue(kids[k]) /\ BigPaths(kids[k]) = {}
    BY <1>4, KidValue, Converted
  <2>2. IsValue(kids["lovelace"]) /\ BigPaths(kids["lovelace"]) = {}
    BY <1>3, <1>5, Written
  <2> QED
    BY <2>1, <2>2, <1>0, <1>2
<1>7. HasNodes(c, "object", kids)
  BY <1>1, <1>6, TreeNodes DEF Object
<1>8. IsValue(c) /\ BigPaths(c) = {}
  BY <1>0, <1>1, <1>6, PlainTree DEF Object
<1>9. <<"lovelace">> \in DOMAIN c /\ c[<<"lovelace">>] = Node("string", value[<<"ada", "lovelace">>].num)
  <2>1. "string" \in Kinds
    BY DEF Kinds
  <2>2. /\ DOMAIN kids["lovelace"] = {<<>>}
        /\ kids["lovelace"][<<>>] = Node("string", value[<<"ada", "lovelace">>].num)
    BY <2>1, <1>3, <1>5, LeafValue DEF Digits
  <2>3. /\ <<"lovelace">> \o <<>> \in DOMAIN c
        /\ c[<<"lovelace">> \o <<>>] = kids["lovelace"][<<>>]
    BY <2>2, <1>2, <1>7 DEF HasNodes
  <2>4. <<"lovelace">> \o <<>> = <<"lovelace">>
    BY <1>0, SpelledOne
  <2> QED
    BY <2>2, <2>3, <2>4
<1>10. ASSUME NEW a \in Key, NEW b \in Key, a # "ada",
              <<a, b>> \in DOMAIN value, value[<<a, b>>].kind = "bigint"
       PROVE  <<a, b>> \in DOMAIN c /\ c[<<a, b>>] = Node("string", value[<<a, b>>].num)
  <2>1. <<b>> \in Path /\ <<a>> \o <<b>> = <<a, b>>
    BY SpelledOne, SpelledTwo
  <2>2. a \in Keys(value) \ {"ada"}
    <3>1. <<a, b>> # <<>> /\ Head(<<a, b>>) = a
      OBVIOUS
    <3> QED
      BY <3>1, <1>10 DEF Keys
  <2>3. /\ IsValue(Kid(value, a)) /\ <<b>> \in DOMAIN Kid(value, a)
        /\ Kid(value, a)[<<b>>] = value[<<a, b>>]
    <3>1. /\ IsValue(Kid(value, a))
          /\ <<b>> \in DOMAIN Kid(value, a) <=> <<b>> \in Path /\ <<a>> \o <<b>> \in DOMAIN value
          /\ \A q \in DOMAIN Kid(value, a) : Kid(value, a)[q] = value[<<a>> \o q]
      BY <2>2, KidValue
    <3> QED
      BY <3>1, <2>1, <1>10
  <2>4. <<b>> \in DOMAIN kids[a] /\ kids[a][<<b>>] = Node("string", value[<<a, b>>].num)
    BY <2>2, <2>3, <1>4, <1>10, Converted
  <2>5. <<a>> \o <<b>> \in DOMAIN c /\ c[<<a>> \o <<b>>] = kids[a][<<b>>]
    BY <2>2, <2>4, <1>2, <1>7 DEF HasNodes
  <2> QED
    BY <2>1, <2>4, <2>5
<1>11. /\ IsValue(c) /\ BigPaths(c) = {}
       /\ <<"lovelace">> \in DOMAIN c
       /\ c[<<"lovelace">>] = Node("string", value[<<"ada", "lovelace">>].num)
       /\ \A a \in Key, b \in Key :
              a # "ada" /\ <<a, b>> \in DOMAIN value /\ value[<<a, b>>].kind = "bigint" =>
                  /\ <<a, b>> \in DOMAIN c
                  /\ c[<<a, b>>] = Node("string", value[<<a, b>>].num)
  BY <1>7, <1>8, <1>9, <1>10
<1> QED
  BY <1>11 DEF c

LEMMA ConvertedScript ==
    ASSUME NEW script, IsValue(script)
    PROVE  /\ IsValue(convertReferenceScript(script))
           /\ BigPaths(convertReferenceScript(script)) = {}
<1> DEFINE inner == [cborHex |-> Word]
           kids  == [scriptLanguage |-> Word, script |-> Object(inner)]
<1>0. "cborHex" \in Key /\ "scriptLanguage" \in Key /\ "script" \in Key /\ "object" \in Inner
  BY KeysAssumption DEF Inner
<1>1. DOMAIN inner = {"cborHex"} /\ inner["cborHex"] = Word
  OBVIOUS
<1>2. /\ DOMAIN kids = {"scriptLanguage", "script"}
      /\ kids["scriptLanguage"] = Word /\ kids["script"] = Object(inner)
  OBVIOUS
<1>3. convertReferenceScript(script) = Null \/ convertReferenceScript(script) = Object(kids)
  BY DEF convertReferenceScript
<1> HIDE DEF inner, kids
<1>4. IsValue(Object(inner)) /\ BigPaths(Object(inner)) = {}
  BY <1>0, <1>1, PlainTree, Written DEF Object
<1>5. \A k \in DOMAIN kids : k \in Key /\ IsValue(kids[k]) /\ BigPaths(kids[k]) = {}
  BY <1>0, <1>2, <1>4, Written
<1>6. IsValue(Object(kids)) /\ BigPaths(Object(kids)) = {}
  BY <1>0, <1>5, PlainTree DEF Object
<1> QED
  BY <1>3, <1>6, Written

\* One output: an object with the value and the script.
OutputOf(output) ==
    [value |-> ConvertValue(Kid(output, "value")),
     referenceScript |-> convertReferenceScript(Kid(output, "script"))]

LEMMA ConvertedOutput ==
    ASSUME IsUtxoSet(source), NEW k \in Keys(source)
    PROVE  LET o == OutputOf(Kid(source, k)) IN
           /\ k \in Key /\ IsValue(Object(o)) /\ BigPaths(Object(o)) = {}
           /\ \A q \in DOMAIN o["value"] :
                  /\ <<"value">> \o q \in DOMAIN Object(o)
                  /\ Object(o)[<<"value">> \o q] = o["value"][q]
<1> DEFINE o == OutputOf(Kid(source, k))
           value == Kid(Kid(source, k), "value")
           script == Kid(Kid(source, k), "script")
<1>0. "value" \in Key /\ "referenceScript" \in Key /\ "object" \in Inner
  BY KeysAssumption DEF Inner
<1>1. /\ k \in Key /\ IsValue(value) /\ IsValue(script)
      /\ <<"ada", "lovelace">> \in DOMAIN value /\ "lovelace" \notin Keys(value)
  BY OutputParts
<1>2. /\ DOMAIN o = {"value", "referenceScript"}
      /\ o["value"] = ConvertValue(value) /\ o["referenceScript"] = convertReferenceScript(script)
  BY DEF OutputOf
<1> HIDE DEF o, value, script
<1>3. \A j \in DOMAIN o : j \in Key /\ IsValue(o[j]) /\ BigPaths(o[j]) = {}
  BY <1>0, <1>1, <1>2, ConvertedValue, ConvertedScript
<1>4. IsValue(Object(o)) /\ BigPaths(Object(o)) = {}
  BY <1>0, <1>3, PlainTree DEF Object
<1>5. HasNodes(Object(o), "object", o)
  BY <1>3, TreeNodes DEF Object
<1>6. /\ k \in Key /\ IsValue(Object(o)) /\ BigPaths(Object(o)) = {}
      /\ \A q \in DOMAIN o["value"] :
             /\ <<"value">> \o q \in DOMAIN Object(o)
             /\ Object(o)[<<"value">> \o q] = o["value"][q]
  BY <1>1, <1>2, <1>4, <1>5 DEF HasNodes
<1> QED
  BY <1>6 DEF o

LEMMA ConvertedOutputs ==
    ASSUME route = "main/utxo", source \in SourcesOf(route)
    PROVE  Answer(convertUtxoToUTxOObject(source), <<>>, {}, <<>>)
<1> DEFINE kids == [k \in Keys(source) |-> Object(OutputOf(Kid(source, k)))]
           h    == convertUtxoToUTxOObject(source)
<1>k. "value" \in Key /\ "ada" \in Key /\ "lovelace" \in Key
  BY KeysAssumption
<1>0. /\ "value" \in Key /\ "ada" \in Key /\ "lovelace" \in Key /\ "object" \in Inner
      /\ <<>> \in Path /\ \A p \in Path : <<>> \o p = p
  BY KeysAssumption, EmptySeq, ConcatEmptySeq DEF Inner, Path
<1>1. IsUtxoSet(source) /\ IsValue(source)
  BY SourceIsValue DEF Routes, IsUtxoSet
<1>2. h = Object(kids)
  BY DEF convertUtxoToUTxOObject, OutputOf
<1>3. DOMAIN kids = Keys(source)
      /\ \A k \in Keys(source) : kids[k] = Object(OutputOf(Kid(source, k)))
  OBVIOUS
<1> HIDE DEF kids, h
<1>4. \A k \in DOMAIN kids : k \in Key /\ IsValue(kids[k]) /\ BigPaths(kids[k]) = {}
  BY <1>1, <1>3, ConvertedOutput
<1>5. IsValue(h) /\ BigPaths(h) = {}
  BY <1>0, <1>2, <1>4, PlainTree DEF Object
<1>6. HasNodes(h, "object", kids)
  BY <1>2, <1>4, TreeNodes DEF Object
\* From the converted value of the output at k to the answer.
<1>7. ASSUME NEW k \in Keys(source),
             NEW q \in DOMAIN ConvertValue(Kid(Kid(source, k), "value"))
      PROVE  /\ <<k>> \o (<<"value">> \o q) \in DOMAIN h
             /\ h[<<k>> \o (<<"value">> \o q)] = ConvertValue(Kid(Kid(source, k), "value"))[q]
  <2>1. OutputOf(Kid(source, k))["value"] = ConvertValue(Kid(Kid(source, k), "value"))
    BY DEF OutputOf
  <2>2. /\ <<"value">> \o q \in DOMAIN kids[k]
        /\ kids[k][<<"value">> \o q] = ConvertValue(Kid(Kid(source, k), "value"))[q]
    BY <2>1, <1>1, <1>3, ConvertedOutput
  <2> QED
    BY <2>2, <1>3, <1>6 DEF HasNodes
<1>8. ASSUME NEW p \in Returned
      PROVE  /\ Moved(p) \in Path
             /\ Moved(p) \in DOMAIN h
             /\ h[Moved(p)].kind \in {"bigint", "string"}
             /\ h[Moved(p)].num = source[p].num
  <2>1. p \in BigPaths(source) /\ p[2] = "value"
    BY DEF Returned
  <2> DEFINE k == p[1]
             a == p[3]
             b == p[4]
             value == Kid(Kid(source, k), "value")
             c == ConvertValue(value)
  <2>2. /\ p \in Path /\ k \in Keys(source) /\ a \in Key /\ b \in Key
        /\ p = <<k, "value", a, b>> /\ Len(p) = 4
    BY <1>1, <2>1, QuantityPath
  <2>3. /\ k \in Key /\ IsValue(value)
        /\ <<"ada", "lovelace">> \in DOMAIN value /\ "lovelace" \notin Keys(value)
        /\ <<a, b>> \in DOMAIN value /\ value[<<a, b>>] = source[p]
    BY <1>1, <2>1, <2>2, OutputParts DEF BigPaths
  <2>4. source[p].kind = "bigint"
    BY <2>1 DEF BigPaths
  <2>5. /\ <<"lovelace">> \in DOMAIN c
        /\ c[<<"lovelace">>] = Node("string", value[<<"ada", "lovelace">>].num)
        /\ a # "ada" => <<a, b>> \in DOMAIN c /\ c[<<a, b>>] = Node("string", value[<<a, b>>].num)
    BY <2>2, <2>3, <2>4, ConvertedValue
  <2>6. CASE a = "ada"
    <3>1. b = "lovelace"
      BY <1>1, <2>1, <2>6 DEF IsUtxoSet
    <3>2. Moved(p) = <<k, "value", "lovelace">>
      BY <2>2, <2>6, <3>1 DEF Moved
    <3>3. <<k>> \o (<<"value">> \o <<"lovelace">>) = Moved(p) /\ Moved(p) \in Path
      <4>1. <<"value">> \o <<"lovelace">> = <<"value", "lovelace">>
        BY <1>k, SpelledTwo
      <4>2. /\ <<k>> \o <<"value", "lovelace">> = <<k, "value", "lovelace">>
            /\ <<k, "value", "lovelace">> \in Path
        BY <1>k, <2>3, SpelledThree
      <4> QED
        BY <3>2, <4>1, <4>2
    <3>4. Moved(p) \in DOMAIN h /\ h[Moved(p)] = c[<<"lovelace">>]
      BY <1>7, <2>2, <2>5, <3>3
    <3>5. h[Moved(p)] = Node("string", source[p].num)
      BY <2>3, <2>5, <2>6, <3>1, <3>4
    <3> QED
      BY <3>3, <3>4, <3>5, NodeFields
  <2>7. CASE a # "ada"
    <3>1. Moved(p) = p
      BY <2>2, <2>7 DEF Moved
    <3>2. <<k>> \o (<<"value">> \o <<a, b>>) = p
      BY <1>0, <2>2, <2>3, SpelledThree, SpelledFour
    <3>3. p \in DOMAIN h /\ h[p] = c[<<a, b>>]
      BY <1>7, <2>2, <2>5, <2>7, <3>2
    <3>4. h[p] = Node("string", source[p].num)
      BY <2>3, <2>5, <2>7, <3>3
    <3> QED
      BY <2>2, <3>1, <3>3, <3>4, NodeFields
  <2> QED
    BY <2>6, <2>7
<1>9. \A p \in Returned :
         /\ Moved(p) \in Path
         /\ <<>> \o Moved(p) \in DOMAIN h
         /\ h[<<>> \o Moved(p)].kind \in {"bigint", "string"}
         /\ h[<<>> \o Moved(p)].num = source[p].num
  BY <1>0, <1>8
<1>10. route \notin Raw
  BY DEF Raw
<1>11. Answer(h, <<>>, {}, <<>>)
  BY <1>0, <1>5, <1>9, <1>10 DEF Answer
<1> QED
  BY <1>11 DEF h

\* Whatever the route.
LEMMA HandlerAnswers ==
    ASSUME route \in Routes, source \in SourcesOf(route)
    PROVE  /\ Answer(Handled(route, source), <<>>, {}, <<>>)
           /\ <<>> \notin BigPaths(Handled(route, source))
<1> DEFINE h == Handled(route, source)
<1>1. CASE route \in {"protocol-parameters", "addresses/utxo", "others"}
  <2>1. h = source
    BY <1>1 DEF Handled
  <2> QED
    BY <1>1, <2>1, AsItIs
<1>2. CASE route \in {"test", "protocol-parameters-simple"}
  <2>1. h = convertBigIntToString(source)
    BY <1>2 DEF Handled
  <2>2. BigPaths(h) = {}
    BY <2>1, SourceIsValue, Converted
  <2>3. Answer(convertBigIntToString(source), <<>>, {}, <<>>)
    BY <1>2, InDecimal
  <2> QED
    BY <2>1, <2>2, <2>3
<1>3. CASE route = "tx/utxo"
  BY <1>3, FirstOutput
<1>4. CASE route = "main/utxo"
  <2>1. h = convertUtxoToUTxOObject(source)
    BY <1>4 DEF Handled
  <2>2. Answer(convertUtxoToUTxOObject(source), <<>>, {}, <<>>)
    BY <1>4, ConvertedOutputs
  <2>3. BigPaths(h) = {}
    BY <2>1, <2>2, <1>4 DEF Answer, Raw
  <2> QED
    BY <2>1, <2>2, <2>3
<1> QED
  BY <1>1, <1>2, <1>3, <1>4 DEF Routes

------------------------------------------------------------------------------
(* The way out. *)

Data == <<"data">>

\* Where the answer stands in the body.
Place ==
    CASE stage \in {"bigint", "promises", "sent"} -> IF listed = {} THEN Data ELSE Data \o Data
      [] stage = "base"  -> IF listed = {} THEN <<>> ELSE Data
      [] stage = "route" -> <<>>

RInv ==
    /\ route \in Routes /\ source \in SourcesOf(route)
    /\ stage \in {"guard", "handler", "route", "base", "bigint", "promises", "sent"}
    /\ status \in Int /\ error \in {"none", "guard", "http", "db", "other"}
    /\ stage = "base" => error # "guard"
    /\ stage \in {"guard", "handler"} => error = "none" /\ body = Null
    /\ stage \in {"guard", "handler", "route"} => listed = {} /\ under = <<>>
    /\ stage \in {"route", "bigint", "promises"} => error = "none"
    /\ stage \in {"route", "base", "bigint", "promises", "sent"} /\ error = "none" =>
           Answer(body, Place, listed, under)
    /\ stage \in {"route", "base", "bigint"} /\ error = "none" => <<>> \notin BigPaths(body)
    /\ stage \in {"promises", "sent"} => BigPaths(body) = {}

\* Under 'data', whatever was there is one key further down.
LEMMA Deeper ==
    ASSUME NEW pos \in Path, NEW p \in Path
    PROVE  Data \o pos \in Path /\ (Data \o pos) \o p = Data \o (pos \o p) /\ pos \o p \in Path
<1>1. Data \in Path
  BY KeysAssumption, SpelledOne DEF Data
<1> QED
  BY <1>1, ConcatProperties, ConcatAssociative DEF Path

\* The envelope.
LEMMA AnswerWrapped ==
    ASSUME NEW b, NEW pos, NEW l, NEW u, Answer(b, pos, l, u),
           NEW kids, DOMAIN kids \subseteq Key, "data" \in DOMAIN kids, kids["data"] = b,
           \A k \in DOMAIN kids \ {"data"} : IsValue(kids[k]) /\ BigPaths(kids[k]) = {}
    PROVE  /\ Answer(Object(kids), Data \o pos, l, IF l = {} THEN u ELSE Data \o u)
           /\ <<>> \notin BigPaths(Object(kids))
<1> DEFINE w == Object(kids)
<1>1. IsValue(b) /\ pos \in Path
  BY DEF Answer
<1>2. \A k \in DOMAIN kids : IsValue(kids[k])
  BY <1>1
<1>3. /\ IsValue(w) /\ <<>> \notin BigPaths(w)
      /\ BigPaths(w) = {Data \o p : p \in BigPaths(b)}
      /\ \A p \in DOMAIN b : Data \o p \in DOMAIN w /\ w[Data \o p] = b[p]
  BY <1>2, Wrapped DEF Data
<1> HIDE DEF w
<1>4. Data \o pos \in Path
  BY <1>1, Deeper
<1>5. ASSUME NEW p \in Returned
      PROVE  /\ Moved(p) \in Path
             /\ (Data \o pos) \o Moved(p) = Data \o (pos \o Moved(p))
             /\ (Data \o pos) \o Moved(p) \in DOMAIN w
             /\ w[(Data \o pos) \o Moved(p)].kind \in {"bigint", "string"}
             /\ w[(Data \o pos) \o Moved(p)].num = source[p].num
  <2>1. /\ Moved(p) \in Path /\ pos \o Moved(p) \in DOMAIN b
        /\ b[pos \o Moved(p)].kind \in {"bigint", "string"}
        /\ b[pos \o Moved(p)].num = source[p].num
    BY DEF Answer
  <2>2. (Data \o pos) \o Moved(p) = Data \o (pos \o Moved(p))
    BY <1>1, <2>1, Deeper
  <2> QED
    BY <1>3, <2>1, <2>2
<1>6. CASE l = {}
  <2>1. /\ u = <<>>
        /\ BigPaths(b) = IF route \in Raw THEN {pos \o Moved(p) : p \in Returned} ELSE {}
    BY <1>6 DEF Answer
  <2>2. BigPaths(w) = IF route \in Raw THEN {(Data \o pos) \o Moved(p) : p \in Returned} ELSE {}
    <3>1. CASE route \in Raw
      <4>1. ASSUME NEW x \in BigPaths(w)
            PROVE  \E p \in Returned : x = (Data \o pos) \o Moved(p)
        <5>1. PICK q \in BigPaths(b) : x = Data \o q
          BY <1>3
        <5>2. PICK p \in Returned : q = pos \o Moved(p)
          BY <2>1, <3>1
        <5> QED
          BY <1>5, <5>1, <5>2
      <4>2. ASSUME NEW p \in Returned PROVE (Data \o pos) \o Moved(p) \in BigPaths(w)
        BY <1>3, <1>5, <2>1, <3>1
      <4> QED
        BY <3>1, <4>1, <4>2
    <3>2. CASE route \notin Raw
      BY <1>3, <2>1, <3>2
    <3> QED
      BY <3>1, <3>2
  <2>3. Answer(w, Data \o pos, l, u)
    BY <1>3, <1>4, <1>5, <1>6, <2>1, <2>2 DEF Answer
  <2> QED
    BY <1>3, <1>6, <2>3 DEF w
<1>7. CASE l # {}
  <2>1. /\ BigPaths(b) = {} /\ u \in Path /\ l \subseteq Path
        /\ {u \o p : p \in l} = {pos \o Moved(p) : p \in Returned}
    BY <1>7 DEF Answer
  <2>2. BigPaths(w) = {} /\ Data \o u \in Path
    BY <1>3, <2>1, Deeper
  <2>3. {(Data \o u) \o p : p \in l} = {(Data \o pos) \o Moved(p) : p \in Returned}
    <3>1. \A p \in l : (Data \o u) \o p = Data \o (u \o p)
      BY <2>1, Deeper
    <3>2. ASSUME NEW p \in l PROVE \E r \in Returned : (Data \o u) \o p = (Data \o pos) \o Moved(r)
      <4>1. PICK r \in Returned : u \o p = pos \o Moved(r)
        BY <2>1
      <4> QED
        BY <1>5, <3>1, <4>1
    <3>3. ASSUME NEW r \in Returned PROVE \E p \in l : (Data \o pos) \o Moved(r) = (Data \o u) \o p
      <4>1. PICK p \in l : u \o p = pos \o Moved(r)
        BY <2>1
      <4> QED
        BY <1>5, <3>1, <4>1
    <3> DEFINE lhs == {(Data \o u) \o p : p \in l}
               rhs == {(Data \o pos) \o Moved(p) : p \in Returned}
    <3>4. \A x \in lhs : x \in rhs
      BY <3>2
    <3>5. \A x \in rhs : x \in lhs
      BY <3>3
    <3> HIDE DEF lhs, rhs
    <3>6. lhs = rhs
      BY <3>4, <3>5
    <3> QED
      BY <3>6 DEF lhs, rhs
  <2>4. Answer(w, Data \o pos, l, Data \o u)
    BY <1>3, <1>4, <1>5, <1>7, <2>1, <2>2, <2>3 DEF Answer
  <2> QED
    BY <1>3, <1>7, <2>4 DEF w
<1> QED
  BY <1>6, <1>7

\* Converted, an answer is still there, and lists can be made of its BigInts.
LEMMA AnswerConverted ==
    ASSUME NEW b, NEW pos, NEW l, NEW u, Answer(b, pos, l, u)
    PROVE  /\ IsValue(convertBigIntToString(b)) /\ BigPaths(convertBigIntToString(b)) = {}
           /\ \A p \in Returned :
                /\ Moved(p) \in Path
                /\ pos \o Moved(p) \in DOMAIN convertBigIntToString(b)
                /\ convertBigIntToString(b)[pos \o Moved(p)].kind \in {"bigint", "string"}
                /\ convertBigIntToString(b)[pos \o Moved(p)].num = source[p].num
<1> DEFINE c == convertBigIntToString(b)
<1>1. /\ IsValue(c) /\ DOMAIN c = DOMAIN b /\ BigPaths(c) = {}
      /\ \A p \in DOMAIN b : b[p].kind \in {"bigint", "string"} =>
             c[p] = Node("string", b[p].num)
  BY Converted DEF Answer
<1> HIDE DEF c
<1>2. ASSUME NEW p \in Returned
      PROVE  /\ Moved(p) \in Path /\ pos \o Moved(p) \in DOMAIN c
             /\ c[pos \o Moved(p)].kind \in {"bigint", "string"}
             /\ c[pos \o Moved(p)].num = source[p].num
  <2>1. /\ Moved(p) \in Path /\ pos \o Moved(p) \in DOMAIN b
        /\ b[pos \o Moved(p)].kind \in {"bigint", "string"}
        /\ b[pos \o Moved(p)].num = source[p].num
    BY DEF Answer
  <2>2. c[pos \o Moved(p)] = Node("string", source[p].num)
    BY <1>1, <2>1
  <2> QED
    BY <1>1, <2>1, <2>2, NodeFields
<1> QED
  BY <1>1, <1>2 DEF c

\* BigIntInterceptor either finds no BigInt, or lists them all and leaves none.
LEMMA TransformAnswer ==
    ASSUME NEW pos, Answer(body, pos, listed, under), <<>> \notin BigPaths(body), Transform
    PROVE  \/ UNCHANGED <<body, listed, under>> /\ BigPaths(body) = {}
           \/ /\ listed = {} /\ listed' # {} /\ BigPaths(body') = {}
              /\ Answer(body', Data \o pos, listed', under')
<1>1. IsValue(body)
  BY DEF Answer
<1>2. BigPaths(Null) = {}
  BY Written
<1>3. CASE ~(body # Null /\ hasBigInt(body))
  BY <1>1, <1>2, <1>3, Found DEF Transform
<1>4. CASE body # Null /\ hasBigInt(body)
  <2> DEFINE c    == convertBigIntToString(body)
             kids == [data |-> c, bigIntFields |-> Array([i \in {"[0]"} |-> Word])]
  <2>1. /\ listed' = BigPaths(body) /\ BigPaths(body) # {}
        /\ under' = Data /\ body' = Object(kids)
    BY <1>1, <1>4, Found DEF Transform, Data
  <2>2. listed = {} /\ route \in Raw /\ BigPaths(body) = {pos \o Moved(p) : p \in Returned}
    BY <2>1 DEF Answer
  <2>3. /\ IsValue(c) /\ BigPaths(c) = {}
        /\ \A p \in Returned :
              /\ Moved(p) \in Path /\ pos \o Moved(p) \in DOMAIN c
              /\ c[pos \o Moved(p)].kind \in {"bigint", "string"}
              /\ c[pos \o Moved(p)].num = source[p].num
    BY AnswerConverted
  <2>4. /\ DOMAIN kids = {"data", "bigIntFields"} /\ kids["data"] = c
        /\ kids["bigIntFields"] = Array([i \in {"[0]"} |-> Word])
    OBVIOUS
  <2> HIDE DEF c, kids
  <2>5. BigPaths(body) \subseteq Path
    BY <1>1 DEF IsValue, BigPaths, Path
  <2>6. {<<>> \o p : p \in BigPaths(body)} = BigPaths(body)
    <3>1. \A p \in BigPaths(body) : <<>> \o p = p
      BY <2>5, ConcatEmptySeq DEF Path
    <3> QED
      BY <3>1
  <2>7. Answer(c, pos, BigPaths(body), <<>>)
    <3>1. <<>> \in Path /\ pos \in Path
      BY EmptySeq DEF Path, Answer
    <3> QED
      BY <2>1, <2>2, <2>3, <2>5, <2>6, <3>1 DEF Answer
  <2>8. IsValue(kids["bigIntFields"]) /\ BigPaths(kids["bigIntFields"]) = {}
    <3>1. "array" \in Inner /\ "[0]" \in Key
      BY KeysAssumption DEF Inner
    <3> DEFINE some == [i \in {"[0]"} |-> Word]
    <3>2. \A k \in DOMAIN some : k \in Key /\ IsValue(some[k]) /\ BigPaths(some[k]) = {}
      BY <3>1, Written
    <3> HIDE DEF some
    <3>3. IsValue(Array(some)) /\ BigPaths(Array(some)) = {}
      BY <3>1, <3>2, PlainTree DEF Array
    <3> QED
      BY <2>4, <3>3 DEF some
  <2>9. DOMAIN kids \subseteq Key /\ "data" \in DOMAIN kids
    <3>1. "data" \in Key /\ "bigIntFields" \in Key
      BY KeysAssumption
    <3> QED
      BY <2>4, <3>1
  <2>10. Answer(Object(kids), Data \o pos, BigPaths(body), Data \o <<>>)
    BY <2>1, <2>4, <2>7, <2>8, <2>9, AnswerWrapped
  <2>11. Data \o <<>> = Data
    BY KeysAssumption, SpelledOne DEF Data
  <2>12. Answer(body', Data \o pos, listed', under')
    BY <2>1, <2>10, <2>11
  <2>13. BigPaths(body') = {}
    BY <2>1, <2>12 DEF Answer
  <2> QED
    BY <2>1, <2>2, <2>12, <2>13
<1> QED
  BY <1>3, <1>4

\* The answer is about the same request in the next state.
LEMMA AnswerNext ==
    ASSUME UNCHANGED <<route, source>>, Answer(body', Place', listed', under')
    PROVE  Answer(body, Place, listed, under)'
<1>1. Returned' = Returned
  BY DEF Returned
<1>2. \A p : Moved(p)' = Moved(p)
  BY DEF Moved
<1>3. \A p \in Returned :
         /\ Moved(p)' \in Path
         /\ Place' \o Moved(p)' \in DOMAIN body'
         /\ body'[Place' \o Moved(p)'].kind \in {"bigint", "string"}
         /\ body'[Place' \o Moved(p)'].num = source'[p].num
  BY <1>2 DEF Answer
<1>4. CASE listed' = {}
  <2>1. /\ under' = <<>>
        /\ BigPaths(body') = IF route' \in Raw THEN {Place' \o Moved(p)' : p \in Returned} ELSE {}
    <3>1. {Place' \o Moved(p)' : p \in Returned} = {Place' \o Moved(p) : p \in Returned}
      BY <1>2
    <3> QED
      BY <3>1, <1>4 DEF Answer
  <2> QED
    BY <1>1, <1>3, <1>4, <2>1 DEF Answer
<1>5. CASE listed' # {}
  <2>1. {under' \o p : p \in listed'} = {Place' \o Moved(p)' : p \in Returned}
    <3>1. {Place' \o Moved(p)' : p \in Returned} = {Place' \o Moved(p) : p \in Returned}
      BY <1>2
    <3> QED
      BY <3>1, <1>5 DEF Answer
  <2> QED
    BY <1>1, <1>3, <1>5, <2>1 DEF Answer
<1> QED
  BY <1>4, <1>5

LEMMA ResponsesStart == Init => RInv
<1>1. ASSUME Init PROVE IsValue(Null) /\ 200 \in Int
  BY Written
<1> QED
  BY <1>1 DEF Init, RInv

\* One step per action.
LEMMA ResponsesStep == RInv /\ [Next]_vars => RInv'
<1> SUFFICES ASSUME RInv, [Next]_vars PROVE RInv'
  OBVIOUS
<1>0. Data \in Path /\ Data \o <<>> = Data
  BY KeysAssumption, SpelledOne DEF Data
<1>1. CASE Refused
  BY <1>1, Written DEF RInv, Refused, Goto
<1>2. CASE Admitted
  BY <1>2 DEF RInv, Admitted, Goto
<1>3. CASE HandlerReturns
  <2>1. /\ stage' = "route" /\ UNCHANGED <<route, source, error, under, listed, status>>
        /\ error = "none" /\ listed = {} /\ under = <<>>
        /\ body' = Handled(route, source)
    BY <1>3 DEF HandlerReturns, Goto, RInv
  <2>2. Place' = <<>>
    BY <2>1 DEF Place
  <2>3. Answer(body', Place', listed', under') /\ <<>> \notin BigPaths(body')
    BY <2>1, <2>2, HandlerAnswers DEF RInv
  <2>4. Answer(body, Place, listed, under)'
    BY <2>1, <2>3, AnswerNext
  <2> QED
    BY <2>1, <2>3, <2>4 DEF RInv
<1>4. CASE HandlerThrows
  BY <1>4 DEF RInv, HandlerThrows, Goto
<1>5. CASE RouteInterceptor
  <2>1. /\ stage = "route" /\ stage' = "base" /\ UNCHANGED <<route, source, error, status>>
        /\ error = "none" /\ listed = {} /\ under = <<>> /\ <<>> \notin BigPaths(body)
    BY <1>5 DEF RouteInterceptor, Goto, RInv
  <2>2. Answer(body, <<>>, listed, under)
    BY <2>1 DEF RInv, Place
  <2>3. Answer(body', Place', listed', under') /\ <<>> \notin BigPaths(body')
    <3>1. CASE Transform
      <4>1. \/ UNCHANGED <<body, listed, under>>
            \/ /\ listed' # {} /\ BigPaths(body') = {}
               /\ Answer(body', Data, listed', under')
        BY <1>0, <2>1, <2>2, <3>1, TransformAnswer
      <4>2. Place' = IF listed' = {} THEN <<>> ELSE Data
        BY <2>1 DEF Place
      <4> QED
        BY <2>1, <2>2, <4>1, <4>2
    <3>2. CASE /\ route = "test" /\ body' = convertBigIntToString(body)
               /\ UNCHANGED <<under, listed>>
      <4>1. Place' = <<>>
        BY <2>1, <3>2 DEF Place
      <4>2. route \notin Raw /\ <<>> \in Path
        BY <3>2, EmptySeq DEF Raw, Path
      <4>3. /\ IsValue(body') /\ BigPaths(body') = {}
            /\ \A p \in Returned :
                  /\ Moved(p) \in Path /\ <<>> \o Moved(p) \in DOMAIN body'
                  /\ body'[<<>> \o Moved(p)].kind \in {"bigint", "string"}
                  /\ body'[<<>> \o Moved(p)].num = source[p].num
        BY <2>2, <3>2, AnswerConverted
      <4>4. Answer(body', <<>>, {}, <<>>)
        BY <4>2, <4>3 DEF Answer
      <4> QED
        BY <2>1, <3>2, <4>1, <4>3, <4>4
    <3>3. CASE UNCHANGED <<body, under, listed>>
      <4>1. Place' = <<>>
        BY <2>1, <3>3 DEF Place
      <4> QED
        BY <2>1, <2>2, <3>3, <4>1
    <3> QED
      BY <1>5, <3>1, <3>2, <3>3 DEF RouteInterceptor
  <2>4. Answer(body, Place, listed, under)'
    BY <2>1, <2>3, AnswerNext
  <2> QED
    BY <2>1, <2>3, <2>4 DEF RInv
<1>6. CASE Envelope
  <2> DEFINE kids == [data |-> body, statusCode |-> Leaf("number", status),
                      message |-> Word, status |-> Word]
  <2>1. /\ stage = "base" /\ stage' = "bigint" /\ error = "none"
        /\ UNCHANGED <<route, source, error, listed, status>>
        /\ under' = IF listed = {} THEN under ELSE Data \o under
        /\ body' = Object(kids)
    BY <1>6 DEF Envelope, Goto, Data
  <2>2. /\ Answer(body, Place, listed, under)
        /\ Place = (IF listed = {} THEN <<>> ELSE Data)
        /\ Place' = (IF listed = {} THEN Data ELSE Data \o Data)
    BY <2>1 DEF RInv, Place
  <2>3. /\ DOMAIN kids = {"data", "statusCode", "message", "status"}
        /\ kids["data"] = body /\ kids["statusCode"] = Leaf("number", status)
        /\ kids["message"] = Word /\ kids["status"] = Word
    OBVIOUS
  <2> HIDE DEF kids
  <2>4. DOMAIN kids \subseteq Key
    <3>1. "data" \in Key /\ "statusCode" \in Key /\ "message" \in Key /\ "status" \in Key
      BY KeysAssumption
    <3> QED
      BY <2>3, <3>1
  <2>5. \A k \in DOMAIN kids \ {"data"} : IsValue(kids[k]) /\ BigPaths(kids[k]) = {}
    BY <2>3, Written DEF RInv
  <2>6. /\ Answer(body', Data \o Place, listed, under')
        /\ <<>> \notin BigPaths(body')
    BY <2>1, <2>2, <2>3, <2>4, <2>5, AnswerWrapped
  <2>7. Answer(body', Place', listed', under')
    BY <1>0, <2>1, <2>2, <2>6
  <2>8. Answer(body, Place, listed, under)'
    BY <2>1, <2>7, AnswerNext
  <2> QED
    BY <2>1, <2>6, <2>8 DEF RInv
<1>7. CASE Problem
  <2> DEFINE kids == [k \in {"type", "title", "status", "detail", "instance"} |-> Word]
  <2>1. /\ stage' = "sent" /\ error # "none" /\ body' = Object(kids)
        /\ UNCHANGED <<route, source, error, under, listed>>
        /\ status' = CASE error = "http" -> 400 [] error = "db" -> 400 [] error = "other" -> 500
    BY <1>7 DEF Problem, Goto
  <2>2. \A k \in DOMAIN kids : k \in Key /\ IsValue(kids[k]) /\ BigPaths(kids[k]) = {}
    <3>1. \A k \in {"type", "title", "status", "detail", "instance"} : k \in Key
      BY KeysAssumption
    <3> QED
      BY <3>1, Written
  <2> HIDE DEF kids
  <2>3. BigPaths(body') = {}
    BY <2>1, <2>2, PlainTree DEF Object, Inner
  <2>4. status' \in Int
    BY <1>7, <2>1 DEF RInv, Problem
  <2> QED
    BY <2>1, <2>3, <2>4 DEF RInv
<1>8. CASE GlobalBigInt
  <2>1. /\ stage = "bigint" /\ stage' = "promises" /\ error = "none"
        /\ UNCHANGED <<route, source, error, status>>
        /\ Transform /\ <<>> \notin BigPaths(body)
        /\ Answer(body, Place, listed, under)
        /\ Place = (IF listed = {} THEN Data ELSE Data \o Data)
        /\ Place' = (IF listed' = {} THEN Data ELSE Data \o Data)
    BY <1>8 DEF GlobalBigInt, Goto, RInv, Place
  <2>2. \/ UNCHANGED <<body, listed, under>> /\ BigPaths(body) = {}
        \/ /\ listed = {} /\ listed' # {} /\ BigPaths(body') = {}
           /\ Answer(body', Data \o Place, listed', under')
    BY <2>1, TransformAnswer
  <2>3. Answer(body', Place', listed', under') /\ BigPaths(body') = {}
    BY <2>1, <2>2
  <2>4. Answer(body, Place, listed, under)'
    BY <2>1, <2>3, AnswerNext
  <2> QED
    BY <2>1, <2>3, <2>4 DEF RInv
<1>9. CASE ResolvePromises
  <2>1. /\ stage = "promises" /\ stage' = "sent" /\ error = "none"
        /\ UNCHANGED <<route, source, error, body, under, listed, status>>
        /\ Answer(body, Place, listed, under) /\ BigPaths(body) = {} /\ Place' = Place
    BY <1>9 DEF ResolvePromises, Goto, RInv, Place
  <2>2. Answer(body, Place, listed, under)'
    BY <2>1, AnswerNext
  <2> QED
    BY <2>1, <2>2 DEF RInv
<1>10. CASE UNCHANGED vars
  <2>1. UNCHANGED <<route, source, error, stage, body, under, listed, status>>
    BY <1>10 DEF vars
  <2>2. Place' = Place
    BY <2>1 DEF Place
  <2>3. Answer(body, Place, listed, under) => Answer(body, Place, listed, under)'
    BY <2>1, <2>2, AnswerNext
  <2> QED
    BY <2>1, <2>3 DEF RInv
<1> QED
  BY <1>1, <1>2, <1>3, <1>4, <1>5, <1>6, <1>7, <1>8, <1>9, <1>10 DEF Next, Done

LEMMA ResponsesInvariant == Spec => []RInv
BY ResponsesStart, ResponsesStep, PTL DEF Spec

\* Whatever the shape and the depth of an answer, JSON can write what leaves.
THEOREM AlwaysWritable == Spec => []NothingUnwritable
<1>1. RInv => NothingUnwritable
  BY DEF RInv, NothingUnwritable
<1> QED
  BY <1>1, ResponsesInvariant, PTL

LEMMA SentIsAnswer ==
    ASSUME RInv, Answered
    PROVE  Answer(body, Position, listed, under) /\ BigPaths(body) = {} /\ route \in Routes
<1>1. "data" \in Key /\ <<"data">> \o <<"data">> = <<"data", "data">>
  BY KeysAssumption, SpelledTwo
<1>2. Place = Position
  BY <1>1 DEF Answered, Place, Position, Data
<1> QED
  BY <1>2 DEF Answered, RInv

\* Every amount of the handler's source arrives in decimal at its place, through all
\* interceptors.
THEOREM AmountsAlwaysArrive == Spec => []AmountsArrive
<1>1. RInv => AmountsArrive
  <2> SUFFICES ASSUME RInv, Answered, NEW p \in Returned
               PROVE  /\ Position \o Moved(p) \in DOMAIN body
                      /\ body[Position \o Moved(p)] = Node("string", source[p].num)
    BY DEF AmountsArrive
  <2> DEFINE q == Position \o Moved(p)
  <2>1. /\ IsValue(body) /\ BigPaths(body) = {} /\ q \in DOMAIN body
        /\ body[q].kind \in {"bigint", "string"} /\ body[q].num = source[p].num
    BY SentIsAnswer DEF Answer
  <2> HIDE DEF q
  <2>2. body[q] \in [kind : Kinds, num : Int] /\ body[q].kind = "string"
    BY <2>1 DEF IsValue, BigPaths
  <2>3. body[q] = Node("string", source[p].num)
    BY <2>1, <2>2 DEF Node
  <2> QED
    BY <2>1, <2>3 DEF q
<1> QED
  BY <1>1, ResponsesInvariant, PTL

\* The listed paths lead to all amounts and to nothing else, whichever interceptor made
\* the list.
THEOREM ListIsAlwaysExact == Spec => []ListIsExact
<1>1. RInv => ListIsExact
  <2> SUFFICES ASSUME RInv, Answered, route \in {"protocol-parameters", "addresses/utxo", "tx/utxo"}
               PROVE  {under \o p : p \in listed} = {Position \o Moved(p) : p \in Returned}
    BY DEF ListIsExact
  <2>1. Answer(body, Position, listed, under) /\ BigPaths(body) = {} /\ route \in Raw
    BY SentIsAnswer DEF Raw
  <2>2. CASE listed = {}
    <3>1. {Position \o Moved(p) : p \in Returned} = {}
      BY <2>1, <2>2 DEF Answer
    <3> QED
      BY <2>2, <3>1
  <2>3. CASE listed # {}
    BY <2>1, <2>3 DEF Answer
  <2> QED
    BY <2>2, <2>3
<1> QED
  BY <1>1, ResponsesInvariant, PTL
=============================================================================
