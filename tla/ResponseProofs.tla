--------------------------- MODULE ResponseProofs ---------------------------
(***************************************************************************)
(* Proofs about Response, for any schema and operations: nulls reach       *)
(* exactly the parents they should, each has an error in it, mutations run *)
(* in order, and an error has the code of an error of the request.         *)
(***************************************************************************)
EXTENDS Response, SequenceTheorems, TLAPS

Names == STRING \cup {Position(i) : i \in 1..MaxItems}

Types == [named : STRING, list : BOOLEAN, items : BOOLEAN, required : BOOLEAN]

\* What TypeOK leaves open: the fields of a node.
NodeRecords ==
  [type : Types, pos : Seq(STRING), pc : {"field", "open", "done"}, null : BOOLEAN, nil : BOOLEAN]

\* A request that was rejected has no data.
NodesInv ==
  /\ operation \in Operations \cup {Rejected}
  /\ nodes \in [Paths -> NodeRecords]
  /\ Paths \subseteq Seq(Names)
  /\ operation = Rejected => Paths = {}

\* What is in an object or list was opened by a value, so the object or list has ended with its
\* parts or not at all.
TreeInv ==
  \A c \in Paths : \A n \in Prefixes(c) \ {c} :
    n \in Paths /\ nodes[n].pc # "field" /\ ~nodes[n].nil

\* A selection is in the object it was written for.
ObjectInv ==
  \A n \in Paths : IsObject(nodes[n].type) =>
    nodes[n].pos \in DOMAIN operation.select /\ operation.object[nodes[n].pos] = nodes[n].type.named

\* The type of a node is the one its parent gives it.
FieldInv ==
  \A c \in Paths \ {<<>>} :
    LET parent == nodes[Front(c)].type IN
    IF parent.list
      THEN nodes[c].type.required = parent.items
      ELSE /\ parent.named \in DOMAIN FieldTypes
           /\ Last(c) \in DOMAIN FieldTypes[parent.named]
           /\ nodes[c].type = FieldTypes[parent.named][Last(c)]

\* The fields of a mutation are there from the start, in one object.
RootInv ==
  operation # Rejected =>
    /\ <<>> \in Paths
    /\ nodes[<<>>].type = Optional(operation.root) /\ nodes[<<>>].pos = <<>>
    /\ \A f \in ToSet(operation.select[<<>>]) : <<f>> \in Paths

\* A null has ended.
NilInv ==
  \A n \in Paths : /\ nodes[n].nil => nodes[n].null
                   /\ nodes[n].null => nodes[n].pc = "done"

\* A node ends with everything in it.
DoneInv == \A n, m \in Paths : Within(m, n) /\ nodes[n].pc = "done" => nodes[m].pc = "done"

\* An error of a resolver is in a field that has no value because of it.
ErrorsInv ==
  /\ errors \in Seq(ToSet(errors))
  /\ \A i \in 1..Len(errors) : errors[i].kind \in Kinds
  /\ operation # Rejected => \A i \in 1..Len(errors) :
       /\ errors[i].kind \in ResolverErrors
       /\ Len(errors[i].path) \in Nat
       /\ \E c \in Paths : nodes[c].nil /\ Within(errors[i].path, c)

\* What is sent was computed when everything had ended.
SentInv ==
  /\ sent \in BOOLEAN
  /\ response = IF sent THEN Sent ELSE <<>>
  /\ sent => \A n \in Paths : nodes[n].pc = "done"

\* The inductive invariant.
ResponseInv ==
  /\ NodesInv
  /\ TreeInv
  /\ ObjectInv
  /\ FieldInv
  /\ RootInv
  /\ NilInv
  /\ DoneInv
  /\ NullReachesParents
  /\ ErrorsInv
  /\ ErrorsExplainNulls
  /\ SentInv

-----------------------------------------------------------------------------
(* Prefixes *)

LEMMA PrefixItems ==
  ASSUME NEW S, NEW a \in Seq(S), NEW p
  PROVE  IsPrefix(a, p) <=> Len(a) <= Len(p) /\ \A i \in 1..Len(a) : p[i] = a[i]
<1> DEFINE T == {p[i] : i \in 1..Len(a)}
           b == SubSeq(p, 1, Len(a))
<1>1. Len(a) \in Nat /\ SubSeq(a, 1, Len(a)) = a
  BY LenProperties, SubSeqFull
<1>2. /\ b \in Seq(T)
      /\ Len(b) = IF 1 <= Len(a) THEN Len(a) - 1 + 1 ELSE 0
      /\ \A i \in 1..(Len(a) - 1 + 1) : b[i] = p[1 + i - 1]
  <2>1. 1 \in Int /\ Len(a) \in Int /\ \A i \in 1..Len(a) : p[i] \in T
    BY <1>1
  <2> HIDE DEF T
  <2> QED
    BY <2>1, SubSeqProperties
<1>3. Len(b) = Len(a) /\ \A i \in 1..Len(a) : b[i] = p[i]
  BY <1>1, <1>2
<1> HIDE DEF b
<1>4. ASSUME \A i \in 1..Len(a) : p[i] = a[i] PROVE b = a
  <2>1. a \in Seq(S \cup T) /\ b \in Seq(S \cup T)
    BY <1>2, SeqMonotonic
  <2>2. Len(a) = Len(b) /\ \A i \in 1..Len(a) : a[i] = b[i]
    BY <1>3, <1>4
  <2> HIDE DEF T
  <2> QED
    BY <2>1, <2>2, SeqEqual
<1>5. b = a => \A i \in 1..Len(a) : p[i] = a[i]
  BY <1>3
<1> QED
  BY <1>1, <1>4, <1>5 DEF IsPrefix, b

LEMMA PrefixRefl ==
  ASSUME NEW S, NEW a \in Seq(S)
  PROVE  IsPrefix(a, a)
BY PrefixItems, LenProperties

LEMMA PrefixTrans ==
  ASSUME NEW S, NEW a \in Seq(S), NEW b \in Seq(S), NEW p, Len(p) \in Nat,
         IsPrefix(a, b), IsPrefix(b, p)
  PROVE  IsPrefix(a, p)
<1>1. Len(a) \in Nat /\ Len(b) \in Nat
  BY LenProperties
<1>2. Len(a) <= Len(b) /\ \A i \in 1..Len(a) : b[i] = a[i]
  BY PrefixItems
<1>3. Len(b) <= Len(p) /\ \A i \in 1..Len(b) : p[i] = b[i]
  BY PrefixItems
<1>4. Len(a) <= Len(p) /\ \A i \in 1..Len(a) : p[i] = a[i]
  BY <1>1, <1>2, <1>3
<1> QED
  BY <1>4, PrefixItems

LEMMA PrefixAnti ==
  ASSUME NEW S, NEW a \in Seq(S), NEW b \in Seq(S), IsPrefix(a, b), Len(b) <= Len(a)
  PROVE  a = b
<1>1. Len(a) \in Nat /\ Len(b) \in Nat
  BY LenProperties
<1>2. Len(a) <= Len(b) /\ \A i \in 1..Len(a) : b[i] = a[i]
  BY PrefixItems
<1> QED
  BY <1>1, <1>2, SeqEqual

\* Of two nodes that a path goes through, one is in the other.
LEMMA PrefixComparable ==
  ASSUME NEW S, NEW a \in Seq(S), NEW b \in Seq(S), NEW p, IsPrefix(a, p), IsPrefix(b, p)
  PROVE  IF Len(a) <= Len(b) THEN IsPrefix(a, b) ELSE IsPrefix(b, a)
<1>1. Len(a) \in Nat /\ Len(b) \in Nat
  BY LenProperties
<1>2. \A i \in 1..Len(a) : p[i] = a[i]
  BY PrefixItems
<1>3. \A i \in 1..Len(b) : p[i] = b[i]
  BY PrefixItems
<1>4. CASE Len(a) <= Len(b)
  <2>1. \A i \in 1..Len(a) : b[i] = a[i]
    BY <1>1, <1>2, <1>3, <1>4
  <2> QED
    BY <2>1, <1>4, PrefixItems
<1>5. CASE ~(Len(a) <= Len(b))
  <2>1. Len(b) <= Len(a) /\ \A i \in 1..Len(b) : a[i] = b[i]
    BY <1>1, <1>2, <1>3, <1>5
  <2> QED
    BY <2>1, <1>5, PrefixItems
<1> QED
  BY <1>4, <1>5

LEMMA PrefixesAre ==
  ASSUME NEW S, NEW c \in Seq(S), NEW n
  PROVE  n \in Prefixes(c) <=> n \in Seq(S) /\ IsPrefix(n, c)
<1>1. Len(c) \in Nat /\ \A i \in 1..Len(c) : c[i] \in S
  BY LenProperties, ElementOfSeq
<1>2. ASSUME NEW l \in 0..Len(c) PROVE SubSeq(c, 1, l) \in Seq(S) /\ IsPrefix(SubSeq(c, 1, l), c)
  <2>1. 1 \in Int /\ l \in Int /\ \A i \in 1..l : c[i] \in S
    BY <1>1
  <2>2. /\ SubSeq(c, 1, l) \in Seq(S)
        /\ Len(SubSeq(c, 1, l)) = IF 1 <= l THEN l - 1 + 1 ELSE 0
        /\ \A i \in 1..(l - 1 + 1) : SubSeq(c, 1, l)[i] = c[1 + i - 1]
    BY <2>1, SubSeqProperties
  <2>3. Len(SubSeq(c, 1, l)) = l /\ \A i \in 1..l : SubSeq(c, 1, l)[i] = c[i]
    BY <2>1, <2>2, l \in 0..Len(c)
  <2> DEFINE d == SubSeq(c, 1, l)
  <2>4. d \in Seq(S) /\ Len(d) <= Len(c) /\ \A i \in 1..Len(d) : c[i] = d[i]
    BY <1>1, <2>2, <2>3
  <2> HIDE DEF d
  <2>5. IsPrefix(d, c)
    BY <2>4, PrefixItems
  <2> QED
    BY <2>4, <2>5 DEF d
<1>3. ASSUME n \in Seq(S), IsPrefix(n, c) PROVE Len(n) \in 0..Len(c) /\ n = SubSeq(c, 1, Len(n))
  BY <1>1, <1>3, LenProperties, SubSeqFull DEF IsPrefix
<1> QED
  BY <1>2, <1>3 DEF Prefixes

\* The last step of a path.
LEMMA FrontLast ==
  ASSUME NEW S, NEW c \in Seq(S), c # <<>>
  PROVE  /\ Front(c) \in Seq(S) /\ Last(c) \in S
         /\ Len(c) \in Nat \ {0} /\ Len(Front(c)) = Len(c) - 1
         /\ IsPrefix(Front(c), c) /\ Front(c) # c
         /\ c = Append(Front(c), Last(c))
<1>1. Len(c) \in Nat \ {0}
  BY EmptySeq
<1>2. \A i \in 1..Len(c) : c[i] \in S
  BY ElementOfSeq
<1>3. /\ Front(c) \in Seq(S)
      /\ Len(Front(c)) = Len(c) - 1
      /\ \A i \in 1..Len(c) - 1 : Front(c)[i] = c[i]
  <2>1. 1 \in Int /\ Len(c) - 1 \in Int /\ \A i \in 1..(Len(c) - 1) : c[i] \in S
    BY <1>1, <1>2
  <2>2. /\ SubSeq(c, 1, Len(c) - 1) \in Seq(S)
        /\ Len(SubSeq(c, 1, Len(c) - 1)) = IF 1 <= Len(c) - 1 THEN Len(c) - 1 - 1 + 1 ELSE 0
        /\ \A i \in 1..(Len(c) - 1 - 1 + 1) : SubSeq(c, 1, Len(c) - 1)[i] = c[1 + i - 1]
    BY <2>1, SubSeqProperties
  <2> DEFINE d == SubSeq(c, 1, Len(c) - 1)
  <2>3. d \in Seq(S) /\ Len(d) = Len(c) - 1 /\ \A i \in 1..Len(c) - 1 : d[i] = c[i]
    <3>1. Len(c) - 1 - 1 + 1 = Len(c) - 1 /\ \A i \in 1..Len(c) - 1 : 1 + i - 1 = i
      BY <1>1
    <3>2. CASE Len(c) = 1
      BY <2>2, <3>1, <3>2
    <3>3. CASE Len(c) # 1
      BY <1>1, <2>2, <3>1, <3>3
    <3> QED
      BY <3>2, <3>3
  <2> QED
    BY <2>3 DEF Front, d
<1>4. Last(c) \in S
  BY <1>1, <1>2 DEF Last
<1>5. IsPrefix(Front(c), c) /\ Front(c) # c
  BY <1>1, <1>3, PrefixItems
<1>6. c = Append(Front(c), Last(c))
  <2> DEFINE d == Append(Front(c), Last(c))
  <2>1. /\ d \in Seq(S) /\ Len(d) = Len(Front(c)) + 1
        /\ \A i \in 1..Len(Front(c)) : d[i] = Front(c)[i]
        /\ d[Len(Front(c)) + 1] = Last(c)
    BY <1>3, <1>4, AppendProperties
  <2> HIDE DEF d
  <2>2. Len(c) = Len(d) /\ \A i \in 1..Len(c) : c[i] = d[i]
    BY <1>1, <1>3, <2>1 DEF Last
  <2>3. c = d
    BY <2>1, <2>2, SeqEqual
  <2> QED
    BY <2>3 DEF d
<1> QED
  BY <1>1, <1>3, <1>4, <1>5, <1>6

LEMMA FrontAppend ==
  ASSUME NEW S, NEW n \in Seq(S), NEW e \in S
  PROVE  /\ Append(n, e) \in Seq(S) /\ Append(n, e) # <<>> /\ Len(Append(n, e)) = Len(n) + 1
         /\ Front(Append(n, e)) = n /\ Last(Append(n, e)) = e
<1>1. Append(n, e) \in Seq(S) /\ Append(n, e) # <<>> /\ Len(Append(n, e)) = Len(n) + 1
  BY AppendProperties
<1>2. /\ Front(Append(n, e)) \in Seq(S) /\ Last(Append(n, e)) \in S
      /\ Append(n, e) = Append(Front(Append(n, e)), Last(Append(n, e)))
  BY <1>1, FrontLast
<1> QED
  BY <1>1, <1>2, AppendInjective

LEMMA FrontOne ==
  ASSUME NEW S, NEW e \in S
  PROVE  Front(<<e>>) = <<>> /\ Last(<<e>>) = e
<1> DEFINE empty == <<>>
<1>1. empty \in Seq(S) /\ Append(empty, e) = <<e>>
  OBVIOUS
<1> HIDE DEF empty
<1>2. Front(Append(empty, e)) = empty /\ Last(Append(empty, e)) = e
  BY <1>1, FrontAppend
<1> QED
  BY <1>1, <1>2 DEF empty

\* What comes before the last step.
LEMMA PrefixOfFront ==
  ASSUME NEW S, NEW c \in Seq(S), c # <<>>, NEW n \in Seq(S), IsPrefix(n, c), n # c
  PROVE  IsPrefix(n, Front(c))
<1>1. /\ Front(c) \in Seq(S) /\ IsPrefix(Front(c), c)
      /\ Len(c) \in Nat \ {0} /\ Len(Front(c)) = Len(c) - 1
  BY FrontLast
<1>2. Len(n) \in Nat /\ Len(n) <= Len(c)
  BY LenProperties DEF IsPrefix
<1>3. Len(n) < Len(c)
  BY <1>1, <1>2, PrefixAnti
<1> QED
  BY <1>1, <1>2, <1>3, PrefixComparable

\* What is in n is in one child of n.
LEMMA PrefixChild ==
  ASSUME NEW S, NEW n \in Seq(S), NEW m \in Seq(S), IsPrefix(n, m), n # m
  PROVE  \E d \in Seq(S) : /\ d # <<>> /\ Front(d) = n /\ IsPrefix(d, m)
                           /\ \A k \in Seq(S) : IsPrefix(n, k) /\ n # k /\ IsPrefix(k, m) => IsPrefix(d, k)
<1>1. /\ Len(n) \in Nat /\ Len(m) \in Nat /\ Len(n) <= Len(m)
      /\ \A i \in 1..Len(n) : m[i] = n[i]
  BY LenProperties, PrefixItems
<1>2. Len(n) < Len(m)
  BY <1>1, PrefixAnti
<1>3. Len(n) + 1 \in 1..Len(m)
  BY <1>1, <1>2
<1>4. m[Len(n) + 1] \in S
  BY <1>3, ElementOfSeq
<1> DEFINE d == Append(n, m[Len(n) + 1])
<1>5. /\ d \in Seq(S) /\ d # <<>> /\ Len(d) = Len(n) + 1
      /\ \A i \in 1..Len(n) : d[i] = n[i]
      /\ d[Len(n) + 1] = m[Len(n) + 1]
  BY <1>4, AppendProperties
<1>6. Front(d) = n
  BY <1>4, FrontAppend
<1> HIDE DEF d
<1>7. IsPrefix(d, m)
  <2>1. Len(d) <= Len(m) /\ \A i \in 1..Len(d) : m[i] = d[i]
    BY <1>1, <1>2, <1>5
  <2> QED
    BY <1>5, <2>1, PrefixItems
<1>8. ASSUME NEW k \in Seq(S), IsPrefix(n, k), n # k, IsPrefix(k, m) PROVE IsPrefix(d, k)
  <2>1. Len(k) \in Nat /\ Len(n) <= Len(k)
    BY <1>8, LenProperties DEF IsPrefix
  <2>2. Len(n) < Len(k)
    BY <1>1, <1>8, <2>1, PrefixAnti
  <2>3. Len(d) <= Len(k)
    BY <1>1, <1>5, <2>1, <2>2
  <2> QED
    BY <1>5, <1>7, <1>8, <2>3, PrefixComparable
<1> QED
  BY <1>5, <1>6, <1>7, <1>8

-----------------------------------------------------------------------------
(* The steps of nodes *)

LEMMA AboveInTree ==
  ASSUME NodesInv, TreeInv, NEW c \in Paths, NEW n \in Seq(Names), Within(c, n), n # c
  PROVE  n \in Paths /\ nodes[n].pc # "field" /\ ~nodes[n].nil
<1>1. c \in Seq(Names)
  BY DEF NodesInv
<1>2. n \in Prefixes(c) \ {c}
  BY <1>1, PrefixesAre DEF Within
<1> QED
  BY <1>2 DEF TreeInv

LEMMA FrontInTree ==
  ASSUME NodesInv, TreeInv, NEW c \in Paths \ {<<>>}
  PROVE  Front(c) \in Paths /\ Within(c, Front(c)) /\ c \in Children(Front(c))
<1>1. c \in Seq(Names)
  BY DEF NodesInv
<1>2. Front(c) \in Seq(Names) /\ IsPrefix(Front(c), c) /\ Front(c) # c
  BY <1>1, FrontLast
<1> QED
  BY <1>2, AboveInTree DEF Within, Children

\* A node that ends, as a field without parts, or as the parent of nodes that have ended.
Ends(c) ==
  /\ nodes' \in [Paths -> NodeRecords]
  /\ operation' = operation
  /\ \A n \in Paths \ {c} : nodes'[n] = nodes[n]
  /\ nodes'[c].type = nodes[c].type /\ nodes'[c].pos = nodes[c].pos
  /\ nodes'[c].pc = "done"
  /\ \/ nodes[c].pc = "field" /\ nodes'[c].null = nodes'[c].nil
     \/ /\ Ended(c)
        /\ nodes'[c].nil = FALSE
        /\ nodes'[c].null <=> \E d \in Children(c) : nodes[d].null /\ nodes[d].type.required

LEMMA EndsSame ==
  ASSUME NodesInv, NEW c \in Paths, Ends(c)
  PROVE  /\ Paths' = Paths
         /\ \A n \in Paths : nodes'[n].type = nodes[n].type /\ nodes'[n].pos = nodes[n].pos
         /\ nodes[c].pc # "done"
<1>1. Paths' = Paths
  BY DEF Ends, Paths
<1>2. \A n \in Paths : nodes'[n].type = nodes[n].type /\ nodes'[n].pos = nodes[n].pos
  BY DEF Ends
<1>3. nodes[c].pc # "done"
  BY DEF Ends, Ended
<1> QED
  BY <1>1, <1>2, <1>3

LEMMA EndsTree ==
  ASSUME NodesInv, TreeInv, ObjectInv, FieldInv, RootInv, NEW c \in Paths, Ends(c)
  PROVE  NodesInv' /\ TreeInv' /\ ObjectInv' /\ FieldInv' /\ RootInv'
<1>1. /\ Paths' = Paths /\ operation' = operation
      /\ \A n \in Paths : nodes'[n].type = nodes[n].type /\ nodes'[n].pos = nodes[n].pos
  BY EndsSame DEF Ends
<1>2. NodesInv'
  BY <1>1 DEF Ends, NodesInv
<1>3. TreeInv'
  <2> SUFFICES ASSUME NEW m \in Paths, NEW n \in Prefixes(m) \ {m}
               PROVE  n \in Paths /\ nodes'[n].pc # "field" /\ ~nodes'[n].nil
    BY <1>1 DEF TreeInv
  <2>1. n \in Paths /\ nodes[n].pc # "field" /\ ~nodes[n].nil
    BY DEF TreeInv
  <2>2. CASE n = c
    BY <2>1, <2>2 DEF Ends
  <2>3. CASE n # c
    BY <2>1, <2>3 DEF Ends
  <2> QED
    BY <2>2, <2>3
<1>4. ObjectInv'
  BY <1>1 DEF ObjectInv, IsObject
<1>5. FieldInv'
  BY <1>1, FrontInTree DEF FieldInv
<1>6. RootInv'
  BY <1>1 DEF RootInv
<1> QED
  BY <1>2, <1>3, <1>4, <1>5, <1>6

LEMMA EndsDone ==
  ASSUME NodesInv, TreeInv, NilInv, DoneInv, NEW c \in Paths, Ends(c)
  PROVE  NilInv' /\ DoneInv'
<1>1. Paths' = Paths
  BY EndsSame
<1>2. NilInv'
  <2> SUFFICES ASSUME NEW n \in Paths
               PROVE  /\ nodes'[n].nil => nodes'[n].null
                      /\ nodes'[n].null => nodes'[n].pc = "done"
    BY <1>1 DEF NilInv
  <2>1. CASE n = c
    BY <2>1 DEF Ends
  <2>2. CASE n # c
    BY <2>2 DEF Ends, NilInv
  <2> QED
    BY <2>1, <2>2
<1>3. DoneInv'
  <2> SUFFICES ASSUME NEW n \in Paths, NEW m \in Paths, Within(m, n), nodes'[n].pc = "done"
               PROVE  nodes'[m].pc = "done"
    BY <1>1 DEF DoneInv
  <2>1. n \in Seq(Names) /\ m \in Seq(Names)
    BY DEF NodesInv
  <2>2. CASE m = c
    BY <2>2 DEF Ends
  <2>3. CASE m # c /\ n # c
    BY <2>3 DEF Ends, DoneInv
  <2>4. CASE m # c /\ n = c
    <3>1. nodes[c].pc # "field"
      BY <2>1, <2>4, AboveInTree
    <3>2. Ended(c)
      BY <3>1 DEF Ends
    <3>3. PICK d \in Seq(Names) : d # <<>> /\ Front(d) = c /\ IsPrefix(d, m)
      BY <2>1, <2>4, PrefixChild DEF Within
    <3>4. d \in Paths
      BY <2>1, <3>3, AboveInTree DEF Within
    <3>5. nodes[d].pc = "done"
      BY <3>2, <3>3, <3>4 DEF Ended, Children
    <3>6. nodes[m].pc = "done"
      BY <3>3, <3>4, <3>5 DEF DoneInv, Within
    <3> QED
      BY <3>6, <2>4 DEF Ends
  <2> QED
    BY <2>2, <2>3, <2>4
<1> QED
  BY <1>2, <1>3

\* From a node to a part of one of its children, through the child.
LEMMA CarriesChild ==
  ASSUME NodesInv, TreeInv, NEW n \in Paths, NEW d \in Children(n), NEW m \in Paths, Within(m, d)
  PROVE  /\ Within(m, n) /\ m # n
         /\ Carries(n, m) <=> nodes[d].type.required /\ Carries(d, m)
<1>1. /\ n \in Seq(Names) /\ d \in Seq(Names) /\ m \in Seq(Names)
      /\ d \in Paths /\ d # <<>> /\ Front(d) = n
  BY DEF NodesInv, Children
<1>2. IsPrefix(n, d) /\ n # d /\ Len(d) \in Nat /\ Len(n) = Len(d) - 1
  BY <1>1, FrontLast
<1>3. IsPrefix(d, m) /\ Len(m) \in Nat /\ Len(d) <= Len(m)
  BY <1>1, LenProperties DEF Within, IsPrefix
<1>4. IsPrefix(n, m) /\ m # n
  <2>1. IsPrefix(n, m)
    BY <1>1, <1>2, <1>3, PrefixTrans
  <2> QED
    BY <1>2, <1>3, <2>1
<1>5. ASSUME NEW k \in Paths, IsPrefix(k, m), IsPrefix(n, k), k # n PROVE IsPrefix(d, k)
  <2>1. k \in Seq(Names) /\ Len(k) \in Nat /\ Len(n) <= Len(k)
    BY <1>5, LenProperties DEF NodesInv, IsPrefix
  <2>2. Len(n) # Len(k)
    BY <1>1, <1>5, <2>1, PrefixAnti
  <2>3. Len(d) <= Len(k)
    BY <1>2, <2>1, <2>2
  <2> QED
    BY <1>1, <1>3, <1>5, <2>1, <2>3, PrefixComparable
<1>6. ASSUME NEW k \in Paths, IsPrefix(d, k), k # d PROVE IsPrefix(n, k) /\ k # n
  <2>1. k \in Seq(Names) /\ Len(k) \in Nat /\ Len(d) <= Len(k)
    BY <1>6, LenProperties DEF NodesInv, IsPrefix
  <2>2. IsPrefix(n, k)
    BY <1>1, <1>2, <1>6, <2>1, PrefixTrans
  <2> QED
    BY <1>2, <2>1, <2>2
<1>7. IsPrefix(d, m) /\ IsPrefix(n, d) /\ d # n
  BY <1>2, <1>3
<1> QED
  BY <1>1, <1>4, <1>5, <1>6, <1>7 DEF Carries, Within

LEMMA EndsNull ==
  ASSUME NodesInv, TreeInv, NilInv, DoneInv, NullReachesParents, NEW c \in Paths, Ends(c)
  PROVE  NullReachesParents'
<1>1. /\ Paths' = Paths
      /\ \A n \in Paths : nodes'[n].type = nodes[n].type
      /\ nodes[c].pc # "done"
  BY EndsSame
<1>2. \A n, m \in Paths : Carries(n, m)' <=> Carries(n, m)
  BY <1>1 DEF Carries
<1>3. \A n \in Paths : n \in Seq(Names) /\ Within(n, n)
  BY PrefixRefl DEF NodesInv, Within
<1> SUFFICES ASSUME NEW n \in Paths, nodes'[n].pc = "done"
             PROVE  nodes'[n].null <=> \E m \in Paths : Within(m, n) /\ nodes'[m].nil /\ Carries(n, m)
  BY <1>1, <1>2 DEF NullReachesParents
<1>4. CASE n # c
  <2>1. nodes'[n] = nodes[n] /\ nodes[n].pc = "done"
    BY <1>4 DEF Ends
  <2>2. \A m \in Paths : Within(m, n) => m # c
    BY <1>1, <2>1 DEF DoneInv
  <2>3. \A m \in Paths : Within(m, n) => nodes'[m] = nodes[m]
    BY <2>2 DEF Ends
  <2> QED
    BY <2>1, <2>3 DEF NullReachesParents
<1>5. CASE n = c /\ nodes[c].pc = "field"
  <2>1. nodes'[c].null = nodes'[c].nil
    BY <1>5 DEF Ends, Ended
  <2>2. \A m \in Paths : Within(m, c) => m = c
    BY <1>3, <1>5, AboveInTree
  <2>3. Carries(c, c)
    BY <1>3, <2>2 DEF Carries
  <2> QED
    BY <1>3, <1>5, <2>1, <2>2, <2>3
<1>6. CASE n = c /\ Ended(c)
  <2>1. /\ nodes'[c].nil = FALSE
        /\ nodes'[c].null <=> \E d \in Children(c) : nodes[d].null /\ nodes[d].type.required
    BY <1>6 DEF Ends, Ended
  <2>2. \A d \in Children(c) : d \in Paths /\ nodes[d].pc = "done"
    BY <1>6 DEF Ended, Children
  <2>3. ASSUME NEW d \in Children(c), nodes[d].null, nodes[d].type.required
        PROVE  \E m \in Paths : Within(m, c) /\ nodes'[m].nil /\ Carries(c, m)
    <3>1. PICK m \in Paths : Within(m, d) /\ nodes[m].nil /\ Carries(d, m)
      BY <2>2, <2>3 DEF NullReachesParents
    <3>2. Within(m, c) /\ m # c /\ Carries(c, m)
      BY <2>3, <3>1, CarriesChild
    <3> QED
      BY <3>1, <3>2 DEF Ends
  <2>4. ASSUME NEW m \in Paths, Within(m, c), nodes'[m].nil, Carries(c, m)
        PROVE  \E d \in Children(c) : nodes[d].null /\ nodes[d].type.required
    <3>1. m # c /\ nodes[m].nil
      BY <2>1, <2>4 DEF Ends
    <3>2. PICK d \in Seq(Names) : d # <<>> /\ Front(d) = c /\ IsPrefix(d, m)
      BY <1>3, <2>4, <3>1, PrefixChild DEF Within
    <3>3. d \in Paths
      BY <1>3, <3>2, AboveInTree DEF Within
    <3>4. d \in Children(c)
      BY <3>2, <3>3 DEF Children
    <3>5. nodes[d].type.required /\ Carries(d, m)
      BY <2>4, <3>2, <3>4, CarriesChild DEF Within
    <3> QED
      BY <2>2, <2>4, <3>1, <3>2, <3>3, <3>4, <3>5 DEF NullReachesParents, Within
  <2> QED
    BY <1>6, <2>1, <2>3, <2>4
<1> QED
  BY <1>4, <1>5, <1>6 DEF Ends

\* A field that has a value, and what is opened in it.
Opens(c) ==
  /\ nodes[c].pc = "field"
  /\ operation' = operation
  /\ Paths \subseteq Paths' /\ Paths' \subseteq Seq(Names)
  /\ nodes' \in [Paths' -> NodeRecords]
  /\ nodes'[c] = [nodes[c] EXCEPT !.pc = "open"]
  /\ \A n \in Paths \ {c} : nodes'[n] = nodes[n]
  /\ \A n \in Paths' \ Paths :
       /\ n # <<>> /\ Within(n, c) /\ n # c
       /\ nodes'[n].pc # "done" /\ ~nodes'[n].null /\ ~nodes'[n].nil
       /\ \/ Front(n) = c
          \/ /\ Front(n) \in Paths' \ Paths /\ nodes'[Front(n)].pc = "open"
             /\ Front(n) # <<>> /\ Front(Front(n)) = c
       /\ IsObject(nodes'[n].type) =>
            /\ nodes'[n].pos \in DOMAIN operation.select
            /\ operation.object[nodes'[n].pos] = nodes'[n].type.named
       /\ LET parent == nodes'[Front(n)].type IN
          IF parent.list
            THEN nodes'[n].type.required = parent.items
            ELSE /\ parent.named \in DOMAIN FieldTypes
                 /\ Last(n) \in DOMAIN FieldTypes[parent.named]
                 /\ nodes'[n].type = FieldTypes[parent.named][Last(n)]

LEMMA OpensSame ==
  ASSUME NodesInv, NEW c \in Paths, Opens(c)
  PROVE  \A n \in Paths : /\ n \in Paths'
                          /\ nodes'[n].type = nodes[n].type /\ nodes'[n].pos = nodes[n].pos
                          /\ nodes'[n].null = nodes[n].null /\ nodes'[n].nil = nodes[n].nil
                          /\ nodes'[n].pc = IF n = c THEN "open" ELSE nodes[n].pc
<1>1. nodes'[c] = [nodes[c] EXCEPT !.pc = "open"]
  BY DEF Opens
<1>2. nodes[c] \in NodeRecords
  BY DEF NodesInv
<1>3. /\ nodes'[c].type = nodes[c].type /\ nodes'[c].pos = nodes[c].pos
      /\ nodes'[c].null = nodes[c].null /\ nodes'[c].nil = nodes[c].nil
      /\ nodes'[c].pc = "open"
  BY <1>1, <1>2 DEF NodeRecords
<1> QED
  BY <1>3 DEF Opens

LEMMA OpensTree ==
  ASSUME NodesInv, TreeInv, ObjectInv, FieldInv, RootInv, NilInv, NEW c \in Paths, Opens(c)
  PROVE  NodesInv' /\ TreeInv' /\ ObjectInv' /\ FieldInv' /\ RootInv' /\ NilInv'
<1>1. /\ operation' = operation
      /\ \A n \in Paths : /\ n \in Paths'
                          /\ nodes'[n].type = nodes[n].type /\ nodes'[n].pos = nodes[n].pos
                          /\ nodes'[n].null = nodes[n].null /\ nodes'[n].nil = nodes[n].nil
                          /\ nodes'[n].pc = IF n = c THEN "open" ELSE nodes[n].pc
  BY OpensSame DEF Opens
<1>2. ~nodes[c].null /\ ~nodes[c].nil /\ operation # Rejected
  BY DEF NilInv, Opens, NodesInv
<1>3. NodesInv'
  <2>1. operation' \in Operations \cup {Rejected} /\ ~(operation' = Rejected)
    BY <1>1, <1>2 DEF NodesInv
  <2> QED
    BY <2>1 DEF Opens, NodesInv
<1>4. TreeInv'
  <2> SUFFICES ASSUME NEW m \in Paths', NEW n \in Prefixes(m) \ {m}
               PROVE  n \in Paths' /\ nodes'[n].pc # "field" /\ ~nodes'[n].nil
    BY DEF TreeInv
  <2>1. m \in Seq(Names) /\ n \in Seq(Names) /\ Within(m, n) /\ n # m
    BY PrefixesAre DEF Opens, Within
  <2>2. ASSUME NEW l \in Paths, Within(l, n), l # n \/ l = c
        PROVE  n \in Paths' /\ nodes'[n].pc # "field" /\ ~nodes'[n].nil
    <3>1. CASE n = c
      BY <1>1, <1>2, <3>1
    <3>2. CASE n # c
      BY <1>1, <2>1, <2>2, <3>2, AboveInTree
    <3> QED
      BY <3>1, <3>2
  <2>3. CASE m \in Paths
    BY <2>1, <2>2, <2>3
  <2>4. CASE m \notin Paths
    <3>1. m # <<>> /\ Front(m) \in Seq(Names) /\ Within(Front(m), n)
      <4>1. m # <<>>
        BY <2>4 DEF Opens
      <4> QED
        BY <2>1, <4>1, FrontLast, PrefixOfFront DEF Within
    <3>2. CASE Front(m) = c
      BY <2>2, <3>1, <3>2
    <3>3. CASE Front(m) # c
      <4>1. /\ Front(m) \in Paths' /\ nodes'[Front(m)].pc = "open" /\ ~nodes'[Front(m)].nil
            /\ Front(m) # <<>> /\ Front(Front(m)) = c
        BY <2>4, <3>3 DEF Opens
      <4>2. CASE n = Front(m)
        BY <4>1, <4>2
      <4>3. CASE n # Front(m)
        <5>1. Within(c, n)
          BY <2>1, <3>1, <4>1, <4>3, PrefixOfFront DEF Within
        <5> QED
          BY <2>2, <5>1
      <4> QED
        BY <4>2, <4>3
    <3> QED
      BY <3>2, <3>3
  <2> QED
    BY <2>3, <2>4
<1>5. ObjectInv'
  <2> SUFFICES ASSUME NEW n \in Paths', IsObject(nodes'[n].type)
               PROVE  /\ nodes'[n].pos \in DOMAIN operation.select
                      /\ operation.object[nodes'[n].pos] = nodes'[n].type.named
    BY <1>1 DEF ObjectInv, IsObject
  <2>1. CASE n \in Paths
    BY <1>1, <2>1 DEF ObjectInv
  <2>2. CASE n \notin Paths
    BY <2>2 DEF Opens
  <2> QED
    BY <2>1, <2>2
<1>6. FieldInv'
  <2> SUFFICES ASSUME NEW n \in Paths' \ {<<>>}
               PROVE  LET parent == nodes'[Front(n)].type IN
                      IF parent.list
                        THEN nodes'[n].type.required = parent.items
                        ELSE /\ parent.named \in DOMAIN FieldTypes
                             /\ Last(n) \in DOMAIN FieldTypes[parent.named]
                             /\ nodes'[n].type = FieldTypes[parent.named][Last(n)]
    BY DEF FieldInv
  <2>1. CASE n \in Paths
    <3>1. nodes'[n].type = nodes[n].type /\ nodes'[Front(n)].type = nodes[Front(n)].type
      BY <1>1, <2>1, FrontInTree
    <3> QED
      BY <2>1, <3>1 DEF FieldInv
  <2>2. CASE n \notin Paths
    BY <2>2 DEF Opens
  <2> QED
    BY <2>1, <2>2
<1>7. RootInv'
  BY <1>1, <1>2 DEF RootInv
<1>8. NilInv'
  <2> SUFFICES ASSUME NEW n \in Paths'
               PROVE  /\ nodes'[n].nil => nodes'[n].null
                      /\ nodes'[n].null => nodes'[n].pc = "done"
    BY DEF NilInv
  <2>1. CASE n \in Paths
    BY <1>1, <1>2, <2>1 DEF NilInv
  <2>2. CASE n \notin Paths
    BY <2>2 DEF Opens
  <2> QED
    BY <2>1, <2>2
<1> QED
  BY <1>3, <1>4, <1>5, <1>6, <1>7, <1>8

LEMMA OpensDone ==
  ASSUME NodesInv, TreeInv, NilInv, DoneInv, NullReachesParents, NEW c \in Paths, Opens(c)
  PROVE  DoneInv' /\ NullReachesParents'
<1>1. \A n \in Paths : /\ n \in Paths'
                       /\ nodes'[n].type = nodes[n].type
                       /\ nodes'[n].null = nodes[n].null /\ nodes'[n].nil = nodes[n].nil
                       /\ nodes'[n].pc = IF n = c THEN "open" ELSE nodes[n].pc
  BY OpensSame
<1>2. /\ c \in Seq(Names) /\ nodes[c].pc = "field" /\ ~nodes[c].nil
      /\ \A n \in Paths' : n \in Seq(Names)
  BY DEF NodesInv, Opens, NilInv
<1>3. \A n \in Paths' \ Paths : /\ Within(n, c) /\ n # c
                                /\ nodes'[n].pc # "done" /\ ~nodes'[n].nil
  BY DEF Opens
<1>4. \A n \in Paths : Within(n, c) => n = c
  BY <1>2, AboveInTree
<1>5. ASSUME NEW n \in Paths', nodes'[n].pc = "done"
      PROVE  n \in Paths /\ n # c /\ nodes[n].pc = "done" /\ ~Within(c, n)
  <2>1. n \in Paths /\ n # c /\ nodes[n].pc = "done"
    BY <1>1, <1>3, <1>5
  <2> QED
    BY <1>2, <2>1 DEF DoneInv
<1>6. ASSUME NEW n \in Paths', nodes'[n].pc = "done", NEW m \in Paths', Within(m, n)
      PROVE  m \in Paths /\ m # c
  <2>1. n \in Paths /\ n # c /\ ~Within(c, n)
    BY <1>5, <1>6
  <2>2. ASSUME m \notin Paths PROVE FALSE
    <3>1. IsPrefix(c, m) /\ IsPrefix(n, m)
      BY <1>3, <1>6, <2>2 DEF Within
    <3>2. IsPrefix(n, c) \/ IsPrefix(c, n)
      BY <1>2, <3>1, PrefixComparable
    <3> QED
      BY <1>4, <2>1, <3>2 DEF Within
  <2>3. m # c
    BY <1>6, <2>1
  <2> QED
    BY <2>2, <2>3
<1>7. DoneInv'
  <2> SUFFICES ASSUME NEW n \in Paths', NEW m \in Paths', Within(m, n), nodes'[n].pc = "done"
               PROVE  nodes'[m].pc = "done"
    BY DEF DoneInv, Within
  <2> QED
    BY <1>1, <1>5, <1>6 DEF DoneInv
<1>8. NullReachesParents'
  <2> SUFFICES ASSUME NEW n \in Paths', nodes'[n].pc = "done"
               PROVE  nodes'[n].null <=>
                        \E m \in Paths' : Within(m, n) /\ nodes'[m].nil /\ Carries(n, m)'
    BY DEF NullReachesParents, Within
  <2>1. n \in Paths /\ n # c /\ nodes[n].pc = "done" /\ nodes'[n].null = nodes[n].null
    BY <1>1, <1>5
  <2>2. ASSUME NEW m \in Paths, nodes[m].nil PROVE Carries(n, m)' <=> Carries(n, m)
    <3>1. m # c /\ ~Within(m, c)
      BY <1>2, <1>4, <2>2
    <3>2. ASSUME NEW k \in Paths', Within(m, k) PROVE k \in Paths
      <4> SUFFICES ASSUME k \notin Paths PROVE FALSE
        OBVIOUS
      <4>1. IsPrefix(c, k) /\ IsPrefix(k, m) /\ Len(m) \in Nat
        BY <1>2, <1>3, <3>2, LenProperties DEF Within, NodesInv
      <4>2. IsPrefix(c, m)
        BY <1>2, <4>1, PrefixTrans
      <4> QED
        BY <3>1, <4>2 DEF Within
    <3>3. \A k \in Paths : k \in Paths' /\ nodes'[k].type = nodes[k].type
      BY <1>1
    <3>4. Carries(n, m)' <=>
            \A k \in Paths' : Within(m, k) /\ Within(k, n) /\ k # n => nodes'[k].type.required
      BY DEF Carries, Within
    <3> QED
      BY <3>2, <3>3, <3>4 DEF Carries
  <2>3. \A m \in Paths' : nodes'[m].nil => m \in Paths /\ nodes[m].nil
    BY <1>1, <1>3
  <2>4. \A m \in Paths : nodes[m].nil => m \in Paths' /\ nodes'[m].nil
    BY <1>1
  <2>5. nodes[n].null <=> \E m \in Paths : Within(m, n) /\ nodes[m].nil /\ Carries(n, m)
    BY <2>1 DEF NullReachesParents
  <2> QED
    BY <2>1, <2>2, <2>3, <2>4, <2>5
<1> QED
  BY <1>7, <1>8

\* One step down from a node that has nothing in it.
LEMMA NewBelow ==
  ASSUME NodesInv, TreeInv, NEW c \in Paths, nodes[c].pc = "field",
         NEW n \in Seq(Names), Within(n, c), NEW e \in Names
  PROVE  LET d == Append(n, e) IN
         /\ d \in Seq(Names) /\ d # <<>> /\ Front(d) = n /\ Last(d) = e /\ Len(d) = Len(n) + 1
         /\ Within(d, c) /\ d # c /\ d \notin Paths
<1> DEFINE d == Append(n, e)
<1>1. c \in Seq(Names) /\ Len(c) \in Nat /\ Len(n) \in Nat /\ Len(c) <= Len(n)
  BY LenProperties DEF NodesInv, Within, IsPrefix
<1>2. /\ d \in Seq(Names) /\ d # <<>> /\ Front(d) = n /\ Last(d) = e /\ Len(d) = Len(n) + 1
      /\ IsPrefix(n, d)
  <2>1. d \in Seq(Names) /\ d # <<>> /\ Front(d) = n /\ Last(d) = e /\ Len(d) = Len(n) + 1
    BY FrontAppend
  <2> HIDE DEF d
  <2> QED
    BY <2>1, FrontLast
<1> HIDE DEF d
<1>3. Within(d, c)
  BY <1>1, <1>2, PrefixTrans DEF Within
<1>4. d # c
  BY <1>1, <1>2
<1>5. d \notin Paths
  BY <1>1, <1>3, <1>4, AboveInTree
<1> QED
  BY <1>2, <1>3, <1>4, <1>5 DEF d

LEMMA NodeIsRecord ==
  \A type \in Types, pos \in Seq(STRING), pc \in {"field", "open"} : Node(type, pos, pc) \in NodeRecords
BY DEF Node, NodeRecords

LEMMA ItemType ==
  \A type \in Types : /\ Item(type) \in Types /\ Item(type).list = FALSE
                      /\ Item(type).named = type.named /\ Item(type).required = type.items
BY DEF Item, Optional, Types

\* What the value of a field adds.
LEMMA OpenedOpens ==
  ASSUME NodesInv, TreeInv, ObjectInv, NEW c \in Paths, nodes[c].pc = "field",
         IsObject(nodes[c].type), NEW k \in IF nodes[c].type.list THEN 0..MaxItems ELSE {1},
         Opened(c, k), operation' = operation
  PROVE  Opens(c)
<1> DEFINE type == nodes[c].type
           pos == nodes[c].pos
           elements == IF type.list THEN Elements(c, k) ELSE {}
           places == IF type.list THEN elements ELSE {c}
           fields == UNION {FieldsOf(operation, n, pos) : n \in places}
           new(n) == IF n \in Paths THEN [nodes EXCEPT ![c].pc = "open"][n]
                     ELSE IF n \in elements THEN Node(Item(type), pos, "open")
                     ELSE FieldNode(type.named, pos, Last(n))
<1>1. /\ nodes' = [n \in Paths \cup elements \cup fields |-> new(n)]
      /\ Paths' = Paths \cup elements \cup fields
  BY DEF Opened, Paths
<1>2. /\ c \in Seq(Names) /\ Within(c, c)
      /\ nodes[c] \in NodeRecords
      /\ type \in Types /\ pos \in Seq(STRING)
  BY PrefixRefl DEF NodesInv, NodeRecords, Within
<1>3. /\ pos \in DOMAIN operation.select /\ type.named = operation.object[pos]
      /\ Valid(operation)
  BY ResponseAssumption DEF ObjectInv, NodesInv
<1>4. ASSUME NEW f \in ToSet(operation.select[pos])
      PROVE  /\ f \in STRING /\ f \in Names
             /\ type.named \in DOMAIN FieldTypes /\ f \in DOMAIN FieldTypes[type.named]
             /\ FieldTypes[type.named][f] \in Types
             /\ IsObject(FieldTypes[type.named][f]) =>
                  /\ Append(pos, f) \in DOMAIN operation.select
                  /\ operation.object[Append(pos, f)] = FieldTypes[type.named][f].named
  <2>1. f \in STRING
    <3>1. operation.select[pos] \in Seq(STRING)
      BY <1>3 DEF Valid
    <3> QED
      BY <3>1, LenProperties, ElementOfSeq DEF ToSet
  <2>2. type.named \in DOMAIN FieldTypes /\ f \in DOMAIN FieldTypes[type.named]
    BY <1>3 DEF Valid
  <2>3. FieldTypes[type.named][f] \in Types
    BY <2>2, SchemaAssumption DEF Types
  <2>4. IsObject(FieldTypes[type.named][f]) =>
          /\ Append(pos, f) \in DOMAIN operation.select
          /\ operation.object[Append(pos, f)] = FieldTypes[type.named][f].named
    BY <1>3 DEF Valid
  <2> QED
    BY <2>1, <2>2, <2>3, <2>4 DEF Names
<1> HIDE DEF new
<1>5. ASSUME NEW e \in elements
      PROVE  /\ type.list /\ e \in Seq(Names) /\ e # <<>> /\ Front(e) = c /\ Len(e) = Len(c) + 1
             /\ Within(e, c) /\ e # c /\ e \notin Paths
             /\ new(e) = Node(Item(type), pos, "open")
  <2>1. type.list /\ e \in Elements(c, k) /\ k \in 0..MaxItems
    <3>1. type.list
      OBVIOUS
    <3> QED
      BY <3>1
  <2>2. PICK i \in 1..k : e = Append(c, Position(i))
    BY <2>1 DEF Elements
  <2>3. Position(i) \in Names
    BY <2>1, ResponseAssumption DEF Names
  <2>4. /\ e \in Seq(Names) /\ e # <<>> /\ Front(e) = c /\ Len(e) = Len(c) + 1
        /\ Within(e, c) /\ e # c /\ e \notin Paths
    BY <1>2, <2>2, <2>3, NewBelow
  <2> QED
    BY <2>1, <2>4 DEF new
<1>6. ASSUME NEW x \in fields
      PROVE  /\ x \in Seq(Names) /\ x # <<>> /\ Front(x) \in places
             /\ Last(x) \in ToSet(operation.select[pos])
             /\ Within(x, c) /\ x # c /\ x \notin Paths
             /\ new(x) = FieldNode(type.named, pos, Last(x))
  <2>1. PICK p \in places : x \in FieldsOf(operation, p, pos)
    BY DEF FieldsOf
  <2>2. PICK f \in ToSet(operation.select[pos]) : x = Append(p, f)
    BY <2>1 DEF FieldsOf
  <2>3. /\ p \in Seq(Names) /\ Within(p, c) /\ Len(p) = IF type.list THEN Len(c) + 1 ELSE Len(c)
    BY <1>2, <1>5
  <2>4. f \in Names
    BY <1>4
  <2>5. /\ x \in Seq(Names) /\ x # <<>> /\ Front(x) = p /\ Last(x) = f /\ Len(x) = Len(p) + 1
        /\ Within(x, c) /\ x # c /\ x \notin Paths
    BY <2>2, <2>3, <2>4, NewBelow
  <2>6. x \notin elements
    <3> SUFFICES ASSUME x \in elements PROVE FALSE
      OBVIOUS
    <3>1. type.list /\ Len(x) = Len(c) + 1 /\ Len(c) \in Nat
      BY <1>2, <1>5, LenProperties
    <3> QED
      BY <2>3, <2>5, <3>1
  <2>7. new(x) = FieldNode(type.named, pos, Last(x))
    BY <2>5, <2>6 DEF new
  <2> QED
    BY <2>5, <2>7
<1>7. ASSUME NEW n \in Paths PROVE new(n) = IF n = c THEN [nodes[c] EXCEPT !.pc = "open"] ELSE nodes[n]
  BY DEF new, Paths, NodesInv
<1> HIDE DEF elements, fields
<1>8. /\ \A n \in Paths \ {c} : nodes'[n] = nodes[n]
      /\ nodes'[c] = [nodes[c] EXCEPT !.pc = "open"]
      /\ nodes'[c].type = type
  <2>1. /\ \A n \in Paths \ {c} : nodes'[n] = nodes[n]
        /\ nodes'[c] = [nodes[c] EXCEPT !.pc = "open"]
    BY <1>1, <1>7
  <2> QED
    BY <1>2, <2>1 DEF NodeRecords
<1>9. ASSUME NEW e \in elements
      PROVE  /\ nodes'[e] = Node(Item(type), pos, "open")
             /\ nodes'[e].type = Item(type) /\ nodes'[e].pos = pos /\ nodes'[e].pc = "open"
             /\ nodes'[e].null = FALSE /\ nodes'[e].nil = FALSE
             /\ Item(type) \in Types /\ Item(type).list = FALSE
             /\ Item(type).named = type.named /\ Item(type).required = type.items
  <2>1. nodes'[e] = Node(Item(type), pos, "open")
    BY <1>1, <1>5
  <2> QED
    BY <1>2, <2>1, ItemType DEF Node
<1>10. ASSUME NEW x \in fields
       PROVE  LET f == Last(x) IN
              /\ nodes'[x] = FieldNode(type.named, pos, f)
              /\ nodes'[x].type = FieldTypes[type.named][f] /\ nodes'[x].pos = Append(pos, f)
              /\ nodes'[x].pc = "field" /\ nodes'[x].null = FALSE /\ nodes'[x].nil = FALSE
  BY <1>1, <1>6 DEF FieldNode, Node
<1>11. nodes' \in [Paths' -> NodeRecords]
  <2> SUFFICES ASSUME NEW n \in Paths'
               PROVE  nodes'[n] \in NodeRecords
    BY <1>1
  <2>1. CASE n \in Paths
    <3>1. [nodes[c] EXCEPT !.pc = "open"] \in NodeRecords
      BY <1>2 DEF NodeRecords
    <3> QED
      BY <1>8, <2>1, <3>1 DEF NodesInv
  <2>2. CASE n \in elements
    BY <1>2, <1>9, <2>2, NodeIsRecord
  <2>3. CASE n \in fields
    <3>1. FieldTypes[type.named][Last(n)] \in Types /\ Append(pos, Last(n)) \in Seq(STRING)
      BY <1>2, <1>4, <1>6, <2>3, AppendProperties
    <3> QED
      BY <1>10, <2>3, <3>1, NodeIsRecord DEF FieldNode
  <2> QED
    BY <1>1, <2>1, <2>2, <2>3
<1>12. ASSUME NEW n \in Paths' \ Paths
       PROVE  /\ n # <<>> /\ Within(n, c) /\ n # c
              /\ nodes'[n].pc # "done" /\ ~nodes'[n].null /\ ~nodes'[n].nil
              /\ \/ Front(n) = c
                 \/ /\ Front(n) \in Paths' \ Paths /\ nodes'[Front(n)].pc = "open"
                    /\ Front(n) # <<>> /\ Front(Front(n)) = c
              /\ IsObject(nodes'[n].type) =>
                   /\ nodes'[n].pos \in DOMAIN operation.select
                   /\ operation.object[nodes'[n].pos] = nodes'[n].type.named
              /\ LET parent == nodes'[Front(n)].type IN
                 IF parent.list
                   THEN nodes'[n].type.required = parent.items
                   ELSE /\ parent.named \in DOMAIN FieldTypes
                        /\ Last(n) \in DOMAIN FieldTypes[parent.named]
                        /\ nodes'[n].type = FieldTypes[parent.named][Last(n)]
  <2>1. CASE n \in elements
    BY <1>3, <1>5, <1>8, <1>9, <2>1
  <2>2. CASE n \in fields
    <3>1. /\ n # <<>> /\ Within(n, c) /\ n # c /\ Front(n) \in places
          /\ Last(n) \in ToSet(operation.select[pos])
      BY <1>6, <2>2
    <3>2. /\ nodes'[n].pc # "done" /\ ~nodes'[n].null /\ ~nodes'[n].nil
          /\ nodes'[n].type = FieldTypes[type.named][Last(n)]
          /\ nodes'[n].pos = Append(pos, Last(n))
      BY <1>10, <2>2
    <3>3. /\ \/ Front(n) = c
             \/ /\ Front(n) \in Paths' \ Paths /\ nodes'[Front(n)].pc = "open"
                /\ Front(n) # <<>> /\ Front(Front(n)) = c
          /\ ~nodes'[Front(n)].type.list /\ nodes'[Front(n)].type.named = type.named
      <4>1. CASE type.list
        <5>1. Front(n) \in elements
          BY <3>1, <4>1
        <5> QED
          BY <1>1, <1>5, <1>9, <5>1
      <4>2. CASE ~type.list
        <5>1. Front(n) = c
          BY <3>1, <4>2
        <5> QED
          BY <1>8, <4>2, <5>1
      <4> QED
        BY <4>1, <4>2
    <3> QED
      BY <1>4, <3>1, <3>2, <3>3
  <2> QED
    BY <1>1, <2>1, <2>2
<1>13. Paths \subseteq Paths' /\ Paths' \subseteq Seq(Names)
  BY <1>1, <1>5, <1>6 DEF NodesInv
<1> QED
  BY <1>8, <1>11, <1>12, <1>13 DEF Opens

LEMMA NilEnds ==
  ASSUME NodesInv, NEW c \in Paths, nodes[c].pc = "field", Nil(c), operation' = operation
  PROVE  Ends(c) /\ nodes'[c].nil /\ nodes'[c].null
<1>1. nodes[c] \in NodeRecords
  BY DEF NodesInv
<1> DEFINE r == [nodes[c] EXCEPT !.pc = "done", !.null = TRUE, !.nil = TRUE]
<1>2. nodes' = [nodes EXCEPT ![c] = r]
  BY DEF Nil
<1>3. r \in NodeRecords /\ r.type = nodes[c].type /\ r.pos = nodes[c].pos
      /\ r.pc = "done" /\ r.null = TRUE /\ r.nil = TRUE
  BY <1>1 DEF NodeRecords
<1> HIDE DEF r
<1>4. nodes'[c] = r /\ nodes' \in [Paths -> NodeRecords] /\ \A n \in Paths \ {c} : nodes'[n] = nodes[n]
  BY <1>2, <1>3 DEF NodesInv, Paths
<1> QED
  BY <1>3, <1>4 DEF Ends

\* A scalar.
LEMMA ValueEnds ==
  ASSUME NodesInv, NilInv, NEW c \in Paths, nodes[c].pc = "field",
         nodes' = [nodes EXCEPT ![c].pc = "done"], operation' = operation
  PROVE  Ends(c) /\ ~nodes'[c].null
<1>1. nodes[c] \in NodeRecords /\ ~nodes[c].null /\ ~nodes[c].nil
  BY DEF NodesInv, NilInv
<1> DEFINE r == [nodes[c] EXCEPT !.pc = "done"]
<1>2. r \in NodeRecords /\ r.type = nodes[c].type /\ r.pos = nodes[c].pos
      /\ r.pc = "done" /\ r.null = FALSE /\ r.nil = FALSE
  BY <1>1 DEF NodeRecords
<1>3. nodes' = [nodes EXCEPT ![c] = r]
  OBVIOUS
<1> HIDE DEF r
<1>4. nodes'[c] = r /\ nodes' \in [Paths -> NodeRecords] /\ \A n \in Paths \ {c} : nodes'[n] = nodes[n]
  BY <1>2, <1>3 DEF NodesInv, Paths
<1> QED
  BY <1>2, <1>4 DEF Ends

\* An object counts the fields that may not be null, and a list all of its elements or none.
LEMMA CompleteEnds ==
  ASSUME NodesInv, TreeInv, FieldInv, NilInv, NEW n \in Paths, Complete(n)
  PROVE  /\ Ends(n) /\ ~nodes'[n].nil
         /\ nodes'[n].null => \E d \in Children(n) : nodes[d].null /\ nodes[d].type.required
<1> DEFINE type == nodes[n].type
           invalid == {d \in Children(n) : nodes[d].null}
           null == IF type.list THEN type.items /\ invalid # {}
                   ELSE \E d \in invalid : Last(d) \in Objects[type.named].counts
           r == [nodes[n] EXCEPT !.pc = "done", !.null = null]
<1>1. Ended(n) /\ nodes' = [nodes EXCEPT ![n] = r] /\ operation' = operation
  BY DEF Complete
<1>2. nodes[n] \in NodeRecords /\ type \in Types
  BY DEF NodesInv, NodeRecords
<1>3. ~nodes[n].nil
  BY <1>1 DEF NilInv, Ended
<1>4. null \in BOOLEAN
  OBVIOUS
<1>5. null <=> \E d \in Children(n) : nodes[d].null /\ nodes[d].type.required
  <2>1. ASSUME NEW d \in Children(n)
        PROVE  nodes[d].type.required <=>
                 IF type.list THEN type.items ELSE Last(d) \in Objects[type.named].counts
    <3>1. d \in Paths \ {<<>>} /\ Front(d) = n
      BY DEF Children
    <3>2. CASE type.list
      BY <3>1, <3>2 DEF FieldInv
    <3>3. CASE ~type.list
      <4>1. /\ type.named \in DOMAIN FieldTypes
            /\ Last(d) \in DOMAIN FieldTypes[type.named]
            /\ nodes[d].type = FieldTypes[type.named][Last(d)]
        BY <3>1, <3>3 DEF FieldInv
      <4> QED
        BY <3>3, <4>1, SchemaAssumption
    <3> QED
      BY <3>2, <3>3
  <2>2. CASE type.list
    BY <2>1, <2>2
  <2>3. CASE ~type.list
    BY <2>1, <2>3
  <2> QED
    BY <2>2, <2>3
<1> HIDE DEF null
<1>6. r \in NodeRecords /\ r.type = nodes[n].type /\ r.pos = nodes[n].pos
      /\ r.pc = "done" /\ r.null = null /\ r.nil = nodes[n].nil
  BY <1>2, <1>4 DEF NodeRecords
<1> HIDE DEF r
<1>7. nodes'[n] = r /\ nodes' \in [Paths -> NodeRecords] /\ \A m \in Paths \ {n} : nodes'[m] = nodes[m]
  BY <1>1, <1>6 DEF NodesInv, Paths
<1>8. nodes'[n].nil = FALSE
  BY <1>2, <1>3, <1>6, <1>7 DEF NodeRecords
<1> QED
  BY <1>1, <1>5, <1>6, <1>7, <1>8 DEF Ends

LEMMA ConcatWithin ==
  ASSUME NEW S, NEW c \in Seq(S), NEW a \in Seq(S)
  PROVE  Within(c \o a, c) /\ Len(c \o a) \in Nat
<1>1. /\ c \o a \in Seq(S) /\ Len(c \o a) = Len(c) + Len(a)
      /\ \A i \in 1..Len(c) + Len(a) : (c \o a)[i] = IF i <= Len(c) THEN c[i] ELSE a[i - Len(c)]
  BY ConcatProperties
<1>2. Len(c) \in Nat /\ Len(a) \in Nat
  BY LenProperties
<1> DEFINE p == c \o a
<1>3. Len(c) <= Len(p) /\ Len(p) \in Nat /\ \A i \in 1..Len(c) : p[i] = c[i]
  BY <1>1, <1>2
<1> HIDE DEF p
<1>4. IsPrefix(c, p)
  BY <1>3, PrefixItems
<1> QED
  BY <1>3, <1>4 DEF Within, p

\* An error of field c.
Refused(c) ==
  /\ Ends(c) /\ nodes'[c].nil
  /\ \E p, kind : /\ Within(p, c) /\ Len(p) \in Nat /\ kind \in ResolverErrors
                  /\ errors' = Append(errors, [path |-> p, kind |-> kind])

LEMMA RefuseStep ==
  ASSUME NodesInv, NEW c \in Paths, nodes[c].pc = "field", operation' = operation,
         NEW p, NEW kind \in ResolverErrors, Within(p, c), Len(p) \in Nat, Refuse(c, p, kind)
  PROVE  Refused(c)
BY NilEnds DEF Refuse, Refused

LEMMA ResolveStep ==
  ASSUME NodesInv, TreeInv, ObjectInv, NilInv, NEW c \in Paths \ {<<>>}, Resolve(c)
  PROVE  /\ nodes[c].pc = "field" /\ Ready(c)
         /\ operation' = operation /\ UNCHANGED <<sent, response>>
         /\ \/ Opens(c) /\ errors' = errors
            \/ Ends(c) /\ errors' = errors /\ (nodes'[c].null => ~nodes[c].type.required)
            \/ Refused(c)
<1>1. /\ nodes[c].pc = "field" /\ Ready(c)
      /\ operation' = operation /\ UNCHANGED <<sent, response>>
  BY DEF Resolve, Value, NoValue, MustNotBeNull, ResolverError, ArgumentError, Calls
<1>2. c \in Seq(Names) /\ Within(c, c) /\ Len(c) \in Nat
  BY PrefixRefl, LenProperties DEF NodesInv, Within
<1>3. CASE Value(c)
  <2>1. CASE IsObject(nodes[c].type)
    <3>1. PICK k \in IF nodes[c].type.list THEN 0..MaxItems ELSE {1} : Opened(c, k)
      BY <1>3, <2>1 DEF Value
    <3>2. Opens(c)
      BY <1>1, <2>1, <3>1, OpenedOpens
    <3> QED
      BY <1>1, <1>3, <3>2 DEF Value
  <2>2. CASE ~IsObject(nodes[c].type)
    BY <1>1, <1>3, <2>2, ValueEnds DEF Value
  <2> QED
    BY <2>1, <2>2
<1>4. CASE NoValue(c)
  BY <1>1, <1>4, NilEnds DEF NoValue
<1>5. CASE MustNotBeNull(c)
  BY <1>1, <1>2, <1>5, RefuseStep DEF MustNotBeNull, ResolverErrors
<1>6. CASE ResolverError(c)
  BY <1>1, <1>2, <1>6, RefuseStep DEF ResolverError
<1>7. CASE ArgumentError(c)
  <2>1. PICK a \in Inputs_(c[1]) : Refuse(c, c \o a, "server")
    BY <1>7 DEF ArgumentError
  <2>2. \E x, k : a = <<x>> \/ a = <<x, k>>
    BY DEF Inputs_
  <2>3. PICK x, k : a = <<x>> \/ a = <<x, k>>
    BY <2>2
  <2>4. a \in Seq(Names \cup {x, k})
    <3> DEFINE T == Names \cup {x, k}
    <3>1. x \in T /\ k \in T
      OBVIOUS
    <3> HIDE DEF T
    <3>2. <<x>> \in Seq(T) /\ <<x, k>> \in Seq(T)
      BY <3>1
    <3> QED
      BY <2>3, <3>2 DEF T
  <2>5. c \in Seq(Names \cup {x, k})
    BY <1>2, SeqMonotonic
  <2>6. Within(c \o a, c) /\ Len(c \o a) \in Nat
    BY <2>4, <2>5, ConcatWithin
  <2> QED
    BY <1>1, <2>1, <2>6, RefuseStep DEF ResolverErrors
<1> QED
  BY <1>1, <1>3, <1>4, <1>5, <1>6, <1>7 DEF Resolve

-----------------------------------------------------------------------------
(* Errors *)

\* A step that adds no error: a node it makes null where none may be has a child that explains it.
LEMMA QuietErrors ==
  ASSUME NodesInv, NilInv, ErrorsInv, ErrorsExplainNulls,
         errors' = errors, operation' = operation, Paths \subseteq Paths',
         \A n \in Paths : nodes[n].nil => nodes'[n].nil,
         \A n \in Paths' : nodes'[n].null /\ nodes'[n].type.required =>
           \E m \in Paths : /\ nodes[m].null /\ nodes[m].type.required
                            /\ \A i \in 1..Len(errors) : Within(errors[i].path, m) => Within(errors[i].path, n)
  PROVE  ErrorsInv' /\ ErrorsExplainNulls'
<1>1. ErrorsInv'
  BY DEF ErrorsInv, Within
<1>2. \A n \in Paths' : nodes'[n].null /\ nodes'[n].type.required =>
        \E i \in 1..Len(errors) : Within(errors[i].path, n)
  BY DEF ErrorsExplainNulls
<1>3. ErrorsExplainNulls'
  BY <1>2 DEF ErrorsExplainNulls, Within
<1> QED
  BY <1>1, <1>3

LEMMA OpensErrors ==
  ASSUME NodesInv, NilInv, ErrorsInv, ErrorsExplainNulls, NEW c \in Paths, Opens(c), errors' = errors
  PROVE  ErrorsInv' /\ ErrorsExplainNulls'
<1>1. /\ operation' = operation /\ Paths \subseteq Paths'
      /\ \A n \in Paths' \ Paths : ~nodes'[n].null
  BY DEF Opens
<1>2. \A n \in Paths : nodes'[n].type = nodes[n].type
                       /\ nodes'[n].null = nodes[n].null /\ nodes'[n].nil = nodes[n].nil
  BY OpensSame
<1> QED
  BY <1>1, <1>2, QuietErrors

LEMMA EndsErrors ==
  ASSUME NodesInv, NilInv, ErrorsInv, ErrorsExplainNulls, NEW c \in Paths, Ends(c),
         operation # Rejected, errors' = errors,
         nodes'[c].null /\ nodes[c].type.required =>
           \E d \in Children(c) : nodes[d].null /\ nodes[d].type.required
  PROVE  ErrorsInv' /\ ErrorsExplainNulls'
<1>1. /\ Paths' = Paths /\ operation' = operation
      /\ \A n \in Paths : nodes'[n].type = nodes[n].type
      /\ nodes[c].pc # "done"
      /\ \A n \in Paths \ {c} : nodes'[n] = nodes[n]
  BY EndsSame DEF Ends
<1>2. ~nodes[c].nil
  BY <1>1 DEF NilInv
<1>3. ASSUME NEW n \in Paths, nodes'[n].null, nodes[n].type.required
      PROVE  \E m \in Paths : /\ nodes[m].null /\ nodes[m].type.required
                              /\ \A i \in 1..Len(errors) : Within(errors[i].path, m) => Within(errors[i].path, n)
  <2>1. CASE n # c
    BY <1>1, <1>3, <2>1
  <2>2. CASE n = c
    <3>1. PICK d \in Children(c) : nodes[d].null /\ nodes[d].type.required
      BY <1>3, <2>2
    <3>2. d \in Paths /\ d # <<>> /\ Front(d) = c
      BY DEF Children
    <3>3. c \in Seq(Names) /\ d \in Seq(Names) /\ IsPrefix(c, d)
      BY <3>2, FrontLast DEF NodesInv
    <3>4. ASSUME NEW i \in 1..Len(errors), Within(errors[i].path, d)
          PROVE  Within(errors[i].path, c)
      <4>1. Len(errors[i].path) \in Nat
        BY DEF ErrorsInv
      <4> QED
        BY <3>3, <3>4, <4>1, PrefixTrans DEF Within
    <3> QED
      BY <2>2, <3>1, <3>2, <3>4
  <2> QED
    BY <2>1, <2>2
<1>4. \A n \in Paths : nodes[n].nil => nodes'[n].nil
  BY <1>1, <1>2
<1> QED
  BY <1>1, <1>3, <1>4, QuietErrors

\* The error of a field is the first in it, so it is no other error.
LEMMA RefusedErrors ==
  ASSUME NodesInv, TreeInv, NilInv, ErrorsInv, ErrorsExplainNulls, NEW c \in Paths,
         nodes[c].pc = "field", Refused(c), operation # Rejected
  PROVE  ErrorsInv' /\ ErrorsExplainNulls'
<1>1. /\ Paths' = Paths /\ operation' = operation
      /\ \A n \in Paths : nodes'[n].type = nodes[n].type
      /\ nodes[c].pc # "done"
      /\ \A n \in Paths \ {c} : nodes'[n] = nodes[n]
      /\ nodes'[c].nil
  BY EndsSame DEF Ends, Refused
<1>2. ~nodes[c].nil /\ c \in Seq(Names)
  BY <1>1 DEF NilInv, NodesInv
<1>3. PICK p, kind : /\ Within(p, c) /\ Len(p) \in Nat /\ kind \in ResolverErrors
                     /\ errors' = Append(errors, [path |-> p, kind |-> kind])
  BY DEF Refused
<1> DEFINE e == [path |-> p, kind |-> kind]
           T == ToSet(errors) \cup {e}
           N == Len(errors)
<1>4. e.path = p /\ e.kind = kind
  OBVIOUS
<1>5. /\ errors' \in Seq(ToSet(errors')) /\ N \in Nat /\ Len(errors') = N + 1
      /\ \A i \in 1..N : errors'[i] = errors[i]
      /\ errors'[N + 1] = e
  <2>1. errors \in Seq(T) /\ e \in T
    <3>1. errors \in Seq(ToSet(errors)) /\ ToSet(errors) \subseteq T
      BY DEF ErrorsInv
    <3> HIDE DEF T
    <3>2. errors \in Seq(T)
      BY <3>1, SeqMonotonic
    <3> QED
      BY <3>2 DEF T
  <2> HIDE DEF e
  <2>2. errors' = Append(errors, e)
    BY <1>3 DEF e
  <2> HIDE DEF T
  <2>3. /\ errors' \in Seq(T) /\ Len(errors') = N + 1
        /\ \A i \in 1..N : errors'[i] = errors[i]
        /\ errors'[N + 1] = e
    BY <2>1, <2>2, AppendProperties
  <2>4. N \in Nat
    BY <2>1, LenProperties
  <2>5. errors' \in Seq(ToSet(errors'))
    <3>1. Range(errors') = ToSet(errors') /\ errors' \in Seq(Range(errors'))
      BY <2>3, SeqOfRange DEF Range, ToSet
    <3> QED
      BY <3>1
  <2> QED
    BY <2>3, <2>4, <2>5
<1> HIDE DEF e, T
<1>6. ASSUME NEW i \in 1..Len(errors')
      PROVE  \/ i \in 1..N /\ errors'[i] = errors[i]
             \/ i = N + 1 /\ errors'[i] = e
  BY <1>5
<1>7. kind \in Kinds
  BY <1>3 DEF Kinds
<1>8. ErrorsInv'
  <2>1. ASSUME NEW i \in 1..Len(errors')
        PROVE  /\ errors'[i].kind \in Kinds
               /\ errors'[i].kind \in ResolverErrors
               /\ Len(errors'[i].path) \in Nat
               /\ \E d \in Paths : nodes'[d].nil /\ Within(errors'[i].path, d)
    <3>1. CASE i \in 1..N /\ errors'[i] = errors[i]
      <4>1. PICK d \in Paths : nodes[d].nil /\ Within(errors[i].path, d)
        BY <3>1 DEF ErrorsInv
      <4>2. nodes'[d].nil
        BY <1>1, <1>2, <4>1
      <4> QED
        BY <3>1, <4>1, <4>2 DEF ErrorsInv
    <3>2. CASE i = N + 1 /\ errors'[i] = e
      BY <1>1, <1>3, <1>4, <1>7, <3>2
    <3> QED
      BY <1>6, <3>1, <3>2
  <2> QED
    BY <1>1, <1>5, <2>1 DEF ErrorsInv, Within
<1>9. ASSUME NEW i \in 1..N PROVE errors[i].path # p
  <2> SUFFICES ASSUME errors[i].path = p PROVE FALSE
    OBVIOUS
  <2>1. PICK d \in Paths : nodes[d].nil /\ IsPrefix(d, p)
    BY DEF ErrorsInv, Within
  <2>2. d \in Seq(Names) /\ d # c /\ IsPrefix(c, p)
    BY <1>2, <1>3, <2>1 DEF NodesInv, Within
  <2>3. Within(c, d) \/ Within(d, c)
    BY <1>2, <2>1, <2>2, PrefixComparable DEF Within
  <2>4. ~Within(c, d)
    BY <2>1, <2>2, AboveInTree
  <2>5. ~Within(d, c)
    BY <1>2, <2>2, AboveInTree
  <2> QED
    BY <2>3, <2>4, <2>5
<1>10. ErrorsExplainNulls'
  <2>1. ASSUME NEW n \in Paths, nodes'[n].null, nodes[n].type.required
        PROVE  \E i \in 1..Len(errors') : Within(errors'[i].path, n)
    <3>1. CASE n = c
      <4>1. N + 1 \in 1..Len(errors')
        BY <1>5
      <4> QED
        BY <1>3, <1>4, <1>5, <3>1, <4>1
    <3>2. CASE n # c
      <4>1. PICK i \in 1..N : Within(errors[i].path, n)
        BY <1>1, <2>1, <3>2 DEF ErrorsExplainNulls
      <4>2. i \in 1..Len(errors') /\ errors'[i] = errors[i]
        BY <1>5
      <4> QED
        BY <4>1, <4>2
    <3> QED
      BY <3>1, <3>2
  <2>2. ASSUME NEW i \in 1..Len(errors'), NEW j \in 1..Len(errors'), i # j
        PROVE  errors'[i].path # errors'[j].path
    <3>1. CASE i \in 1..N /\ j \in 1..N
      BY <1>5, <2>2, <3>1 DEF ErrorsExplainNulls
    <3>2. CASE i = N + 1 /\ j \in 1..N
      BY <1>4, <1>5, <1>9, <3>2
    <3>3. CASE j = N + 1 /\ i \in 1..N
      BY <1>4, <1>5, <1>9, <3>3
    <3> QED
      BY <1>6, <2>2, <3>1, <3>2, <3>3
  <2> QED
    BY <1>1, <2>1, <2>2 DEF ErrorsExplainNulls, Within
<1> QED
  BY <1>8, <1>10

-----------------------------------------------------------------------------
(* The invariant *)

LEMMA RejectedIsNone == Rejected \notin Operations /\ Rejected.root = "none"
BY ResponseAssumption DEF Rejected, Valid

\* A place in the selection of a valid operation.
LEMMA Selected ==
  ASSUME NEW o \in Operations, NEW pos \in DOMAIN o.select, NEW f \in ToSet(o.select[pos])
  PROVE  /\ pos \in Seq(STRING) /\ f \in STRING
         /\ o.object[pos] \in DOMAIN FieldTypes /\ f \in DOMAIN FieldTypes[o.object[pos]]
         /\ FieldTypes[o.object[pos]][f] \in Types
         /\ IsObject(FieldTypes[o.object[pos]][f]) =>
              /\ Append(pos, f) \in DOMAIN o.select
              /\ o.object[Append(pos, f)] = FieldTypes[o.object[pos]][f].named
<1>1. Valid(o)
  BY ResponseAssumption
<1>2. f \in STRING
  <2>1. o.select[pos] \in Seq(STRING)
    BY <1>1 DEF Valid
  <2> QED
    BY <2>1, LenProperties, ElementOfSeq DEF ToSet
<1>3. /\ pos \in Seq(STRING)
      /\ o.object[pos] \in DOMAIN FieldTypes /\ f \in DOMAIN FieldTypes[o.object[pos]]
      /\ IsObject(FieldTypes[o.object[pos]][f]) =>
           /\ Append(pos, f) \in DOMAIN o.select
           /\ o.object[Append(pos, f)] = FieldTypes[o.object[pos]][f].named
  BY <1>1 DEF Valid
<1> QED
  BY <1>2, <1>3, SchemaAssumption DEF Types

LEMMA RejectedInv ==
  ASSUME Init, operation = Rejected
  PROVE  ResponseInv
<1>1. Rejected \notin Operations
  BY RejectedIsNone
<1>2. /\ sent = FALSE /\ response = <<>> /\ nodes = <<>>
      /\ \E k \in 1..MaxErrors : errors = [i \in 1..k |-> [path |-> <<>>, kind |-> "graphql"]]
  BY <1>1 DEF Init
<1>3. Paths = {} /\ nodes \in [Paths -> NodeRecords]
  BY <1>2 DEF Paths
<1>4. NodesInv /\ TreeInv /\ ObjectInv /\ FieldInv /\ RootInv /\ NilInv /\ DoneInv /\ NullReachesParents
  BY <1>3 DEF NodesInv, TreeInv, ObjectInv, FieldInv, RootInv, NilInv, DoneInv, NullReachesParents
<1>5. PICK k \in 1..MaxErrors : errors = [i \in 1..k |-> [path |-> <<>>, kind |-> "graphql"]]
  BY <1>2
<1> DEFINE e == [path |-> <<>>, kind |-> "graphql"]
<1>6. e.kind \in Kinds
  BY DEF Kinds
<1>7. errors = [i \in 1..k |-> e]
  BY <1>5
<1> HIDE DEF e
<1>8. k \in Nat /\ errors \in [1..k -> {e}]
  BY <1>7, ResponseAssumption
<1>9. errors \in Seq({e})
  BY <1>8, SeqDef
<1>10. Len(errors) = k /\ ToSet(errors) = {e}
  BY <1>7, <1>8, <1>9, LenProperties DEF ToSet
<1>11. ErrorsInv
  BY <1>6, <1>7, <1>9, <1>10 DEF ErrorsInv
<1>12. ErrorsExplainNulls
  BY <1>3 DEF ErrorsExplainNulls
<1> QED
  BY <1>2, <1>3, <1>4, <1>11, <1>12 DEF ResponseInv, SentInv

LEMMA AcceptedInv ==
  ASSUME Init, operation \in Operations
  PROVE  ResponseInv
<1> DEFINE o == operation
           root == <<>>
           fields == FieldsOf(o, root, root)
<1>1. /\ sent = FALSE /\ response = <<>> /\ errors = <<>> /\ operation # Rejected
      /\ nodes = [n \in {root} \cup fields |->
                    IF n = root THEN Node(Optional(o.root), root, "open")
                                ELSE FieldNode(o.root, root, Last(n))]
  BY RejectedIsNone DEF Init
<1>2. /\ Valid(o) /\ o.root \in STRING /\ o.root \in DOMAIN FieldTypes
      /\ root \in DOMAIN o.select /\ o.object[root] = o.root
  <2>1. Valid(o)
    BY ResponseAssumption
  <2>2. o.root \in {"Query", "Mutation"} /\ root \in DOMAIN o.select /\ o.object[root] = o.root
    BY <2>1 DEF Valid
  <2>3. o.object[root] \in DOMAIN FieldTypes
    BY <2>1, <2>2 DEF Valid
  <2>4. o.root \in STRING
    BY <2>1, <2>2 DEF Valid
  <2> HIDE DEF o
  <2> QED
    BY <2>1, <2>2, <2>3, <2>4
<1>3. root \in Seq(Names) /\ root \in Seq(STRING) /\ Len(root) = 0
  BY EmptySeq
<1>4. ASSUME NEW f \in ToSet(o.select[root])
      PROVE  /\ f \in STRING /\ f \in Names
             /\ f \in DOMAIN FieldTypes[o.root] /\ FieldTypes[o.root][f] \in Types
             /\ IsObject(FieldTypes[o.root][f]) =>
                  /\ Append(root, f) \in DOMAIN o.select
                  /\ o.object[Append(root, f)] = FieldTypes[o.root][f].named
  BY <1>2, Selected DEF Names
<1> HIDE DEF root
<1>5. ASSUME NEW x \in fields
      PROVE  /\ x \in Seq(Names) /\ x # root /\ Front(x) = root /\ Len(x) = 1
             /\ Last(x) \in ToSet(o.select[root])
  <2>1. PICK f \in ToSet(o.select[root]) : x = Append(root, f)
    BY DEF FieldsOf
  <2>2. f \in Names
    BY <1>4
  <2>3. /\ x \in Seq(Names) /\ Front(x) = root /\ Last(x) = f /\ Len(x) = Len(root) + 1
    BY <1>3, <2>1, <2>2, FrontAppend
  <2>4. Len(x) = 1
    BY <1>3, <2>3
  <2>5. x # root
    <3>1. Len(root) # Len(x)
      BY <1>3, <2>4
    <3> QED
      BY <3>1
  <2>6. Last(x) \in ToSet(o.select[root])
    BY <2>3
  <2> QED
    BY <2>3, <2>4, <2>5, <2>6
<1> HIDE DEF fields
<1>6. /\ Paths = {root} \cup fields
      /\ nodes[root] = Node(Optional(o.root), root, "open")
      /\ \A x \in fields : nodes[x] = FieldNode(o.root, root, Last(x))
  BY <1>1, <1>5 DEF Paths
<1>7. Optional(o.root) \in Types /\ Optional(o.root).named = o.root /\ Optional(o.root).list = FALSE
  BY <1>2 DEF Optional, Types
<1>8. /\ nodes[root].type = Optional(o.root) /\ nodes[root].pos = root /\ nodes[root].pc = "open"
      /\ nodes[root].null = FALSE /\ nodes[root].nil = FALSE
  BY <1>6 DEF Node
<1>9. ASSUME NEW x \in fields
      PROVE  /\ nodes[x].type = FieldTypes[o.root][Last(x)] /\ nodes[x].pos = Append(root, Last(x))
             /\ nodes[x].pc = "field" /\ nodes[x].null = FALSE /\ nodes[x].nil = FALSE
  <2>1. nodes[x] = FieldNode(o.root, root, Last(x))
    BY <1>6
  <2> QED
    BY <2>1 DEF FieldNode, Node
<1>10. NodesInv
  <2>1. nodes[root] \in NodeRecords
    BY <1>3, <1>6, <1>7, NodeIsRecord
  <2>2. ASSUME NEW x \in fields PROVE nodes[x] \in NodeRecords
    <3>1. Append(root, Last(x)) \in Seq(STRING)
      BY <1>3, <1>4, <1>5, AppendProperties
    <3> QED
      BY <1>4, <1>5, <1>6, <3>1, NodeIsRecord DEF FieldNode
  <2>3. nodes \in [Paths -> NodeRecords]
    BY <1>1, <1>6, <2>1, <2>2
  <2> QED
    BY <1>1, <1>3, <1>5, <1>6, <2>3 DEF NodesInv
<1>11. TreeInv
  <2> SUFFICES ASSUME NEW c \in Paths, NEW n \in Prefixes(c) \ {c}
               PROVE  n \in Paths /\ nodes[n].pc # "field" /\ ~nodes[n].nil
    BY DEF TreeInv
  <2>1. c \in Seq(Names) /\ n \in Seq(Names) /\ IsPrefix(n, c) /\ n # c
    BY <1>10, PrefixesAre DEF NodesInv
  <2>2. Len(n) \in Nat /\ Len(c) \in Nat /\ Len(n) <= Len(c)
    BY <2>1, LenProperties DEF IsPrefix
  <2>3. Len(n) < Len(c)
    BY <2>1, <2>2, PrefixAnti
  <2>4. Len(n) = 0
    <3>1. Len(c) = 0 \/ Len(c) = 1
      BY <1>3, <1>5, <1>6
    <3>2. \A i, j \in Nat : i < j /\ j \in {0, 1} => i = 0
      OBVIOUS
    <3> QED
      BY <2>2, <2>3, <3>1, <3>2
  <2>5. n = root
    BY <1>3, <2>1, <2>4, EmptySeq DEF root
  <2> QED
    BY <1>6, <1>8, <2>5
<1>12. ObjectInv
  <2>1. IsObject(nodes[root].type) =>
          nodes[root].pos \in DOMAIN o.select /\ o.object[nodes[root].pos] = nodes[root].type.named
    BY <1>2, <1>7, <1>8 DEF root
  <2>2. ASSUME NEW x \in fields, IsObject(nodes[x].type)
        PROVE  nodes[x].pos \in DOMAIN o.select /\ o.object[nodes[x].pos] = nodes[x].type.named
    BY <1>4, <1>5, <1>9, <2>2
  <2> QED
    BY <1>6, <2>1, <2>2 DEF ObjectInv
<1>13. FieldInv
  <2> SUFFICES ASSUME NEW x \in fields
               PROVE  /\ ~nodes[Front(x)].type.list
                      /\ nodes[Front(x)].type.named \in DOMAIN FieldTypes
                      /\ Last(x) \in DOMAIN FieldTypes[nodes[Front(x)].type.named]
                      /\ nodes[x].type = FieldTypes[nodes[Front(x)].type.named][Last(x)]
    BY <1>6 DEF FieldInv, root
  <2>1. Front(x) = root /\ nodes[Front(x)].type = Optional(o.root)
    BY <1>5, <1>8
  <2>2. Last(x) \in DOMAIN FieldTypes[o.root] /\ nodes[x].type = FieldTypes[o.root][Last(x)]
    BY <1>4, <1>5, <1>9
  <2> QED
    BY <1>2, <1>7, <2>1, <2>2
<1>14. RootInv
  <2>1. ASSUME NEW f \in ToSet(o.select[<<>>]) PROVE <<f>> \in Paths
    <3>1. Append(root, f) = <<f>>
      BY DEF root
    <3> QED
      BY <1>6, <3>1 DEF fields, FieldsOf, root
  <2> QED
    BY <1>6, <1>8, <2>1 DEF RootInv, root
<1>15. \A n \in Paths : nodes[n].pc # "done" /\ ~nodes[n].null /\ ~nodes[n].nil
  BY <1>6, <1>8, <1>9
<1>16. NilInv /\ DoneInv /\ NullReachesParents
  BY <1>15 DEF NilInv, DoneInv, NullReachesParents
<1>17. errors = <<>> /\ Len(errors) = 0 /\ ErrorsInv
  BY <1>1, EmptySeq DEF ErrorsInv
<1>18. ErrorsExplainNulls
  BY <1>15, <1>17 DEF ErrorsExplainNulls
<1> QED
  BY <1>1, <1>10, <1>11, <1>12, <1>13, <1>14, <1>16, <1>17, <1>18 DEF ResponseInv, SentInv

LEMMA ResponseInit == Init => ResponseInv
BY RejectedInv, AcceptedInv DEF Init

LEMMA ResponseStep == ResponseInv /\ [Next]_vars => ResponseInv'
<1> SUFFICES ASSUME ResponseInv, [Next]_vars PROVE ResponseInv'
  OBVIOUS
<1> USE DEF ResponseInv
<1>1. ASSUME NEW c \in Paths, nodes[c].pc # "done", UNCHANGED <<sent, response>> PROVE SentInv'
  BY <1>1 DEF SentInv
<1>2. ASSUME NEW c \in Paths PROVE operation # Rejected
  BY <1>2 DEF NodesInv
<1>3. ASSUME NEW c \in Paths \ {<<>>}, Resolve(c) PROVE ResponseInv'
  <2>1. /\ nodes[c].pc = "field" /\ UNCHANGED <<sent, response>>
        /\ \/ Opens(c) /\ errors' = errors
           \/ Ends(c) /\ errors' = errors /\ (nodes'[c].null => ~nodes[c].type.required)
           \/ Refused(c)
    BY <1>3, ResolveStep
  <2>2. SentInv' /\ operation # Rejected
    BY <1>1, <1>2, <2>1
  <2>3. CASE Opens(c) /\ errors' = errors
    BY <2>2, <2>3, OpensTree, OpensDone, OpensErrors
  <2>4. CASE Ends(c) /\ errors' = errors /\ (nodes'[c].null => ~nodes[c].type.required)
    BY <2>2, <2>4, EndsTree, EndsDone, EndsNull, EndsErrors
  <2>5. CASE Refused(c)
    <3>1. Ends(c)
      BY <2>5 DEF Refused
    <3> QED
      BY <2>1, <2>2, <2>5, <3>1, EndsTree, EndsDone, EndsNull, RefusedErrors
  <2> QED
    BY <2>1, <2>3, <2>4, <2>5
<1>4. ASSUME NEW n \in Paths, Complete(n) PROVE ResponseInv'
  <2>1. /\ Ends(n) /\ ~nodes'[n].nil
        /\ nodes'[n].null => \E d \in Children(n) : nodes[d].null /\ nodes[d].type.required
    BY <1>4, CompleteEnds
  <2>2. errors' = errors /\ UNCHANGED <<sent, response>> /\ nodes[n].pc # "done"
    BY <1>4 DEF Complete, Ended
  <2>3. SentInv' /\ operation # Rejected
    BY <1>1, <1>2, <2>2
  <2> QED
    BY <2>1, <2>2, <2>3, EndsTree, EndsDone, EndsNull, EndsErrors
<1>5. CASE Respond
  <2>1. /\ sent' = TRUE /\ response' = Sent /\ UNCHANGED <<operation, nodes, errors>>
        /\ \A n \in Paths : nodes[n].pc = "done"
    BY <1>5 DEF Respond
  <2>2. Sent' = Sent /\ Paths' = Paths
    BY <2>1 DEF Sent, Paths
  <2>3. SentInv'
    BY <2>1, <2>2 DEF SentInv
  <2>4. NodesInv' /\ TreeInv' /\ ObjectInv' /\ FieldInv' /\ RootInv' /\ NilInv' /\ DoneInv'
    BY <2>1, <2>2 DEF NodesInv, TreeInv, ObjectInv, FieldInv, RootInv, NilInv, DoneInv
  <2>5. NullReachesParents' /\ ErrorsInv' /\ ErrorsExplainNulls'
    BY <2>1, <2>2 DEF NullReachesParents, Carries, ErrorsInv, ErrorsExplainNulls
  <2> QED
    BY <2>3, <2>4, <2>5
<1>6. CASE UNCHANGED vars
  <2>1. UNCHANGED <<operation, nodes, errors, sent, response>> /\ Sent' = Sent /\ Paths' = Paths
    BY <1>6 DEF vars, Sent, Paths
  <2>2. NodesInv' /\ TreeInv' /\ ObjectInv' /\ FieldInv' /\ RootInv' /\ NilInv' /\ DoneInv'
    BY <2>1 DEF NodesInv, TreeInv, ObjectInv, FieldInv, RootInv, NilInv, DoneInv
  <2>3. NullReachesParents' /\ ErrorsInv' /\ ErrorsExplainNulls' /\ SentInv'
    BY <2>1 DEF NullReachesParents, Carries, ErrorsInv, ErrorsExplainNulls, SentInv
  <2> QED
    BY <2>2, <2>3
<1> QED
  BY <1>3, <1>4, <1>5, <1>6 DEF Next

-----------------------------------------------------------------------------
(* What holds of every response *)

\* The invariant (src/generated.go, src/middleware/errors/errors.go).
THEOREM ResponseInvHolds == Spec => []ResponseInv
BY ResponseInit, ResponseStep, PTL DEF Spec

\* A field, object or list is null if and only if something in it had no value and nothing from
\* there up to it may be null (src/generated.go:11394).
THEOREM NullsReachParents == Spec => []NullReachesParents
<1>1. ResponseInv => NullReachesParents
  BY DEF ResponseInv
<1> QED
  BY <1>1, ResponseInvHolds, PTL

\* A null where none may be has an error in it, and no error is reported twice
\* (src/generated.go:4106).
THEOREM NullsExplained == Spec => []ErrorsExplainNulls
<1>1. ResponseInv => ErrorsExplainNulls
  BY DEF ResponseInv
<1> QED
  BY <1>1, ResponseInvHolds, PTL

\* The errors of a response.
LEMMA SentErrors ==
  ASSUME ResponseInv, NEW i \in 1..Len(response)
  PROVE  /\ sent /\ i \in 1..Len(errors) /\ Len(errors) \in Nat
         /\ response[i].message = MessageOf(errors[i].kind)
         /\ response[i].code =
              LET coded == {j \in 1..Len(errors) : errors[j].kind # "graphql"}
              IN IF coded = {} THEN "none" ELSE CodeOf(errors[Max(coded)].kind)
<1>1. sent /\ response = Sent
  <2>1. CASE ~sent
    <3>1. response = <<>>
      BY <2>1 DEF ResponseInv, SentInv
    <3> QED
      BY <3>1
  <2>2. CASE sent
    BY <2>2 DEF ResponseInv, SentInv
  <2> QED
    BY <2>1, <2>2
<1> DEFINE N == Len(errors)
           coded == {j \in 1..N : errors[j].kind # "graphql"}
           code == IF coded = {} THEN "none" ELSE CodeOf(errors[Max(coded)].kind)
           e(j) == [path |-> errors[j].path, message |-> MessageOf(errors[j].kind), code |-> code]
<1>2. N \in Nat
  BY LenProperties DEF ResponseInv, ErrorsInv
<1>3. response = [j \in 1..N |-> e(j)]
  BY <1>1 DEF Sent
<1> HIDE DEF N, code
<1>4. response[i] = e(i) /\ i \in 1..N
  <2> DEFINE T == {e(j) : j \in 1..N}
  <2> HIDE DEF e
  <2>1. response \in [1..N -> T]
    BY <1>3
  <2>2. response \in Seq(T)
    BY <1>2, <2>1, SeqDef
  <2>3. DOMAIN response = 1..Len(response) /\ DOMAIN response = 1..N
    BY <2>1, <2>2, LenProperties
  <2> QED
    BY <1>3, <2>3
<1> QED
  BY <1>1, <1>2, <1>4 DEF N, code

\* Types of the state.
THEOREM ResponseTypeCorrect == Spec => []TypeOK
<1>1. ASSUME ResponseInv PROVE TypeOK
  <2>1. operation \in Operations \cup {Rejected} /\ sent \in BOOLEAN
    BY <1>1 DEF ResponseInv, NodesInv, SentInv
  <2>2. \A n \in Paths :
          /\ nodes[n].pos \in DOMAIN operation.select \/ nodes[n].type.named \notin DOMAIN FieldTypes
          /\ nodes[n].pc \in {"field", "open", "done"}
          /\ nodes[n].null \in BOOLEAN /\ nodes[n].nil \in BOOLEAN
    BY <1>1 DEF ResponseInv, NodesInv, NodeRecords, ObjectInv, IsObject
  <2>3. \A i \in 1..Len(errors) : errors[i].kind \in Kinds
    BY <1>1 DEF ResponseInv, ErrorsInv
  <2>4. ASSUME NEW i \in 1..Len(response)
        PROVE  response[i].message \in Messages /\ response[i].code \in Codes
    <3>1. \A kind \in Kinds : MessageOf(kind) \in Messages
      BY DEF MessageOf, Messages, Kinds, ResolverErrors
    <3>2. \A kind : CodeOf(kind) \in Codes
      BY DEF CodeOf, Codes
    <3>3. "none" \in Codes
      BY DEF Codes
    <3> QED
      BY <1>1, <2>3, <3>1, <3>2, <3>3, SentErrors
  <2> QED
    BY <2>1, <2>2, <2>3, <2>4 DEF TypeOK
<1> QED
  BY <1>1, ResponseInvHolds, PTL

\* All errors of a response have the code of the last of them, which is an error of a resolver
\* (src/middleware/errors/errors.go:81).
THEOREM ErrorsCoded == Spec => []CodeOfItsKind
<1>1. ASSUME ResponseInv PROVE CodeOfItsKind
  <2> SUFFICES ASSUME operation # Rejected, NEW i \in 1..Len(response)
               PROVE  \E e \in ToSet(errors) :
                        response[i].code = CASE e.kind = "user" -> "BAD_REQUEST"
                                             [] e.kind = "authorization" -> "AUTHORIZATION_ERROR"
                                             [] e.kind = "server" -> "INTERNAL_SERVER_ERROR"
    BY DEF CodeOfItsKind
  <2> DEFINE N == Len(errors)
             coded == {j \in 1..N : errors[j].kind # "graphql"}
  <2>1. /\ N \in Nat /\ i \in 1..N
        /\ response[i].code = IF coded = {} THEN "none" ELSE CodeOf(errors[Max(coded)].kind)
    BY <1>1, SentErrors
  <2>2. \A j \in 1..N : errors[j].kind \in ResolverErrors
    BY <1>1 DEF ResponseInv, ErrorsInv
  <2>3. coded = 1..N
    BY <2>2 DEF ResolverErrors
  <2>4. Max(1..N) \in 1..N
    <3>1. N \in 1..N /\ \A j \in 1..N : N >= j
      BY <2>1
    <3> HIDE DEF N
    <3> QED
      BY <3>1 DEF Max
  <2> DEFINE e == errors[Max(1..N)]
  <2>5. e \in ToSet(errors)
    <3>1. DOMAIN errors = 1..N
      BY <1>1, LenProperties DEF ResponseInv, ErrorsInv
    <3> QED
      BY <2>4, <3>1 DEF ToSet
  <2>6. response[i].code = CodeOf(e.kind) /\ e.kind \in ResolverErrors
    BY <2>1, <2>2, <2>3, <2>4
  <2> HIDE DEF e
  <2>7. CodeOf(e.kind) = CASE e.kind = "user" -> "BAD_REQUEST"
                           [] e.kind = "authorization" -> "AUTHORIZATION_ERROR"
                           [] e.kind = "server" -> "INTERNAL_SERVER_ERROR"
    BY <2>6 DEF CodeOf, ResolverErrors
  <2> QED
    BY <2>5, <2>6, <2>7
<1> QED
  BY <1>1, ResponseInvHolds, PTL

\* A field that runs is the only node that stops being a field.
LEMMA OneRuns ==
  ASSUME ResponseInv, Next, NEW c \in Paths \ {<<>>}, nodes[c].pc = "field", nodes'[c].pc # "field"
  PROVE  Ready(c)
<1>1. ASSUME NEW d \in Paths \ {<<>>}, Resolve(d) PROVE d = c
  <2>1. Opens(d) \/ Ends(d)
    BY <1>1, ResolveStep DEF ResponseInv, Refused
  <2> QED
    BY <2>1 DEF Opens, Ends
<1>2. ~\E n \in Paths : Complete(n)
  <2> SUFFICES ASSUME NEW n \in Paths, Complete(n) PROVE FALSE
    OBVIOUS
  <2>1. Ends(n) /\ n # c
    BY CompleteEnds DEF ResponseInv, Complete, Ended
  <2> QED
    BY <2>1 DEF Ends
<1>3. ~Respond
  BY DEF Respond
<1>4. Resolve(c)
  BY <1>1, <1>2, <1>3 DEF Next
<1> QED
  BY <1>4, ResolveStep DEF ResponseInv

\* The resolver of a mutation runs once everything of those before it has ended
\* (src/generated.go:9385).
THEOREM MutationsRunInOrder == Spec => MutationsInOrder
<1> DEFINE sel == operation.select[<<>>]
           Order == operation.root = "Mutation" =>
             \A i, j \in 1..Len(operation.select[<<>>]) :
               LET before == <<operation.select[<<>>][i]>>
                   c == <<operation.select[<<>>][j]>>
               IN i < j /\ nodes[c].pc = "field" /\ nodes'[c].pc # "field" =>
                    \A n \in Paths : Within(n, before) => nodes[n].pc = "done"
<1>1. ASSUME ResponseInv, [Next]_vars PROVE [Order]_vars
  <2> SUFFICES ASSUME Next, operation.root = "Mutation", NEW i \in 1..Len(sel), NEW j \in 1..Len(sel),
                      i < j, nodes[<<sel[j]>>].pc = "field", nodes'[<<sel[j]>>].pc # "field",
                      NEW n \in Paths, Within(n, <<sel[i]>>)
               PROVE  nodes[n].pc = "done"
    BY <1>1
  <2> DEFINE f == sel[i]
             g == sel[j]
             c == <<g>>
  <2>1. operation # Rejected /\ operation \in Operations /\ Valid(operation)
    BY <1>1, RejectedIsNone, ResponseAssumption DEF ResponseInv, NodesInv
  <2>2. sel \in Seq(STRING) /\ IsInjective(sel)
    BY <2>1 DEF Valid
  <2>3. DOMAIN sel = 1..Len(sel) /\ f \in ToSet(sel) /\ g \in ToSet(sel) /\ f \in STRING /\ g \in STRING
    BY <2>2, LenProperties, ElementOfSeq DEF ToSet
  <2>4. /\ <<f>> \in Paths /\ c \in Paths \ {<<>>}
        /\ nodes[<<>>].type = Optional("Mutation") /\ nodes[<<>>].pos = <<>>
    BY <1>1, <2>1, <2>3 DEF ResponseInv, RootInv
  <2>5. Ready(c)
    BY <1>1, <2>4, OneRuns
  <2>6. Front(c) = <<>> /\ Last(c) = g
    BY <2>3, FrontOne
  <2>7. Delays(c) = {}
    <3>1. Optional("Mutation").named = "Mutation"
      BY DEF Optional
    <3>2. Objects["Mutation"].delays = {}
      BY DEF Objects, MutationObject
    <3> QED
      BY <2>4, <2>6, <3>1, <3>2 DEF Delays, ObjectOf
  <2> DEFINE at(h) == CHOOSE k \in 1..Len(sel) : sel[k] = h
  <2>8. \A h \in ToSet(sel) : at(h) < at(g) => nodes[Append(<<>>, h)].pc = "done"
    BY <2>4, <2>5, <2>6, <2>7 DEF Ready, ObjectOf
  <2>9. at(f) = i /\ at(g) = j
    BY <2>2, <2>3 DEF IsInjective
  <2>10. nodes[<<f>>].pc = "done"
    <3>1. Append(<<>>, f) = <<f>>
      OBVIOUS
    <3>2. at(f) < at(g)
      BY <2>9
    <3> HIDE DEF at
    <3> QED
      BY <2>3, <2>8, <3>1, <3>2
  <2> QED
    BY <1>1, <2>4, <2>10 DEF ResponseInv, DoneInv
<1>2. Spec => [][Order]_vars
  <2> HIDE DEF Order
  <2> QED
    BY <1>1, ResponseInvHolds, PTL DEF Spec
<1> QED
  BY <1>2 DEF MutationsInOrder

=============================================================================
