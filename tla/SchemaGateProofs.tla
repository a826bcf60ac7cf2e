-------------------------- MODULE SchemaGateProofs --------------------------
(***************************************************************************)
(* Theorems about SchemaGate, for any set of event classes: what passes    *)
(* the check, release after release, reads what was written before.        *)
(***************************************************************************)
EXTENDS SchemaGate, SequenceTheorems, WellFoundedInduction, TLAPS

\* Where two models both have a union, it is the same one: what it may hold is
\* not in its schema.
Below(m, p) == {q \in DOMAIN m : p \in Above(q)}
UnionsFixed ==
  \A m, n \in DataModels : \A p \in DOMAIN m \cap DOMAIN n :
    m[p].nullable /\ n[p].nullable =>
      /\ m[p].kind = n[p].kind /\ m[p].lits = n[p].lits
      /\ Below(m, p) = Below(n, p)
      /\ \A q \in Below(m, p) : m[q] = n[q]

\* Where one model has a plain string, no other has an enumeration: that the
\* check only reports values as added would let a string become one.
LiteralsApart ==
  \A m, n \in DataModels : \A p \in DOMAIN m \cap DOMAIN n :
    m[p].kind = "str" => n[p].kind # "lit"

Smaller == OpToRel(<, Nat)

-----------------------------------------------------------------------------
(* Paths.                                                                  *)

\* Of the paths in T one is the shortest.
LEMMA Shortest ==
  ASSUME NEW T, T # {}, \A p \in T : Len(p) \in Nat
  PROVE  \E p \in T : \A q \in T : ~(Len(q) < Len(p))
<1> DEFINE L == {Len(p) : p \in T}
<1>1. L \subseteq Nat /\ L # {}
  OBVIOUS
<1>2. IsWellFoundedOn(Smaller, Nat)
  BY NatLessThanWellFounded DEF Smaller
<1> HIDE DEF L
<1>3. PICK n \in L : \A k \in L : <<k, n>> \notin Smaller
  BY <1>1, <1>2, WFMin
<1>4. \A k \in L : ~(k < n)
  BY <1>1, <1>3 DEF Smaller, OpToRel
<1> QED
  BY <1>3, <1>4 DEF L

LEMMA Ancestors ==
  ASSUME NEW p \in Seq(STRING)
  PROVE  /\ Len(p) \in Nat
         /\ \A q \in Above(p) : /\ q \in Seq(STRING) /\ Len(q) < Len(p)
                                /\ Above(q) \subseteq Above(p)
         /\ p # <<>> => Above(p) = Above(Parent(p)) \cup {Parent(p)}
<1>1. Len(p) \in Nat
  OBVIOUS
<1>2. ASSUME NEW n \in 0..(Len(p) - 1)
      PROVE  /\ SubSeq(p, 1, n) \in Seq(STRING) /\ Len(SubSeq(p, 1, n)) = n
             /\ \A k \in 0..(n - 1) : SubSeq(SubSeq(p, 1, n), 1, k) = SubSeq(p, 1, k)
  <2>1. SubSeq(p, 1, n) \in Seq(STRING) /\ Len(SubSeq(p, 1, n)) = n
    BY <1>1
  <2>2. ASSUME NEW k \in 0..(n - 1)
        PROVE  SubSeq(SubSeq(p, 1, n), 1, k) = SubSeq(p, 1, k)
    BY <1>1, <2>1
  <2> QED
    BY <2>1, <2>2
<1>3. ASSUME NEW q \in Above(p)
      PROVE  q \in Seq(STRING) /\ Len(q) < Len(p) /\ Above(q) \subseteq Above(p)
  <2>1. PICK n \in 0..(Len(p) - 1) : q = SubSeq(p, 1, n)
    BY DEF Above
  <2>2. q \in Seq(STRING) /\ Len(q) = n /\ n \in Nat /\ n < Len(p)
    BY <1>1, <1>2, <2>1
  <2>3. \A k \in 0..(n - 1) : SubSeq(q, 1, k) = SubSeq(p, 1, k) /\ k \in 0..(Len(p) - 1)
    BY <1>1, <1>2, <2>1
  <2> QED
    BY <2>2, <2>3 DEF Above
<1>4. ASSUME p # <<>> PROVE Above(p) = Above(Parent(p)) \cup {Parent(p)}
  <2>1. PICK n \in 0..(Len(p) - 1) : n = Len(p) - 1
    BY <1>1, <1>4
  <2>2. /\ Parent(p) = SubSeq(p, 1, n) /\ Len(Parent(p)) = n
        /\ \A k \in 0..(n - 1) : SubSeq(Parent(p), 1, k) = SubSeq(p, 1, k)
    BY <1>2, <2>1 DEF Parent
  <2>3. 0..(Len(p) - 1) = 0..(n - 1) \cup {n}
    BY <1>1, <2>1
  <2>4. Above(Parent(p)) = {SubSeq(p, 1, k) : k \in 0..(n - 1)}
    BY <2>2 DEF Above
  <2>5. Above(p) = {SubSeq(p, 1, k) : k \in 0..(n - 1) \cup {n}}
    BY <2>3 DEF Above
  <2>6. {SubSeq(p, 1, k) : k \in 0..(n - 1) \cup {n}}
          = {SubSeq(p, 1, k) : k \in 0..(n - 1)} \cup {SubSeq(p, 1, n)}
    OBVIOUS
  <2> QED
    BY <2>2, <2>4, <2>5, <2>6
<1> QED
  BY <1>1, <1>3, <1>4

\* What a proof needs of a model.
LEMMA Trees ==
  ASSUME NEW m \in DataModels
  PROVE  /\ m \in [DOMAIN m -> Nodes] /\ <<>> \in DOMAIN m
         /\ m[<<>>].kind = "obj" /\ ~m[<<>>].nullable /\ ~m[<<>>].required
         /\ \A p \in DOMAIN m :
              /\ p \in Seq(STRING) /\ Len(p) \in Nat
              /\ Above(p) \subseteq DOMAIN m
              /\ \A q \in Above(p) : Len(q) < Len(p) /\ Above(q) \subseteq Above(p)
              /\ p # <<>> => Above(p) = Above(Parent(p)) \cup {Parent(p)}
              /\ m[p].kind = "lit" <=> m[p].lits # {}
<1>1. IsModel(m)
  BY SchemaAssumption
<1>2. ASSUME NEW p \in DOMAIN m
      PROVE  /\ p \in Seq(STRING) /\ Len(p) \in Nat
             /\ Above(p) \subseteq DOMAIN m
             /\ \A q \in Above(p) : Len(q) < Len(p) /\ Above(q) \subseteq Above(p)
             /\ p # <<>> => Above(p) = Above(Parent(p)) \cup {Parent(p)}
  BY <1>1, Ancestors DEF IsModel
<1> QED
  BY <1>1, <1>2 DEF IsModel

\* The paths of a schema are those of its model that no union is above.
LEMMA Normalized ==
  ASSUME NEW m \in DataModels
  PROVE  /\ DOMAIN Normalize(m) \subseteq DOMAIN m
         /\ <<>> \in DOMAIN Normalize(m)
         /\ \A p \in DOMAIN m :
              p \in DOMAIN Normalize(m) <=> \A q \in Above(p) : ~m[q].nullable
         /\ \A p \in DOMAIN Normalize(m) :
              /\ Above(p) \subseteq DOMAIN Normalize(m)
              /\ Normalize(m)[p].type = IF m[p].nullable THEN "None" ELSE JsonType(m[p].kind)
              /\ Normalize(m)[p].enum = IF m[p].nullable THEN {} ELSE m[p].lits
              /\ Normalize(m)[p].required = m[p].required
<1>1. \A p \in DOMAIN m : Above(p) \subseteq DOMAIN m
                         /\ \A q \in Above(p) : Above(q) \subseteq Above(p)
  BY Trees
<1>2. DOMAIN Normalize(m) = {q \in DOMAIN m : \A r \in Above(q) : ~m[r].nullable}
  BY DEF Normalize
<1>3. <<>> \in DOMAIN m /\ Above(<<>>) = {}
  BY Trees DEF Above
<1>4. \A p \in DOMAIN Normalize(m) : Above(p) \subseteq DOMAIN Normalize(m)
  BY <1>1, <1>2
<1> QED
  BY <1>2, <1>3, <1>4 DEF Normalize

\* The type of a path tells a union from all else.
LEMMA UnionType ==
  ASSUME NEW m \in DataModels, NEW p \in DOMAIN Normalize(m)
  PROVE  Normalize(m)[p].type = "None" <=> m[p].nullable
<1>1. p \in DOMAIN m /\ m[p] \in Nodes
  BY Normalized, Trees
<1>2. m[p].kind \in {"int", "str", "lit", "list", "obj"}
  BY <1>1 DEF Nodes
<1>3. JsonType(m[p].kind) # "None"
  BY <1>2 DEF JsonType
<1> QED
  BY <1>3, Normalized

-----------------------------------------------------------------------------
(* What the report covers.                                                 *)

SameTypes(a, b) == \A p \in DOMAIN a \cap DOMAIN b : a[p].type = b[p].type

\* If no type is reported as changed, the comparison has reached everything.
LEMMA ReachesAll ==
  ASSUME NEW old \in DataModels, NEW new \in DataModels,
         \A p : <<p, "type changed">> \notin TypeChanges(Normalize(old), Normalize(new))
  PROVE  /\ SameTypes(Normalize(old), Normalize(new))
         /\ Compared(Normalize(old), Normalize(new))
              = DOMAIN Normalize(old) \cap DOMAIN Normalize(new)
         /\ Entered(Normalize(old), Normalize(new))
              = DOMAIN Normalize(old) \cap DOMAIN Normalize(new)
<1> DEFINE a == Normalize(old)
           b == Normalize(new)
           T == {p \in DOMAIN a \cap DOMAIN b : a[p].type # b[p].type}
<1>1. \A p \in DOMAIN a \cap DOMAIN b :
        /\ Len(p) \in Nat /\ Above(p) \subseteq DOMAIN a \cap DOMAIN b
        /\ \A q \in Above(p) : Len(q) < Len(p)
  BY Normalized, Trees
<1> HIDE DEF a, b
<1>2. T = {}
  <2> SUFFICES ASSUME T # {} PROVE FALSE
    OBVIOUS
  <2>1. PICK p \in T : \A q \in T : ~(Len(q) < Len(p))
    <3>1. \A p \in T : Len(p) \in Nat
      BY <1>1
    <3> HIDE DEF T
    <3> QED
      BY <3>1, Shortest
  <2>2. \A q \in Above(p) : q \in DOMAIN a \cap DOMAIN b /\ q \notin T
    BY <1>1, <2>1
  <2>3. p \in Compared(a, b) /\ p \notin Entered(a, b)
    BY <2>1, <2>2 DEF Compared, Entered
  <2>4. <<p, "type changed">> \in TypeChanges(a, b)
    BY <2>3 DEF TypeChanges
  <2> QED
    BY <2>4 DEF a, b
<1>3. Compared(a, b) = DOMAIN a \cap DOMAIN b
  BY <1>1, <1>2 DEF Compared
<1>4. Entered(a, b) = DOMAIN a \cap DOMAIN b
  BY <1>2, <1>3 DEF Entered
<1>5. SameTypes(a, b)
  BY <1>2 DEF SameTypes
<1> QED
  BY <1>3, <1>4, <1>5 DEF a, b

\* What only one schema has begins at a field of an object both have.
LEMMA OnlyInBegins ==
  ASSUME NEW m \in DataModels, NEW n \in DataModels,
         NEW p \in DOMAIN Normalize(m) \ DOMAIN Normalize(n)
  PROVE  \E q \in DOMAIN Normalize(m) \ DOMAIN Normalize(n) :
           q # <<>> /\ Parent(q) \in DOMAIN Normalize(m) \cap DOMAIN Normalize(n)
<1> DEFINE T == DOMAIN Normalize(m) \ DOMAIN Normalize(n)
<1>1. \A q \in T : /\ Len(q) \in Nat /\ q # <<>>
                   /\ Parent(q) \in DOMAIN Normalize(m) /\ Len(Parent(q)) < Len(q)
  BY Normalized, Trees
<1>2. PICK q \in T : \A r \in T : ~(Len(r) < Len(q))
  <2>1. T # {}
    OBVIOUS
  <2> HIDE DEF T
  <2> QED
    BY <1>1, <2>1, Shortest
<1>3. Parent(q) \notin T
  BY <1>1, <1>2
<1> QED
  BY <1>1, <1>2, <1>3

\* What the check decides, without its descent.
Grows(a, b) ==
  /\ DOMAIN a \subseteq DOMAIN b
  /\ SameTypes(a, b)
  /\ \A p \in DOMAIN a : a[p].enum \subseteq b[p].enum /\ (b[p].required => a[p].required)
  /\ \A p \in DOMAIN b \ DOMAIN a : p # <<>> /\ Parent(p) \in DOMAIN a => ~b[p].required

Breaking(old, new) ==
  \E change \in Report(Normalize(old), Normalize(new)) : change[2] \in BreakingChanges

LEMMA PassesGrows ==
  ASSUME NEW old \in DataModels, NEW new \in DataModels, ~Breaking(old, new)
  PROVE  Grows(Normalize(old), Normalize(new))
<1> DEFINE a == Normalize(old)
           b == Normalize(new)
<1>1. ASSUME NEW p, NEW c \in BreakingChanges PROVE <<p, c>> \notin Report(a, b)
  <2>1. <<p, c>>[2] = c
    OBVIOUS
  <2> QED
    BY <1>1, <2>1 DEF Breaking
<1> HIDE DEF a, b
<1>2. \A p : <<p, "type changed">> \notin TypeChanges(a, b)
  BY <1>1 DEF Report, BreakingChanges
<1>3. /\ SameTypes(a, b)
      /\ Compared(a, b) = DOMAIN a \cap DOMAIN b
      /\ Entered(a, b) = DOMAIN a \cap DOMAIN b
  BY <1>2, ReachesAll DEF a, b
<1>4. DOMAIN a \subseteq DOMAIN b
  <2> SUFFICES ASSUME NEW p \in DOMAIN a \ DOMAIN b PROVE FALSE
    OBVIOUS
  <2>1. PICK q \in DOMAIN a \ DOMAIN b : q # <<>> /\ Parent(q) \in DOMAIN a \cap DOMAIN b
    BY OnlyInBegins DEF a, b
  <2>2. <<q, "removed">> \in Removed(a, b)
    BY <1>3, <2>1 DEF Removed, OnlyIn
  <2> QED
    BY <1>1, <2>2 DEF Report, BreakingChanges
<1>5. ASSUME NEW p \in DOMAIN a
      PROVE  a[p].enum \subseteq b[p].enum /\ (b[p].required => a[p].required)
  <2>1. p \in Compared(a, b) /\ p \in Entered(a, b)
    BY <1>3, <1>4
  <2>2. a[p].enum \subseteq b[p].enum
    <3> SUFFICES ASSUME ~(a[p].enum \subseteq b[p].enum) PROVE FALSE
      OBVIOUS
    <3>1. <<p, "enum value removed">> \in EnumChanges(a, b)
      BY <2>1 DEF EnumChanges
    <3> QED
      BY <1>1, <3>1 DEF Report, BreakingChanges
  <2>3. b[p].required => a[p].required
    <3> SUFFICES ASSUME b[p].required, ~a[p].required PROVE FALSE
      OBVIOUS
    <3>1. <<p, "made required">> \in RequiredChanges(a, b)
      BY <2>1 DEF RequiredChanges
    <3> QED
      BY <1>1, <3>1 DEF Report, BreakingChanges
  <2> QED
    BY <2>2, <2>3
<1>6. ASSUME NEW p \in DOMAIN b \ DOMAIN a, p # <<>>, Parent(p) \in DOMAIN a
      PROVE  ~b[p].required
  <2> SUFFICES ASSUME b[p].required PROVE FALSE
    OBVIOUS
  <2>1. p \in OnlyIn(b, a, Entered(a, b))
    BY <1>3, <1>4, <1>6 DEF OnlyIn
  <2>2. <<p, "added as required">> \in Added(a, b)
    BY <2>1 DEF Added
  <2> QED
    BY <1>1, <2>2 DEF Report, BreakingChanges
<1>7. Grows(a, b)
  BY <1>3, <1>4, <1>5, <1>6 DEF Grows
<1> QED
  BY <1>7 DEF a, b

-----------------------------------------------------------------------------
(* From schemas to models: unions hide what is below them.                 *)

\* A path that both models have and one schema shows, the other shows too.
LEMMA ShownAlike ==
  ASSUME NEW m \in DataModels, NEW n \in DataModels,
         SameTypes(Normalize(m), Normalize(n)),
         NEW p \in DOMAIN Normalize(m), p \in DOMAIN n
  PROVE  p \in DOMAIN Normalize(n)
<1> SUFFICES ASSUME p \notin DOMAIN Normalize(n) PROVE FALSE
  OBVIOUS
<1> DEFINE T == {q \in Above(p) : n[q].nullable}
<1>1. PICK r \in T : \A q \in T : ~(Len(q) < Len(r))
  <2>1. T # {}
    BY Normalized
  <2>2. \A q \in T : Len(q) \in Nat
    BY Trees
  <2> HIDE DEF T
  <2> QED
    BY <2>1, <2>2, Shortest
<1>2. /\ r \in Above(p) /\ r \in DOMAIN n
      /\ \A q \in Above(r) : q \in Above(p) /\ Len(q) < Len(r)
  BY Trees
<1>3. r \in DOMAIN Normalize(n)
  BY <1>1, <1>2, Normalized
<1>4. r \in DOMAIN Normalize(m) /\ ~m[r].nullable
  BY <1>2, Normalized
<1> QED
  BY <1>1, <1>3, <1>4, UnionType DEF SameTypes

\* Below a union of one of them that both have, two models are the same.
LEMMA HiddenSame ==
  ASSUME UnionsFixed, NEW m \in DataModels, NEW n \in DataModels,
         SameTypes(Normalize(m), Normalize(n)),
         NEW p \in DOMAIN m \cup DOMAIN n, NEW r \in Above(p),
         r \in DOMAIN m \cap DOMAIN n, m[r].nullable
  PROVE  p \in DOMAIN m \cap DOMAIN n /\ m[p] = n[p]
<1> DEFINE T == {q \in Above(p) : q \in DOMAIN m \cap DOMAIN n /\ m[q].nullable}
<1>1. PICK s \in T : \A q \in T : ~(Len(q) < Len(s))
  <2>1. r \in T
    OBVIOUS
  <2>2. \A q \in T : Len(q) \in Nat
    BY Trees
  <2> HIDE DEF T
  <2> QED
    BY <2>1, <2>2, Shortest
<1>2. \A q \in Above(s) : /\ q \in Above(p) /\ Len(q) < Len(s)
                          /\ q \in DOMAIN m \cap DOMAIN n
  <2>1. Above(s) \subseteq Above(p)
    BY Trees
  <2> QED
    BY <2>1, Trees
<1>3. s \in DOMAIN Normalize(m)
  BY <1>1, <1>2, Normalized
<1>4. s \in DOMAIN Normalize(n)
  BY <1>3, ShownAlike
<1>5. n[s].nullable
  BY <1>1, <1>3, <1>4, UnionType DEF SameTypes
<1>6. Below(m, s) = Below(n, s) /\ \A q \in Below(m, s) : m[q] = n[q]
  BY <1>1, <1>5 DEF UnionsFixed
<1> QED
  BY <1>1, <1>6 DEF Below

\* What Grows says of two schemas, said of their models.
Extends(old, new) ==
  /\ DOMAIN old \subseteq DOMAIN new
  /\ \A p \in DOMAIN old :
       /\ JsonType(old[p].kind) = JsonType(new[p].kind)
       /\ old[p].nullable = new[p].nullable
       /\ old[p].lits \subseteq new[p].lits
       /\ new[p].required => old[p].required
  /\ \A p \in DOMAIN new \ DOMAIN old : p # <<>> /\ Parent(p) \in DOMAIN old
                                        => ~new[p].required

\* What is not in the schema is below a union that is.
LEMMA HiddenBelow ==
  ASSUME NEW m \in DataModels, NEW p \in DOMAIN m \ DOMAIN Normalize(m)
  PROVE  \E r \in Above(p) : r \in DOMAIN Normalize(m) /\ m[r].nullable
<1> DEFINE T == {q \in Above(p) : m[q].nullable}
<1>1. PICK r \in T : \A q \in T : ~(Len(q) < Len(r))
  <2>1. T # {}
    BY Normalized
  <2>2. \A q \in T : Len(q) \in Nat
    BY Trees
  <2> HIDE DEF T
  <2> QED
    BY <2>1, <2>2, Shortest
<1>2. r \in DOMAIN m /\ \A q \in Above(r) : q \in Above(p) /\ Len(q) < Len(r)
  BY Trees
<1> QED
  BY <1>1, <1>2, Normalized

\* What both schemas show, as the models have it.
LEMMA ShownSame ==
  ASSUME UnionsFixed, NEW m \in DataModels, NEW n \in DataModels,
         SameTypes(Normalize(m), Normalize(n)),
         NEW p \in DOMAIN Normalize(m) \cap DOMAIN Normalize(n)
  PROVE  /\ JsonType(m[p].kind) = JsonType(n[p].kind)
         /\ m[p].nullable = n[p].nullable
         /\ Normalize(m)[p].enum \subseteq Normalize(n)[p].enum
              => m[p].lits \subseteq n[p].lits
<1>1. Normalize(m)[p].type = Normalize(n)[p].type
  BY DEF SameTypes
<1>2. p \in DOMAIN m \cap DOMAIN n /\ m[p] \in Nodes /\ n[p] \in Nodes
  BY Normalized, Trees
<1>3. m[p].nullable \in BOOLEAN /\ n[p].nullable \in BOOLEAN
  BY <1>2 DEF Nodes
<1>4. m[p].nullable <=> n[p].nullable
  BY <1>1, UnionType
<1>5. CASE m[p].nullable
  BY <1>2, <1>3, <1>4, <1>5 DEF UnionsFixed
<1>6. CASE ~m[p].nullable
  BY <1>1, <1>3, <1>4, <1>6, Normalized
<1> QED
  BY <1>5, <1>6

LEMMA GrowsExtends ==
  ASSUME UnionsFixed, NEW old \in DataModels, NEW new \in DataModels,
         Grows(Normalize(old), Normalize(new))
  PROVE  Extends(old, new)
<1> DEFINE a == Normalize(old)
           b == Normalize(new)
<1>1. /\ DOMAIN a \subseteq DOMAIN b /\ SameTypes(a, b) /\ SameTypes(b, a)
      /\ DOMAIN a \subseteq DOMAIN old /\ DOMAIN b \subseteq DOMAIN new
  BY Normalized DEF Grows, SameTypes
<1>2. ASSUME NEW p \in DOMAIN old
      PROVE  /\ p \in DOMAIN new
             /\ JsonType(old[p].kind) = JsonType(new[p].kind)
             /\ old[p].nullable = new[p].nullable
             /\ old[p].lits \subseteq new[p].lits
             /\ new[p].required => old[p].required
  <2>1. CASE p \in DOMAIN a
    <3>1. p \in DOMAIN b /\ a[p].enum \subseteq b[p].enum /\ (b[p].required => a[p].required)
      BY <2>1 DEF Grows
    <3>2. a[p].required = old[p].required /\ b[p].required = new[p].required
      BY <2>1, <3>1, Normalized
    <3> QED
      BY <1>1, <2>1, <3>1, <3>2, ShownSame
  <2>2. CASE p \notin DOMAIN a
    <3>1. PICK r \in Above(p) : r \in DOMAIN a /\ old[r].nullable
      BY <2>2, HiddenBelow
    <3>2. p \in DOMAIN new /\ old[p] = new[p]
      BY <1>1, <3>1, HiddenSame
    <3> QED
      BY <3>2
  <2> QED
    BY <2>1, <2>2
<1>3. ASSUME NEW p \in DOMAIN new \ DOMAIN old, p # <<>>, Parent(p) \in DOMAIN old
      PROVE  ~new[p].required
  <2>1. Above(p) = Above(Parent(p)) \cup {Parent(p)} /\ Above(p) \subseteq DOMAIN new
    BY <1>3, Trees
  <2>2. Above(p) \subseteq DOMAIN old
    BY <1>3, <2>1, Trees
  <2>3. p \in DOMAIN b
    <3> SUFFICES ASSUME p \notin DOMAIN b PROVE FALSE
      OBVIOUS
    <3>1. PICK r \in Above(p) : r \in DOMAIN b /\ new[r].nullable
      BY HiddenBelow
    <3> QED
      BY <1>1, <2>1, <2>2, <3>1, HiddenSame
  <2>4. Parent(p) \in DOMAIN b
    BY <2>1, <2>3, Normalized
  <2>5. Parent(p) \in DOMAIN a
    BY <1>1, <1>3, <2>4, ShownAlike
  <2> QED
    BY <1>1, <1>3, <2>3, <2>5, Normalized DEF Grows
<1> QED
  BY <1>2, <1>3 DEF Extends

LEMMA ExtendsItself ==
  ASSUME NEW m \in DataModels
  PROVE  Extends(m, m)
BY DEF Extends

\* Steps that pass the check add up.
LEMMA ExtendsThrough ==
  ASSUME NEW l \in DataModels, NEW m \in DataModels, NEW n \in DataModels,
         Extends(l, m), Extends(m, n)
  PROVE  Extends(l, n)
<1>1. DOMAIN l \subseteq DOMAIN m /\ DOMAIN m \subseteq DOMAIN n
  BY DEF Extends
<1>2. \A p \in DOMAIN l : /\ JsonType(l[p].kind) = JsonType(n[p].kind)
                        /\ l[p].nullable = n[p].nullable
                        /\ l[p].lits \subseteq n[p].lits
                        /\ n[p].required => l[p].required
  BY <1>1 DEF Extends
<1>3. ASSUME NEW p \in DOMAIN n \ DOMAIN l, p # <<>>, Parent(p) \in DOMAIN l
      PROVE  ~n[p].required
  BY <1>1, <1>3 DEF Extends
<1> QED
  BY <1>1, <1>2, <1>3 DEF Extends

-----------------------------------------------------------------------------
(* What an extension reads.                                                *)

\* What may be at a node may be at that of an extension.
LEMMA AtomsExtend ==
  ASSUME LiteralsApart, NEW old \in DataModels, NEW new \in DataModels,
         Extends(old, new), NEW p \in DOMAIN old
  PROVE  Atoms(old[p]) \subseteq Atoms(new[p])
<1>1. /\ p \in DOMAIN new /\ old[p].nullable = new[p].nullable
      /\ JsonType(old[p].kind) = JsonType(new[p].kind) /\ old[p].lits \subseteq new[p].lits
  BY DEF Extends
<1>2. old[p] \in Nodes /\ new[p] \in Nodes
  BY <1>1, Trees
<1>3. /\ old[p].kind \in {"int", "str", "lit", "list", "obj"}
      /\ new[p].kind \in {"int", "str", "lit", "list", "obj"}
  BY <1>2 DEF Nodes
<1>4. ~(old[p].kind = "str" /\ new[p].kind = "lit")
      /\ ~(new[p].kind = "str" /\ old[p].kind = "lit")
  BY <1>1 DEF LiteralsApart
<1>5. old[p].kind = new[p].kind
  BY <1>1, <1>3, <1>4 DEF JsonType
<1> QED
  BY <1>1, <1>3, <1>5 DEF Atoms

\* Of what is written, a field is there where its object is.
LEMMA WrittenFields ==
  ASSUME NEW m \in DataModels, NEW v \in Values(m)
  PROVE  /\ DOMAIN v \subseteq DOMAIN m
         /\ \A p \in DOMAIN v : v[p] \in Atoms(m[p])
         /\ <<>> \in DOMAIN v
         /\ \A p \in DOMAIN m \ {<<>>} :
              Parent(p) \in DOMAIN v /\ v[Parent(p)] = <<"obj">> => p \in DOMAIN v
<1>1. PICK D \in SUBSET DOMAIN m :
        v \in [D -> UNION {Atoms(m[p]) : p \in D}] /\ Written(m, v)
  BY DEF Values
<1> QED
  BY <1>1 DEF Written

LEMMA ExtensionReads ==
  ASSUME LiteralsApart, NEW old \in DataModels, NEW new \in DataModels,
         Extends(old, new), NEW v \in Values(old)
  PROVE  Accepts(new, v)
<1> SUFFICES ASSUME NEW p \in DOMAIN new
             PROVE  \/ p \in DOMAIN v /\ v[p] \in Atoms(new[p])
                    \/ p \notin DOMAIN v /\ ~(new[p].required /\ Parent(p) \in DOMAIN v
                                                  /\ v[Parent(p)] = <<"obj">>)
  BY DEF Accepts
<1>1. CASE p \in DOMAIN v
  <2>1. p \in DOMAIN old /\ v[p] \in Atoms(old[p])
    BY <1>1, WrittenFields
  <2> QED
    BY <1>1, <2>1, AtomsExtend
<1>2. CASE p \notin DOMAIN v
  <2> SUFFICES ASSUME Parent(p) \in DOMAIN v, v[Parent(p)] = <<"obj">>
               PROVE  ~new[p].required
    BY <1>2
  <2>1. p # <<>> /\ Parent(p) \in DOMAIN old
    BY <1>2, WrittenFields
  <2>2. p \notin DOMAIN old
    BY <1>2, <2>1, WrittenFields
  <2> QED
    BY <2>1, <2>2 DEF Extends
<1> QED
  BY <1>1, <1>2

-----------------------------------------------------------------------------
(* The releases.                                                           *)

\* Class writer is one that later, which passed the checks since, extends.
Leads(writer, later) ==
  writer.event_type = later.event_type /\ Extends(writer.data, later.data)

\* The file is of some class, which leads from all that were exported before to
\* the deployed one; if it was always fresh, all that wrote lead there.
GateInv ==
  /\ deployed \in EventClasses /\ exported \subseteq EventClasses
  /\ published \subseteq EventClasses
  /\ \E class \in EventClasses :
       /\ baseline = Payload(class) /\ Leads(class, deployed)
       /\ \A writer \in exported : Leads(writer, class)
  /\ fresh => \A writer \in published : Leads(writer, deployed)

LEMMA LeadsItself ==
  ASSUME NEW class \in EventClasses
  PROVE  Leads(class, class)
BY ExtendsItself DEF Leads, EventClasses

LEMMA LeadsThrough ==
  ASSUME NEW a \in EventClasses, NEW b \in EventClasses, NEW c \in EventClasses,
         Leads(a, b), Leads(b, c)
  PROVE  Leads(a, c)
BY ExtendsThrough DEF Leads, EventClasses

LEMMA CheckGrows ==
  ASSUME NEW class \in EventClasses, NEW new \in EventClasses, Check(Payload(class), new)
  PROVE  Grows(Normalize(class.data), Normalize(new.data))
<1>1. ~Breaking(class.data, new.data)
  BY DEF Check, Payload, Breaking
<1> QED
  BY <1>1, PassesGrows DEF EventClasses

LEMMA CheckLeads ==
  ASSUME EnforceType, UnionsFixed, NEW class \in EventClasses, NEW new \in EventClasses,
         Check(Payload(class), new)
  PROVE  Leads(class, new)
<1>1. class.event_type = new.event_type
  BY DEF Check, Payload
<1> QED
  BY <1>1, CheckGrows, GrowsExtends DEF Leads, EventClasses

LEMMA LeadsReads ==
  ASSUME LiteralsApart, NEW writer \in EventClasses, NEW later \in EventClasses,
         Leads(writer, later)
  PROVE  Reads(later, writer)
BY ExtensionReads DEF Leads, Reads, EventClasses

LEMMA GateInit == Init => GateInv
<1> SUFFICES ASSUME Init PROVE GateInv
  OBVIOUS
<1>1. Leads(deployed, deployed)
  BY LeadsItself DEF Init
<1> QED
  BY <1>1 DEF Init, GateInv

LEMMA GateStep ==
  ASSUME EnforceType, UnionsFixed, GateInv, [Next]_vars
  PROVE  GateInv'
<1>1. PICK class \in EventClasses :
        /\ baseline = Payload(class) /\ Leads(class, deployed)
        /\ \A writer \in exported : Leads(writer, class)
  BY DEF GateInv
<1>2. PICK old \in EventClasses : old = deployed
  BY DEF GateInv
<1>3. ASSUME Export PROVE GateInv'
  <2>1. \A writer \in exported \cup {old} : writer \in EventClasses /\ Leads(writer, old)
    BY <1>1, <1>2, LeadsItself, LeadsThrough DEF GateInv
  <2>2. /\ baseline' = Payload(old) /\ exported' = exported \cup {old} /\ deployed' = old
        /\ published' = published /\ fresh' = fresh
    BY <1>2, <1>3 DEF Export
  <2>3. fresh' => \A writer \in published' : Leads(writer, old)
    BY <1>2, <2>2 DEF GateInv
  <2> QED
    BY <2>1, <2>2, <2>3, LeadsItself DEF GateInv
<1>4. ASSUME NEW new \in EventClasses, Release(new) PROVE GateInv'
  <2>1. Leads(class, new)
    BY <1>1, <1>4, CheckLeads DEF Release
  <2>2. /\ deployed' = new /\ baseline' = baseline /\ exported' = exported
        /\ published' = published \cup {new}
        /\ fresh' => fresh /\ baseline = Payload(old)
    BY <1>2, <1>4 DEF Release
  <2>3. fresh' => \A writer \in published' : Leads(writer, new)
    <3> SUFFICES ASSUME fresh, baseline = Payload(old), NEW writer \in published \cup {new}
                 PROVE  Leads(writer, new)
      BY <2>2
    <3>1. Leads(old, new)
      BY <1>4, CheckLeads DEF Release
    <3>2. CASE writer = new
      BY <3>2, LeadsItself
    <3>3. CASE writer \in published
      <4>1. writer \in EventClasses /\ Leads(writer, old)
        BY <1>2, <3>3 DEF GateInv
      <4> QED
        BY <3>1, <4>1, LeadsThrough
    <3> QED
      BY <3>2, <3>3
  <2>4. published' \subseteq EventClasses
    BY <2>2 DEF GateInv
  <2> QED
    BY <1>1, <2>1, <2>2, <2>3, <2>4 DEF GateInv
<1>5. CASE UNCHANGED vars
  BY <1>5 DEF vars, GateInv
<1> QED
  BY <1>3, <1>4, <1>5 DEF Next

\* Whatever the age of the baseline files, if event types are enforced: the
\* deployed class reads what every class wrote that a baseline was exported
\* from.  The check sees neighbours only; its verdicts add up.
THEOREM BaselinesReadableHolds ==
  ASSUME EnforceType, UnionsFixed, LiteralsApart
  PROVE  Spec => []BaselinesReadable
<1>1. Init => GateInv
  BY GateInit
<1>2. GateInv /\ [Next]_vars => GateInv'
  BY GateStep
<1>3. GateInv => BaselinesReadable
  BY LeadsReads, LeadsThrough DEF GateInv, BaselinesReadable
<1> QED
  BY <1>1, <1>2, <1>3, PTL DEF Spec

\* If the baseline is exported again after each release, as the documented
\* workflow has it: the deployed class reads everything written before it.
THEOREM AlwaysReadableHolds ==
  ASSUME EnforceType, UnionsFixed, LiteralsApart
  PROVE  Spec => []AlwaysReadable
<1>1. Init => GateInv
  BY GateInit
<1>2. GateInv /\ [Next]_vars => GateInv'
  BY GateStep
<1>3. GateInv => AlwaysReadable
  BY LeadsReads DEF GateInv, AlwaysReadable
<1> QED
  BY <1>1, <1>2, <1>3, PTL DEF Spec

-----------------------------------------------------------------------------
(* While a release rolls out, and what goes unreported.                    *)

\* Equal types and equal enumerations: equal kinds.
LEMMA SameKind ==
  ASSUME NEW a \in Nodes, NEW b \in Nodes, JsonType(a.kind) = JsonType(b.kind),
         a.lits = b.lits, a.kind = "lit" <=> a.lits # {}, b.kind = "lit" <=> b.lits # {}
  PROVE  a.kind = b.kind
<1>1. /\ a.kind \in {"int", "str", "lit", "list", "obj"}
      /\ b.kind \in {"int", "str", "lit", "list", "obj"}
  BY DEF Nodes
<1> QED
  BY <1>1 DEF JsonType

\* The class a release replaces reads what the new one writes.
LEMMA OldReadsNew ==
  ASSUME NEW old \in DataModels, NEW new \in DataModels, Extends(old, new),
         \A p \in DOMAIN old : new[p].lits \subseteq old[p].lits, NEW v \in Values(new)
  PROVE  Accepts(old, v)
<1> SUFFICES ASSUME NEW p \in DOMAIN old
             PROVE  \/ p \in DOMAIN v /\ v[p] \in Atoms(old[p])
                    \/ p \notin DOMAIN v /\ ~(old[p].required /\ Parent(p) \in DOMAIN v
                                                  /\ v[Parent(p)] = <<"obj">>)
  BY DEF Accepts
<1>1. /\ p \in DOMAIN new /\ old[p].lits = new[p].lits
      /\ JsonType(old[p].kind) = JsonType(new[p].kind) /\ old[p].nullable = new[p].nullable
  BY DEF Extends
<1>2. /\ old[p] \in Nodes /\ new[p] \in Nodes
      /\ old[p].kind = "lit" <=> old[p].lits # {}
      /\ new[p].kind = "lit" <=> new[p].lits # {}
  BY <1>1, Trees
<1>3. old[p].kind = new[p].kind
  BY <1>1, <1>2, SameKind
<1>4. Atoms(old[p]) = Atoms(new[p])
  BY <1>1, <1>3 DEF Atoms
<1>5. CASE p \in DOMAIN v
  BY <1>4, <1>5, WrittenFields
<1>6. CASE p \notin DOMAIN v
  <2>1. p # <<>>
    BY <1>6, WrittenFields
  <2> QED
    BY <1>1, <1>6, <2>1, WrittenFields
<1> QED
  BY <1>5, <1>6

\* If no enum value is reported as added, none is.
LEMMA NoEnumAdded ==
  ASSUME NEW old \in DataModels, NEW new \in DataModels,
         Grows(Normalize(old), Normalize(new)),
         \A change \in Report(Normalize(old), Normalize(new)) : change[2] # "enum value added"
  PROVE  \A p \in DOMAIN Normalize(old) : Normalize(new)[p].enum \subseteq Normalize(old)[p].enum
<1> DEFINE a == Normalize(old)
           b == Normalize(new)
<1>1. ASSUME NEW p PROVE <<p, "enum value added">> \notin Report(a, b)
  <2>1. <<p, "enum value added">>[2] = "enum value added"
    OBVIOUS
  <2> QED
    BY <1>1, <2>1
<1>2. Grows(a, b) /\ \A p \in DOMAIN a : Above(p) \subseteq DOMAIN a
  BY Normalized
<1> HIDE DEF a, b
<1>3. ASSUME NEW p \in DOMAIN a PROVE b[p].enum \subseteq a[p].enum
  <2>1. p \in Entered(a, b)
    BY <1>2 DEF Entered, Compared, Grows, SameTypes
  <2>2. <<p, "enum value added">> \notin EnumChanges(a, b)
    BY <1>1 DEF Report
  <2> QED
    BY <2>1, <2>2 DEF EnumChanges
<1> QED
  BY <1>3 DEF a, b

\* Then the models allow the same strings.
LEMMA SameLiterals ==
  ASSUME UnionsFixed, NEW old \in DataModels, NEW new \in DataModels,
         Grows(Normalize(old), Normalize(new)),
         \A p \in DOMAIN Normalize(old) :
           Normalize(new)[p].enum \subseteq Normalize(old)[p].enum,
         NEW p \in DOMAIN old
  PROVE  new[p].lits \subseteq old[p].lits
<1> DEFINE a == Normalize(old)
           b == Normalize(new)
<1>1. /\ DOMAIN a \subseteq DOMAIN b /\ SameTypes(a, b) /\ SameTypes(b, a)
      /\ DOMAIN a \subseteq DOMAIN old /\ DOMAIN b \subseteq DOMAIN new
  BY Normalized DEF Grows, SameTypes
<1>2. CASE p \in DOMAIN a
  BY <1>1, <1>2, ShownSame
<1>3. CASE p \notin DOMAIN a
  <2>1. PICK r \in Above(p) : r \in DOMAIN a /\ old[r].nullable
    BY <1>3, HiddenBelow
  <2>2. p \in DOMAIN new /\ old[p] = new[p]
    BY <1>1, <2>1, HiddenSame
  <2> QED
    BY <2>2
<1> QED
  BY <1>2, <1>3

\* If event types are enforced: the class that a release replaces, and was
\* checked against, reads what the new one writes, unless enum values were added.
THEOREM RollingReadableHolds ==
  ASSUME EnforceType, UnionsFixed
  PROVE  Spec => RollingReadable
<1> DEFINE Known == deployed \in EventClasses
<1>1. Init => Known
  BY DEF Init
<1>2. Known /\ [Next]_vars => Known'
  BY DEF Next, Export, Release, vars
<1>3. ASSUME Known, Next, deployed' # deployed, baseline = Payload(deployed),
             \A change \in Report(baseline.schema, Normalize(deployed'.data)) :
               change[2] # "enum value added"
      PROVE  Reads(deployed, deployed')
  <2>1. PICK old \in EventClasses, new \in EventClasses :
          old = deployed /\ new = deployed' /\ Release(new)
    BY <1>3 DEF Next, Export, Release
  <2>2. Check(Payload(old), new)
    BY <1>3, <2>1 DEF Release
  <2>3. /\ old.data \in DataModels /\ new.data \in DataModels
        /\ Extends(old.data, new.data) /\ old.event_type = new.event_type
    BY <2>2, CheckLeads DEF Leads, EventClasses
  <2>4. \A change \in Report(Normalize(old.data), Normalize(new.data)) :
           change[2] # "enum value added"
    BY <1>3, <2>1 DEF Payload
  <2>5. \A p \in DOMAIN old.data : new.data[p].lits \subseteq old.data[p].lits
    BY <2>2, <2>3, <2>4, CheckGrows, NoEnumAdded, SameLiterals
  <2>6. \A v \in Values(new.data) : Accepts(old.data, v)
    BY <2>3, <2>5, OldReadsNew
  <2> QED
    BY <2>1, <2>3, <2>6 DEF Reads
<1>4. Known /\ [Next]_vars =>
        [deployed' # deployed /\ baseline = Payload(deployed) =>
           \/ Reads(deployed, deployed')
           \/ \E change \in Report(baseline.schema, Normalize(deployed'.data)) :
                change[2] = "enum value added"]_vars
  BY <1>3
<1> QED
  BY <1>1, <1>2, <1>4, PTL DEF Spec, RollingReadable

-----------------------------------------------------------------------------
\* If nothing is reported at all, the models are the same.
LEMMA SilentSame ==
  ASSUME UnionsFixed, NEW old \in DataModels, NEW new \in DataModels,
         Report(Normalize(old), Normalize(new)) = {}
  PROVE  old = new
<1> DEFINE a == Normalize(old)
           b == Normalize(new)
<1>1. /\ Grows(a, b)
      /\ \A p \in DOMAIN a : b[p].enum \subseteq a[p].enum
  BY PassesGrows, NoEnumAdded DEF Breaking
<1>2. Extends(old, new) /\ \A p \in DOMAIN old : new[p].lits \subseteq old[p].lits
  BY <1>1, GrowsExtends, SameLiterals
<1>3. /\ SameTypes(a, b) /\ SameTypes(b, a)
      /\ Compared(a, b) = DOMAIN a \cap DOMAIN b
      /\ Entered(a, b) = DOMAIN a \cap DOMAIN b
  BY ReachesAll DEF Report, SameTypes
<1>4. Report(a, b) = {}
  OBVIOUS
<1>5. DOMAIN b \subseteq DOMAIN a
  <2> SUFFICES ASSUME NEW p \in DOMAIN b \ DOMAIN a PROVE FALSE
    OBVIOUS
  <2>1. PICK q \in DOMAIN b \ DOMAIN a : q # <<>> /\ Parent(q) \in DOMAIN b \cap DOMAIN a
    BY OnlyInBegins
  <2> HIDE DEF a, b
  <2>2. q \in OnlyIn(b, a, Entered(a, b))
    BY <1>3, <2>1 DEF OnlyIn
  <2>3. \/ <<q, "added as required">> \in Added(a, b)
        \/ <<q, "added as optional">> \in Added(a, b)
    BY <2>2 DEF Added
  <2> QED
    BY <1>4, <2>3 DEF Report
<1>6. DOMAIN new = DOMAIN old
  <2> SUFFICES ASSUME NEW p \in DOMAIN new \ DOMAIN old PROVE FALSE
    BY <1>2 DEF Extends
  <2>1. DOMAIN a \subseteq DOMAIN old /\ DOMAIN b \subseteq DOMAIN new
    BY Normalized
  <2>2. PICK r \in Above(p) : r \in DOMAIN b /\ new[r].nullable
    BY <1>5, <2>1, HiddenBelow
  <2> QED
    BY <1>3, <1>5, <2>1, <2>2, HiddenSame
<1>7. ASSUME NEW p \in DOMAIN old PROVE old[p] = new[p]
  <2>1. CASE p \notin DOMAIN a
    <3>1. PICK r \in Above(p) : r \in DOMAIN a /\ old[r].nullable
      BY <2>1, HiddenBelow
    <3>2. r \in DOMAIN old
      BY <3>1, Normalized
    <3> QED
      BY <1>3, <1>6, <3>1, <3>2, HiddenSame
  <2>2. CASE p \in DOMAIN a
    <3>1. p \in DOMAIN b
      BY <1>1, <2>2 DEF Grows
    <3>2. /\ old[p] \in Nodes /\ new[p] \in Nodes
          /\ old[p].kind = "lit" <=> old[p].lits # {}
          /\ new[p].kind = "lit" <=> new[p].lits # {}
      BY <1>6, <1>7, Trees
    <3>3. /\ old[p].lits = new[p].lits /\ old[p].nullable = new[p].nullable
          /\ JsonType(old[p].kind) = JsonType(new[p].kind)
      BY <1>2, <1>6 DEF Extends
    <3>4. old[p].kind = new[p].kind
      BY <3>2, <3>3, SameKind
    <3>5. a[p].required = old[p].required /\ b[p].required = new[p].required
      BY <2>2, <3>1, Normalized
    <3> HIDE DEF a, b
    <3>6. <<p, "made required">> \notin RequiredChanges(a, b)
          /\ <<p, "made optional">> \notin RequiredChanges(a, b)
      BY <1>4 DEF Report
    <3>7. a[p].required <=> b[p].required
      BY <1>3, <2>2, <3>1, <3>6 DEF RequiredChanges
    <3>8. old[p].required = new[p].required
      BY <3>2, <3>5, <3>7 DEF Nodes
    <3> QED
      BY <3>2, <3>3, <3>4, <3>8 DEF Nodes
  <2> QED
    BY <2>1, <2>2
<1>8. old = [p \in DOMAIN old |-> old[p]] /\ new = [p \in DOMAIN new |-> new[p]]
  BY Trees
<1> QED
  BY <1>6, <1>7, <1>8

\* If unions are fixed, whatever else is in the models: a check against the
\* deployed class that reports nothing was given the same Data model.
THEOREM NoSilentChangeHolds ==
  ASSUME UnionsFixed
  PROVE  Spec => NoSilentChange
<1> DEFINE Known == deployed \in EventClasses
<1>1. Init => Known
  BY DEF Init
<1>2. Known /\ [Next]_vars => Known'
  BY DEF Next, Export, Release, vars
<1>3. ASSUME Known, Next, baseline = Payload(deployed),
             Report(baseline.schema, Normalize(deployed'.data)) = {}
      PROVE  deployed'.data = deployed.data
  <2>1. PICK old \in EventClasses, new \in EventClasses : old = deployed /\ new = deployed'
    BY <1>2, <1>3
  <2>2. Report(Normalize(old.data), Normalize(new.data)) = {}
    BY <1>3, <2>1 DEF Payload
  <2>3. old.data = new.data
    BY <2>2, SilentSame DEF EventClasses
  <2> QED
    BY <2>1, <2>3
<1>4. Known /\ [Next]_vars =>
        [Report(baseline.schema, Normalize(deployed'.data)) = {}
           /\ baseline = Payload(deployed)
         => deployed'.data = deployed.data]_vars
  BY <1>3
<1> QED
  BY <1>1, <1>2, <1>4, PTL DEF Spec, NoSilentChange

=============================================================================
