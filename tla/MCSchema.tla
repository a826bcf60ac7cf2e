------------------------------ MODULE MCSchema ------------------------------
(***************************************************************************)
(* Instances of SchemaGate for TLC: Data models of up to two fields.       *)
(***************************************************************************)
EXTENDS SchemaGate

Node(kind, lits) == [kind |-> kind, lits |-> lits, nullable |-> FALSE, required |-> FALSE]
Scalar(kind, lits) == [p \in {<<>>} |-> Node(kind, lits)]
Optional(type) == [type EXCEPT ![<<>>].nullable = TRUE]

\* A tree: its root and, by the first step of the path, what is below.
Tree(root, below) ==
  [p \in {<<>>} \cup UNION {{<<f>> \o q : q \in DOMAIN below[f].type} : f \in DOMAIN below} |->
     IF p = <<>> THEN root
     ELSE LET field == below[p[1]]
              node == field.type[Tail(p)]
          IN  IF Len(p) = 1 THEN [node EXCEPT !.required = field.required] ELSE node]

ListOf(type) == Tree(Node("list", {}), [step \in {"[]"} |-> [type |-> type, required |-> FALSE]])

Models(names, types) ==
  {Tree(Node("obj", {}), fields) : fields \in
     UNION {[D -> [type : types, required : BOOLEAN]] : D \in SUBSET names}}

Int == Scalar("int", {})
Str == Scalar("str", {})
Two == Scalar("lit", {"x", "y"})
Three == Scalar("lit", {"x", "y", "z"})

\* Plain strings are in fields where no enumeration is, and each field has at
\* most one union.
Nested == {m \in Models({"h", "k"}, {Int}) :
             <<"h">> \in DOMAIN m /\ m[<<"h">>].required}
SoundTypes == {Int, Two, Three, ListOf(Two), ListOf(Three)}
              \cup Nested \cup {ListOf(m) : m \in Nested}
SoundModels == Models({"f"}, SoundTypes) \cup Models({"f", "g"}, {Int, Two, Three})
               \cup Models({"s", "t"}, {Str, Optional(ListOf(Two))})

\* Two types, each with its union.
UnionModels == Models({"f"}, {Int, Str, Optional(Int), Optional(Str)})
=============================================================================
