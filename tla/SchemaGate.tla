----------------------------- MODULE SchemaGate -----------------------------
(***************************************************************************)
(* `evora schema check` as the gate of a deployment: a team exports the    *)
(* schema of the deployed event class as a baseline, checks each new class *)
(* against it and releases what passes.  Events written by earlier         *)
(* releases are still in streams, so the deployed class must read them.    *)
(*                                                                         *)
(* A Data model, a schema and a value are trees, given as functions from   *)
(* the paths of their nodes: a path is a sequence of field names and, for  *)
(* the items of a list, "[]".  What the code does by recursion is said of  *)
(* every path at once.                                                     *)
(*                                                                         *)
(* What a class writes and reads is the reference the gate is held         *)
(* against: pydantic's model_dump and model_validate, external to evora.   *)
(***************************************************************************)
EXTENDS Naturals, Sequences

CONSTANTS
  EventTypes,    \* event_type() a class may have
  DataModels,    \* inner Data models
  Strings,       \* the strings that tell the classes' literals apart
  EnforceType,   \* --enforce-event-type (default: true)
  MaxReleases    \* bound: releases after the first

Parent(p) == SubSeq(p, 1, Len(p) - 1)
Above(p) == {SubSeq(p, 1, n) : n \in 0..(Len(p) - 1)}

\* A field's type: kind "lit" is an Enum or Literal of several strings, lits;
\* nullable is type | None; a field that is not required has a default.
Nodes == [kind : {"int", "str", "lit", "list", "obj"}, lits : SUBSET Strings,
          nullable : BOOLEAN, required : BOOLEAN]

IsModel(m) ==
  /\ DOMAIN m \subseteq Seq(STRING) /\ m \in [DOMAIN m -> Nodes]
  /\ <<>> \in DOMAIN m
  /\ m[<<>>].kind = "obj" /\ ~m[<<>>].nullable /\ ~m[<<>>].required
  /\ \A p \in DOMAIN m :
       /\ Above(p) \subseteq DOMAIN m
       /\ m[p].kind = "lit" <=> m[p].lits # {}
       /\ m[p].kind = "list" => Append(p, "[]") \in DOMAIN m
       /\ p # <<>> => \/ m[Parent(p)].kind = "obj" /\ p[Len(p)] # "[]"
                      \/ m[Parent(p)].kind = "list" /\ p[Len(p)] = "[]" /\ ~m[p].required

ASSUME SchemaAssumption ==
  /\ \A m \in DataModels : IsModel(m)
  /\ EnforceType \in BOOLEAN /\ MaxReleases \in Nat

VARIABLES
  deployed,   \* the class in production: its event_type and Data model
  baseline,   \* the exported JSON: event_type and normalized schema
  published,  \* history: classes that wrote events
  exported,   \* history: classes a baseline was exported from
  fresh,      \* history: so far it was exported again before each release
  releases    \* releases so far

vars == <<deployed, baseline, published, exported, fresh, releases>>

EventClasses == [event_type : EventTypes, data : DataModels]

-----------------------------------------------------------------------------
(* extract_schema.                                                         *)

JsonType(kind) ==
  CASE kind = "int" -> "integer"
    [] kind \in {"str", "lit"} -> "string"
    [] kind = "list" -> "array"
    [] kind = "obj" -> "object"

\* _normalize_schema of the JSON schema pydantic generates, references
\* resolved.  Of a union only anyOf is left, which has no type: all unions
\* normalize to the same schema, without what is below them.
Normalize(m) ==
  [p \in {q \in DOMAIN m : \A r \in Above(q) : ~m[r].nullable} |->
     [type |-> IF m[p].nullable THEN "None" ELSE JsonType(m[p].kind),
      enum |-> IF m[p].nullable THEN {} ELSE m[p].lits,
      required |-> m[p].required]]

Payload(class) ==
  [event_type |-> class.event_type, schema |-> Normalize(class.data)]

-----------------------------------------------------------------------------
(* compare_schemas: the changes it reports, as <<path, change>>.           *)

BreakingChanges == {"type changed", "enum value removed", "removed",
                    "added as required", "made required"}

\* Seeded bug: the items of lists are not compared.
ComparedWithoutItems(old, new) ==
  {p \in DOMAIN old \cap DOMAIN new :
     \A q \in Above(p) : old[q].type = new[q].type /\ old[q].type # "array"}

\* Where _compare_objects is called: it descends where the types are equal, ...
Compared(old, new) ==
  {p \in DOMAIN old \cap DOMAIN new : \A q \in Above(p) : old[q].type = new[q].type}

\* ... and a changed type is all it says of a path.
Entered(old, new) == {p \in Compared(old, new) : old[p].type = new[p].type}

TypeChanges(old, new) ==
  (Compared(old, new) \ Entered(old, new)) \X {"type changed"}

\* Seeded bug: added values go unreported.
EnumChangesRemovedOnly(old, new) ==
  {p \in Entered(old, new) : ~(old[p].enum \subseteq new[p].enum)} \X {"enum value removed"}

EnumChanges(old, new) ==
  {p \in Entered(old, new) : ~(old[p].enum \subseteq new[p].enum)} \X {"enum value removed"}
  \cup {p \in Entered(old, new) : ~(new[p].enum \subseteq old[p].enum)} \X {"enum value added"}

\* The fields of the objects in S that only schema has.
OnlyIn(schema, other, S) ==
  {p \in DOMAIN schema \ DOMAIN other : p # <<>> /\ Parent(p) \in S}

Removed(old, new) == OnlyIn(old, new, Entered(old, new)) \X {"removed"}

\* Seeded bug: a new field is never breaking.
AddedAllOptional(old, new) ==
  OnlyIn(new, old, Entered(old, new)) \X {"added as optional"}

Added(old, new) ==
  LET added == OnlyIn(new, old, Entered(old, new))
  IN  {p \in added : new[p].required} \X {"added as required"}
      \cup {p \in added : ~new[p].required} \X {"added as optional"}

\* Seeded bug: that a field is no longer required goes unreported.
RequiredChangesOneWay(old, new) ==
  {p \in Compared(old, new) : new[p].required /\ ~old[p].required} \X {"made required"}

RequiredChanges(old, new) ==
  {p \in Compared(old, new) : new[p].required /\ ~old[p].required} \X {"made required"}
  \cup {p \in Compared(old, new) : old[p].required /\ ~new[p].required} \X {"made optional"}

Report(old, new) ==
  TypeChanges(old, new) \cup EnumChanges(old, new) \cup Removed(old, new)
  \cup Added(old, new) \cup RequiredChanges(old, new)

\* handle_schema_check: exit code 0.  The version bump it asks for on a breaking
\* change only adds a message: such a change is never ok.
Check(old, new) ==
  /\ EnforceType => old.event_type = new.event_type
  /\ \A change \in Report(old.schema, Normalize(new.data)) : change[2] \notin BreakingChanges

-----------------------------------------------------------------------------
(* The reference: what a class writes, and what it reads.                  *)

\* What can be at a node: a scalar, null, or that a list or an object is there.
Atoms(node) ==
  (IF node.nullable THEN {<<"null">>} ELSE {}) \cup
  CASE node.kind = "str" -> {<<"str", s>> : s \in Strings}
    [] node.kind = "lit" -> {<<"str", s>> : s \in node.lits}
    [] node.kind \in {"int", "list", "obj"} -> {<<node.kind>>}

\* What model_dump writes: below a node only where a list or an object is; of
\* an object every field, with its default where the publisher left it out.  A
\* list is empty, or one of its items stands for it.
Written(m, v) ==
  /\ <<>> \in DOMAIN v
  /\ \A p \in DOMAIN v : v[p] \in Atoms(m[p])
  /\ \A p \in DOMAIN m \ {<<>>} :
       /\ p \in DOMAIN v => Parent(p) \in DOMAIN v /\ v[Parent(p)] \in {<<"list">>, <<"obj">>}
       /\ Parent(p) \in DOMAIN v /\ v[Parent(p)] = <<"obj">> => p \in DOMAIN v

Values(m) ==
  UNION {{v \in [D -> UNION {Atoms(m[p]) : p \in D}] : Written(m, v)} :
           D \in {E \in SUBSET DOMAIN m : \A p \in E : Above(p) \subseteq E}}

\* model_validate; fields the class does not have are ignored.
Accepts(m, v) ==
  \A p \in DOMAIN m :
    \/ p \in DOMAIN v /\ v[p] \in Atoms(m[p])
    \/ p \notin DOMAIN v /\ ~(m[p].required /\ Parent(p) \in DOMAIN v
                                            /\ v[Parent(p)] = <<"obj">>)

Reads(reader, writer) ==
  /\ reader.event_type = writer.event_type
  /\ \A v \in Values(writer.data) : Accepts(reader.data, v)

-----------------------------------------------------------------------------
(* The deployment.                                                         *)

Init ==
  /\ deployed \in EventClasses
  /\ baseline = Payload(deployed)
  /\ published = {deployed} /\ exported = {deployed}
  /\ fresh = TRUE /\ releases = 0

\* evora schema export
Export ==
  /\ baseline' = Payload(deployed)
  /\ exported' = exported \cup {deployed}
  /\ UNCHANGED <<deployed, published, fresh, releases>>

\* A class that passes the check against the baseline: the file, whichever
\* class it was exported from.
Release(new) ==
  /\ releases < MaxReleases
  /\ Check(baseline, new)
  /\ deployed' = new
  /\ published' = published \cup {new}
  /\ fresh' = (fresh /\ baseline = Payload(deployed))
  /\ releases' = releases + 1
  /\ UNCHANGED <<baseline, exported>>

Next == Export \/ \E new \in EventClasses : Release(new)

Spec == Init /\ [][Next]_vars

-----------------------------------------------------------------------------
(* Properties.                                                             *)

\* If the baseline was exported again after each release, the deployed class
\* reads what every earlier one wrote: compatibility of each step, as
\* compare_schemas decides it, adds up over several.
AlwaysReadable == fresh => \A writer \in published : Reads(deployed, writer)

\* Whatever the age of the baseline, the deployed class reads what the classes
\* wrote that were ever exported as one: what a stale file hides is only what
\* was released against it and replaced before the next export.
BaselinesReadable == \A writer \in exported : Reads(deployed, writer)

\* While a release checked against the deployed class rolls out, that class
\* reads what the new one writes, unless the report names an enum value as added.
RollingReadable ==
  [][deployed' # deployed /\ baseline = Payload(deployed) =>
       \/ Reads(deployed, deployed')
       \/ \E change \in Report(baseline.schema, Normalize(deployed'.data)) :
            change[2] = "enum value added"]_vars

\* A check that reports nothing was given an unchanged Data model.
NoSilentChange ==
  [][Report(baseline.schema, Normalize(deployed'.data)) = {}
       /\ baseline = Payload(deployed)
     => deployed'.data = deployed.data]_vars

=============================================================================
