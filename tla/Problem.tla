------------------------------ MODULE Problem ------------------------------
(***************************************************************************)
(* A Problem and its JSON document (problem.go), as operators.             *)
(*                                                                         *)
(* A map of members is a function from names to JSON values, and a value a *)
(* form with what it holds.  encoding/json writes a map's members in the   *)
(* order of their names, and reads a field from every member whose name is *)
(* the field's but for case, one after another.                            *)
(***************************************************************************)
EXTENDS Integers, Sequences, Functions

CONSTANTS
  Members,       \* the members' names that occur
  Texts,         \* the texts that occur
  Folded,        \* each name as it is compared without regard to case
  Before(_, _),  \* the order of names in a document
  Statuses,      \* the statuses that occur, 0 for none among them
  StatusText     \* net/http's phrase for each, Empty where it has none

Empty == "none"

Standard == {"type", "title", "status", "detail", "instance"}

\* Names are ASCII: a capital comes before its small letter, so of a standard
\* member's spellings the standard one is written last.
ASSUME MembersAssumption ==
  /\ Standard \cup {"checks", "request_id"} \subseteq Members
  /\ \A k \in Standard : Folded[k] = k
  /\ \A k \in {"checks", "request_id"} : Folded[k] \notin Standard
  /\ \A k \in Members, s \in Standard :
       Folded[k] = s /\ k # s => Before(k, s) /\ ~Before(s, k)

ASSUME TextsAssumption ==
  /\ {Empty, "blank", "failed"} \subseteq Texts
  /\ {0, 500, 503} \subseteq Statuses /\ Statuses \subseteq Nat
  /\ StatusText \in [Statuses -> Texts]

Text(s)   == <<"text", s>>
Number(n) == <<"number", n>>
List(s)   == <<"list", s>>

Values ==
  ({"text"} \X Texts) \cup ({"number"} \X Int) \cup ({"list"} \X Seq(BOOLEAN))
    \cup ({"null"} \X {Empty})

IsMap(m) == DOMAIN m \subseteq Members /\ m \in [DOMAIN m -> Values]

IsProblem(p) ==
  /\ p \in [type : Texts, title : Texts, status : Statuses, detail : Texts,
            instance : Texts, extras : {p.extras}]
  /\ IsMap(p.extras)

-----------------------------------------------------------------------------
\* maps.Copy of m over base.
Over(m, base) ==
  [k \in DOMAIN m \cup DOMAIN base |-> IF k \in DOMAIN m THEN m[k] ELSE base[k]]

\* The standard members; type and status are not omitted when they are empty.
problemMembers(p) ==
  Restrict([type |-> Text(p.type), title |-> Text(p.title), status |-> Number(p.status),
            detail |-> Text(p.detail), instance |-> Text(p.instance)],
           {k \in Standard : k \in {"type", "status"} \/ p[k] # Empty})

MarshalJSON(p) ==
  Over([status |-> Number(p.status)], Over(p.extras, problemMembers(p)))

-----------------------------------------------------------------------------
\* Whether each member read into a field has the field's form, or is null.
Decodes(doc) ==
  \A k \in DOMAIN doc :
    Folded[k] \in Standard =>
      doc[k][1] \in {IF Folded[k] = "status" THEN "number" ELSE "text", "null"}

\* The members that set field s: a null sets nothing.
Said(doc, s) == {k \in DOMAIN doc : Folded[k] = s /\ doc[k][1] # "null"}

\* Mutated Field: the first of the members that set s stays.
FieldFirst(doc, s, zero) ==
  IF Said(doc, s) = {} THEN zero
  ELSE doc[CHOOSE k \in Said(doc, s) : \A j \in Said(doc, s) \ {k} : Before(k, j)][2]

\* What field s is once each of its members has been read, the last one last.
Field(doc, s, zero) ==
  IF Said(doc, s) = {} THEN zero
  ELSE doc[CHOOSE k \in Said(doc, s) : \A j \in Said(doc, s) \ {k} : Before(j, k)][2]

\* The fields, and as Extras every member that is none of them in any case.
UnmarshalJSON(doc) ==
  [type     |-> Field(doc, "type", Empty),
   title    |-> Field(doc, "title", Empty),
   status   |-> Field(doc, "status", 0),
   detail   |-> Field(doc, "detail", Empty),
   instance |-> Field(doc, "instance", Empty),
   extras   |-> Restrict(doc, {k \in DOMAIN doc : Folded[k] \notin Standard})]

-----------------------------------------------------------------------------
\* Mutated applyDefaults: a status left out stays 0.
applyDefaultsButStatus(p) ==
  [type     |-> IF p.type = Empty THEN "blank" ELSE p.type,
   title    |-> IF p.title = Empty THEN StatusText[p.status] ELSE p.title,
   status   |-> p.status,
   detail   |-> p.detail, instance |-> p.instance, extras |-> p.extras]

applyDefaults(p) ==
  LET status == IF p.status = 0 THEN 500 ELSE p.status
  IN [type     |-> IF p.type = Empty THEN "blank" ELSE p.type,
      title    |-> IF p.title = Empty THEN StatusText[status] ELSE p.title,
      status   |-> status,
      detail   |-> p.detail, instance |-> p.instance, extras |-> p.extras]

\* The problem that WriteFor sends for p in a request for path with this
\* correlation id, Empty where it has none.
WriteFor(p, path, id) ==
  applyDefaults(
    [type     |-> p.type, title |-> p.title, status |-> p.status, detail |-> p.detail,
     instance |-> IF p.instance = Empty THEN path ELSE p.instance,
     extras   |-> IF id = Empty THEN p.extras
                  ELSE Over([request_id |-> Text(id)], p.extras)])
=============================================================================
