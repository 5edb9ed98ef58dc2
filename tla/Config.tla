------------------------------- MODULE Config -------------------------------
(***************************************************************************)
(* bre::Config (src/breutil/config.hpp): a tree of keys with validators,   *)
(* change callbacks and a JSON export and import.                          *)
(*                                                                         *)
(* A key is the sequence of its parts, and the tree is a function from the *)
(* keys of its nodes; an empty children map and a missing one are the same.*)
(* Every operation holds the mutex, so it is one step; a call that throws  *)
(* without changing anything is no step.  A value (std::any) has a type t  *)
(* and a number v: of a bool 0 or 1, of a double its quarters, of a string *)
(* which one it is.  A document is a function from keys to values, Null or *)
(* Object: what the text that is imported says.                            *)
(***************************************************************************)
EXTENDS Integers, Sequences, FiniteSets

CONSTANTS
  Names,        \* keys that are registered
  Validators,   \* validators: type, def, the values allowed, strict
  Values,       \* values given to Set
  Documents,    \* documents written by hand
  EscapedEnd,   \* strings with a backslash in front of a quote or of their end
  LikeSyntax,   \* strings with what looks like a comment or a trailing comma
  MaxListeners  \* bound: callbacks of a key

VARIABLE nodes  \* _property: value, validator, callbacks, non-serializable

NoValue == [t |-> "none", v |-> 0]
Null == [t |-> "null", v |-> 0]
Object == [t |-> "object", v |-> 0]
NoValidator == [type |-> "none"]

\* callbacks is how many there are.
Blank == [value |-> NoValue, validator |-> NoValidator, callbacks |-> 0,
          nonSerializable |-> FALSE]

Prefix(key, n) == SubSeq(key, 1, n)
Parent(key) == Prefix(key, Len(key) - 1)
Above(key) == {Prefix(key, n) : n \in 1 .. Len(key) - 1}
ValueOf(key) == Append(key, "__value")
MarkOf(key) == Append(key, "__non_serializable")
HasChildren(tree, key) == \E k \in DOMAIN tree : Len(k) > 1 /\ Parent(k) = key
NodeAt(tree, key) == IF key \in DOMAIN tree THEN tree[key] ELSE Blank

(* What is assumed of the constants. *)

Types == {"none", "null", "object", "string", "int", "bool", "double", "function"}
Val == [t : Types, v : Int]
Held == {v \in Val : v # Null /\ v # Object}

\* Names of the exported format end a key; a key that is registered has none.
Reserved == {"__value", "__non_serializable"}
Part == STRING \cup Reserved
Plain(key) == key[Len(key)] \notin Reserved
Keys == {k \in Seq(Part) : k # <<>> /\ \A i \in 1 .. Len(k) - 1 : k[i] \notin Reserved}

\* A set of keys with the keys above them.
Closed(K) == K \subseteq Keys /\ \A k \in K : Above(k) \subseteq K

\* What is above an entry of a document is an object.
IsDocument(doc) ==
  /\ Closed(DOMAIN doc)
  /\ \A k \in DOMAIN doc : /\ doc[k] \in Val \ {NoValue}
                            /\ \A a \in Above(k) : doc[a] = Object

\* A validator answers values of its type, and allows its own default.
IsValidator(vd) ==
  /\ vd.type \notin {"none", "null", "object"}
  /\ vd.def \in vd.allowed
  /\ \A v \in vd.allowed : v \in Val /\ v.t = vd.type

Proper ==
  /\ \A k \in Names : k \in Keys /\ Plain(k)
  /\ \A vd \in Validators : IsValidator(vd)
  /\ Values \subseteq Held \ {NoValue}
  /\ \A doc \in Documents : IsDocument(doc)
  /\ 0 \notin EscapedEnd \cup LikeSyntax      \* the text of a mark
-----------------------------------------------------------------------------
\* validator(true, v): a set that is empty when it throws.  A value of another
\* type does not survive the any_cast; a strict validator throws for a value it
\* does not allow, another one answers its default.
Validate(vd, v) ==
  IF vd = NoValidator THEN {v}
  ELSE IF v.t # vd.type THEN {}
  ELSE IF v \in vd.allowed THEN {v}
  ELSE IF vd.strict THEN {} ELSE {vd.def}

Has(key) == key \in DOMAIN nodes

\* Get: a set that is empty for nullopt; Null stands for the exception.
Get(key, type) ==
  LET n == NodeAt(nodes, key)
      v == IF n.value = NoValue /\ n.validator # NoValidator THEN n.validator.def ELSE n.value
  IN  IF v = NoValue THEN {} ELSE IF v.t = type THEN {v} ELSE {Null}

ConfigInit == nodes = << >>

-----------------------------------------------------------------------------
\* Register of both forms.  Nodes on the way are made without a value.
Register(key, vd) ==
  nodes' = [k \in DOMAIN nodes \cup Above(key) \cup {key} |->
              IF k # key THEN NodeAt(nodes, k)
              ELSE [NodeAt(nodes, k) EXCEPT
                      !.validator = vd, !.value = vd.def,
                      !.nonSerializable = @ \/ vd.type = "function"]]

\* Set: validate, check the old value's type, store, call the callbacks.  They
\* change nothing here; one that throws ends the call, and the value stays.
Set(key, v) ==
  /\ Has(key)
  /\ LET n == nodes[key]
     IN  /\ n.value = NoValue \/ n.nonSerializable \/ n.value.t = v.t
         /\ \E final \in Validate(n.validator, v) :
              nodes' = [nodes EXCEPT ![key] = [n EXCEPT !.value = final]]

NotifyChange(key) ==
  /\ Has(key) /\ nodes[key].callbacks < MaxListeners
  /\ nodes' = [nodes EXCEPT ![key].callbacks = @ + 1]

Defaults(tree) ==
  [k \in DOMAIN tree |->
     [tree[k] EXCEPT !.value = IF tree[k].validator = NoValidator THEN NoValue
                               ELSE tree[k].validator.def]]

Reset == nodes' = Defaults(nodes)
-----------------------------------------------------------------------------
(* Export and import. *)

\* Value(double) and Value(bool) are explicit, Value(int) is not: assigning a
\* double, or below "__value" a bool, to a json::Value makes it an int.
\* A double below "__value" is written as one (SetDouble), with as many decimals
\* as std::to_string keeps: halves, say, the nearest one, a tie to the even one.
Truncated(v) == IF v < 0 THEN -((-v) \div 4) ELSE v \div 4
Rounded(v) == IF v % 2 = 0 THEN v ELSE IF v % 4 = 1 THEN v - 1 ELSE v + 1
LeafOut(v) == IF v.t = "double" THEN [t |-> "int", v |-> Truncated(v.v)] ELSE v
InnerOut(v) == IF v.t = "bool" THEN [t |-> "int", v |-> v.v]
               ELSE IF v.t = "double" THEN [t |-> "double", v |-> Rounded(v.v)] ELSE v

\* Mutant: the value of a key that has children is not written.
NoInnerValues(tree) == {}

InnerValues(tree) ==
  {k \in DOMAIN tree : /\ HasChildren(tree, k) /\ tree[k].value # NoValue
                       /\ ~tree[k].nonSerializable}

ToJson(tree) ==
  LET opaque == {k \in DOMAIN tree : tree[k].nonSerializable}
      inner == InnerValues(tree)
  IN  [k \in DOMAIN tree \cup {ValueOf(i) : i \in inner} \cup {MarkOf(o) : o \in opaque} |->
         CASE k \in {MarkOf(o) : o \in opaque} -> [t |-> "string", v |-> 0]
           [] k \in {ValueOf(i) : i \in inner} -> InnerOut(tree[Parent(k)].value)
           [] OTHER -> IF HasChildren(tree, k) \/ k \in opaque THEN Object
                       ELSE IF tree[k].value = NoValue THEN Null
                       ELSE LeafOut(tree[k].value)]

\* What Parser may read, in its lenient mode, from the text of a document.  Behind
\* a string in EscapedEnd the passes over the text take strings for code: then what
\* looks like a comment or a trailing comma is cut out of them, or the text that
\* is left is refused and nothing is imported.
StringsOf(doc, S) == {k \in DOMAIN doc : doc[k].t = "string" /\ doc[k].v \in S}
Garbled == [t |-> "string", v |-> -1]
Readings(doc) ==
  IF StringsOf(doc, EscapedEnd) = {} \/ StringsOf(doc, LikeSyntax) = {} THEN {doc}
  ELSE {[k \in DOMAIN doc |-> IF k \in cut THEN Garbled ELSE doc[k]] :
          cut \in SUBSET StringsOf(doc, LikeSyntax)}

\* The entries FromJson visits: it passes over those at and below a key that is
\* not serializable.
Visited(tree, doc) ==
  {k \in DOMAIN doc : \A a \in Above(k) \cup {k} : ~NodeAt(tree, a).nonSerializable}

Rejected(tree, doc) ==
  {k \in Visited(tree, doc) :
     doc[k] = Null \/ (doc[k] # Object /\ Validate(NodeAt(tree, k).validator, doc[k]) = {})}

\* Mutant: a leaf is stored as it was read.
EntryUnchecked(tree, doc, k) ==
  IF doc[k] = Object THEN {NodeAt(tree, k).value} ELSE {doc[k]}

\* The value an accepted entry leaves in its node, as a set of one: "__value"
\* without the validator, a leaf through it.
Entry(tree, doc, k) ==
  IF doc[k] # Object THEN Validate(NodeAt(tree, k).validator, doc[k])
  ELSE IF ValueOf(k) \in DOMAIN doc /\ doc[ValueOf(k)] \notin {Null, Object}
       THEN {doc[ValueOf(k)]} ELSE {NodeAt(tree, k).value}

\* The tree when the entries in done are stored and those in made have nodes.
Loaded(tree, doc, done, made) ==
  [k \in DOMAIN tree \cup done \cup made |->
     IF k \in done
     THEN [NodeAt(tree, k) EXCEPT !.value = CHOOSE v \in Entry(tree, doc, k) : TRUE]
     ELSE NodeAt(tree, k)]

\* When the entry f throws, its ancestors are done, and beside the way to it
\* any accepted subtrees: the members of an object come in hash order.
DoneBefore(tree, doc, f) ==
  LET seen == Visited(tree, doc)
      below(s) == {k \in seen : Len(k) >= Len(s) /\ Prefix(k, Len(s)) = s}
      beside == {s \in seen : /\ s \notin Above(f) \cup {f}
                              /\ Len(s) = 1 \/ Parent(s) \in Above(f)
                              /\ below(s) \cap Rejected(tree, doc) = {}}
  IN  {Above(f) \cup UNION {below(s) : s \in S} : S \in SUBSET beside}

FromJson(doc) ==
  LET seen == Visited(nodes, doc)
      rejected == Rejected(nodes, doc)
  IN  IF rejected = {}
      THEN nodes' = Loaded(nodes, doc, seen, {})
      ELSE \E f \in rejected : \E done \in DoneBefore(nodes, doc, f) :
             nodes' = Loaded(nodes, doc, done, {f})

ConfigNext ==
  \/ \E key \in Names, vd \in Validators : Register(key, vd)
  \/ \E key \in Names, v \in Values : Set(key, v)
  \/ \E key \in Names : NotifyChange(key)
  \/ \E doc \in Documents \cup Readings(ToJson(nodes)) : FromJson(doc)
  \/ Reset
-----------------------------------------------------------------------------
(* Properties. *)

\* A registered key without children holds a value of its type that its
\* validator allows, after any sequence of calls and of imports that failed in
\* the middle, so Get and Set of that type do not throw.  (The "__value" of a
\* key with children is imported without validation.)
RegisteredIsUsable ==
  \A k \in DOMAIN nodes :
    nodes[k].validator # NoValidator /\ ~HasChildren(nodes, k) =>
      Get(k, nodes[k].validator.type) \cap nodes[k].validator.allowed # {}

Holds(n, S) == n.value.t = "string" /\ n.value.v \in S

\* What export and import can carry: every leaf has a value, no leaf is a
\* double, no key with children is a bool, not serializable, or a double with
\* more decimals than are written, and no string in EscapedEnd is exported with
\* one that looks like syntax.
Portable ==
  /\ \A k \in DOMAIN nodes :
       IF HasChildren(nodes, k)
       THEN /\ nodes[k].value.t # "bool" /\ ~nodes[k].nonSerializable
            /\ nodes[k].value.t = "double" => nodes[k].value.v % 2 = 0
       ELSE nodes[k].value.t \notin {"none", "double"}
  /\ \/ \A k \in DOMAIN nodes : ~Holds(nodes[k], EscapedEnd)
     \/ \A k \in DOMAIN nodes : ~Holds(nodes[k], LikeSyntax)

\* Such a configuration is restored by importing, after a Reset, the text that
\* was exported before: no entry is refused and no value is changed.
SavedIsRestored ==
  LET fresh == Defaults(nodes)
      loaded(doc) == Loaded(fresh, doc, Visited(fresh, doc), {})
  IN  Portable =>
        \A doc \in Readings(ToJson(nodes)) :
          /\ Rejected(fresh, doc) = {}
          /\ \A k \in DOMAIN nodes :
               nodes[k].nonSerializable \/ k[Len(k)] = "__value"
                 \/ loaded(doc)[k].value = nodes[k].value
=============================================================================
