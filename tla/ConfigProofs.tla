---------------------------- MODULE ConfigProofs ----------------------------
(***************************************************************************)
(* Proofs about Config, for all names, validators, values and documents of *)
(* the right form and any bound on the callbacks.                          *)
(*                                                                         *)
(* The tree is closed under taking parents, as the documents are, and its  *)
(* nodes have their type; a key that is registered and has no children     *)
(* holds a value its validator allows.  Nodes are never removed, so that a *)
(* key which has children keeps some, and a node whose value was taken     *)
(* from a "__value", which no validator has seen, has a child.             *)
(***************************************************************************)
EXTENDS Config, SequenceTheorems, TLAPS

ConfigSpec == ConfigInit /\ [][ConfigNext]_nodes

NodeType ==
  [value : Held, validator : Validators \cup {NoValidator}, callbacks : Nat,
   nonSerializable : BOOLEAN]

\* Only a registered key is not serializable or has a validator, and then it
\* has a value.
Fits(k, n) ==
  /\ n.nonSerializable => Plain(k)
  /\ n.validator # NoValidator => Plain(k) /\ n.value # NoValue

\* A key with no value has no imported "__value".
Agree(tree) ==
  \A k \in DOMAIN tree :
    ValueOf(k) \in DOMAIN tree /\ tree[k].value = NoValue =>
      tree[ValueOf(k)].value = NoValue

IsTree(tree) ==
  /\ tree \in [DOMAIN tree -> NodeType]
  /\ Closed(DOMAIN tree)
  /\ \A k \in DOMAIN tree : Fits(k, tree[k])
  /\ Agree(tree)

Usable(tree) ==
  \A k \in DOMAIN tree :
    tree[k].validator # NoValidator /\ ~HasChildren(tree, k) =>
      tree[k].value \in tree[k].validator.allowed

TreeInv(tree) == IsTree(tree) /\ Usable(tree)

-----------------------------------------------------------------------------
(* Keys. *)

\* Prefixes of a key.
LEMMA Prefixes ==
  ASSUME NEW k \in Keys, NEW n \in 1 .. Len(k)
  PROVE  /\ Len(k) \in Nat \ {0}
         /\ Prefix(k, n) \in Keys
         /\ Len(Prefix(k, n)) = n
         /\ \A i \in 1 .. n : Prefix(k, n)[i] = k[i]
         /\ n < Len(k) => Plain(Prefix(k, n))
<1>1. k \in Seq(Part) /\ k # <<>>
  BY DEF Keys
<1>2. Len(k) \in Nat \ {0} /\ \A i \in 1 .. n : k[i] \in Part
  BY <1>1, EmptySeq, LenProperties, ElementOfSeq
<1>3. /\ SubSeq(k, 1, n) \in Seq(Part)
      /\ Len(SubSeq(k, 1, n)) = n
      /\ \A i \in 1 .. n : SubSeq(k, 1, n)[i] = k[i]
  BY <1>2, SubSeqProperties
<1>4. SubSeq(k, 1, n) # <<>>
  BY <1>2, <1>3, EmptySeq
<1>5. \A i \in 1 .. Len(k) - 1 : k[i] \notin Reserved
  BY DEF Keys
<1>6. \A i \in 1 .. n - 1 : SubSeq(k, 1, n)[i] \notin Reserved
  BY <1>2, <1>3, <1>5
<1>7. n < Len(k) => SubSeq(k, 1, n)[n] \notin Reserved
  BY <1>2, <1>3, <1>5
<1> QED BY <1>2, <1>3, <1>4, <1>6, <1>7 DEF Prefix, Keys, Plain

\* A prefix of a prefix is a prefix.
LEMMA PrefixOfPrefix ==
  ASSUME NEW k \in Keys, NEW n \in 1 .. Len(k), NEW m \in 1 .. n
  PROVE  Prefix(Prefix(k, n), m) = Prefix(k, m)
<1> DEFINE p == Prefix(k, n)
<1>1. /\ Len(k) \in Nat \ {0} /\ p \in Keys /\ Len(p) = n
      /\ \A i \in 1 .. n : p[i] = k[i]
  BY Prefixes
<1>2. m \in 1 .. Len(k) /\ m \in 1 .. Len(p)
  BY <1>1
<1> HIDE DEF p
<1>3. /\ Prefix(p, m) \in Keys /\ Len(Prefix(p, m)) = m
      /\ \A i \in 1 .. m : Prefix(p, m)[i] = p[i]
  BY <1>1, <1>2, Prefixes
<1>4. /\ Prefix(k, m) \in Keys /\ Len(Prefix(k, m)) = m
      /\ \A i \in 1 .. m : Prefix(k, m)[i] = k[i]
  BY <1>1, <1>2, Prefixes
<1>5. \A i \in 1 .. m : Prefix(p, m)[i] = Prefix(k, m)[i]
  BY <1>1, <1>3, <1>4
<1>6. Prefix(p, m) \in Seq(Part) /\ Prefix(k, m) \in Seq(Part)
  BY <1>3, <1>4 DEF Keys
<1>7. Prefix(p, m) = Prefix(k, m)
  BY <1>3, <1>4, <1>5, <1>6, SeqEqual
<1> QED BY <1>7 DEF p

\* What is above a key, and above that.
LEMMA AboveIsClosed ==
  ASSUME NEW k \in Keys, NEW a \in Above(k)
  PROVE  /\ a \in Keys /\ Plain(a) /\ Above(a) \subseteq Above(k)
         /\ Len(a) \in 1 .. Len(k) - 1 /\ a = Prefix(k, Len(a))
<1>1. PICK n \in 1 .. Len(k) - 1 : a = Prefix(k, n)
  BY DEF Above
<1>2. Len(k) \in Nat
  BY LenProperties DEF Keys
<1>3. n \in 1 .. Len(k)
  BY <1>1, <1>2
<1>4. a \in Keys /\ Len(a) = n /\ Plain(a)
  BY <1>1, <1>2, <1>3, Prefixes
<1>5. ASSUME NEW m \in 1 .. Len(a) - 1
      PROVE  Prefix(a, m) \in Above(k)
  <2>1. m \in 1 .. n /\ m \in 1 .. Len(k) - 1
    BY <1>2, <1>4
  <2>2. Prefix(a, m) = Prefix(k, m)
    BY <1>1, <1>3, <2>1, PrefixOfPrefix
  <2> QED BY <2>1, <2>2 DEF Above
<1>6. Above(a) \subseteq Above(k)
  BY <1>5 DEF Above
<1> QED BY <1>1, <1>4, <1>6

\* A key that is made longer by one part.
LEMMA ChildKey ==
  ASSUME NEW k \in Keys, Plain(k), NEW x \in Part
  PROVE  /\ Append(k, x) \in Keys
         /\ Len(Append(k, x)) = Len(k) + 1 /\ Len(k) \in Nat \ {0}
         /\ \A n \in 1 .. Len(k) : Prefix(Append(k, x), n) = Prefix(k, n)
         /\ Parent(Append(k, x)) = k
         /\ Above(Append(k, x)) = Above(k) \cup {k}
         /\ Append(k, x)[Len(Append(k, x))] = x
         /\ x \in Reserved => ~Plain(Append(k, x))
<1> DEFINE c == Append(k, x)
<1>1. k \in Seq(Part) /\ Len(k) \in Nat \ {0}
  BY EmptySeq DEF Keys
<1>2. /\ c \in Seq(Part) /\ c # <<>> /\ Len(c) = Len(k) + 1
      /\ \A i \in 1 .. Len(k) : c[i] = k[i]
      /\ c[Len(k) + 1] = x
  <2>1. ASSUME NEW S, NEW q \in Seq(S), NEW e \in S
        PROVE  /\ Append(q, e) \in Seq(S) /\ Append(q, e) # <<>>
               /\ Len(Append(q, e)) = Len(q) + 1
               /\ \A i \in 1 .. Len(q) : Append(q, e)[i] = q[i]
               /\ Append(q, e)[Len(q) + 1] = e
    BY AppendProperties
  <2> QED BY <1>1, <2>1
<1> HIDE DEF c
<1>3. c \in Keys
  <2>1. \A i \in 1 .. Len(k) - 1 : k[i] \notin Reserved
    BY DEF Keys
  <2>2. k[Len(k)] \notin Reserved
    BY DEF Plain
  <2>3. \A i \in 1 .. Len(c) - 1 : i \in 1 .. Len(k) /\ (i \in 1 .. Len(k) - 1 \/ i = Len(k))
    BY <1>1, <1>2
  <2>4. \A i \in 1 .. Len(c) - 1 : c[i] \notin Reserved
    BY <1>2, <2>1, <2>2, <2>3
  <2> QED BY <1>2, <2>4 DEF Keys
<1>4. ASSUME NEW n \in 1 .. Len(k)
      PROVE  Prefix(c, n) = Prefix(k, n)
  <2>1. n \in 1 .. Len(c)
    BY <1>1, <1>2
  <2>2. /\ Prefix(c, n) \in Keys /\ Len(Prefix(c, n)) = n
        /\ \A i \in 1 .. n : Prefix(c, n)[i] = c[i]
    BY <1>3, <2>1, Prefixes
  <2>3. /\ Prefix(k, n) \in Keys /\ Len(Prefix(k, n)) = n
        /\ \A i \in 1 .. n : Prefix(k, n)[i] = k[i]
    BY <1>4, Prefixes
  <2>4. \A i \in 1 .. n : Prefix(c, n)[i] = Prefix(k, n)[i]
    BY <1>1, <1>2, <2>2, <2>3
  <2>5. Prefix(c, n) \in Seq(Part) /\ Prefix(k, n) \in Seq(Part)
    BY <2>2, <2>3 DEF Keys
  <2> QED BY <2>2, <2>3, <2>4, <2>5, SeqEqual
<1>5. Prefix(k, Len(k)) = k
  BY <1>1, SubSeqFull DEF Prefix
<1>6. Len(c) - 1 = Len(k) /\ Len(k) \in 1 .. Len(k)
  BY <1>1, <1>2
<1>7. Parent(c) = k
  BY <1>4, <1>5, <1>6 DEF Parent
<1>8. Above(c) = Above(k) \cup {k}
  <2>1. Above(c) = {Prefix(c, n) : n \in 1 .. Len(k)}
    BY <1>6 DEF Above
  <2>2. Above(c) = {Prefix(k, n) : n \in 1 .. Len(k)}
    BY <1>4, <2>1
  <2>3. \A n : n \in 1 .. Len(k) <=> n \in 1 .. Len(k) - 1 \/ n = Len(k)
    BY <1>1
  <2> QED BY <1>5, <2>2, <2>3 DEF Above
<1>9. x \in Reserved => ~Plain(c)
  BY <1>2 DEF Plain
<1>10. c[Len(c)] = x
  BY <1>2
<1> QED BY <1>1, <1>2, <1>3, <1>4, <1>7, <1>8, <1>9, <1>10 DEF c

\* Only a key that does not end in a name of the format can be made longer.
LEMMA ParentIsPlain ==
  ASSUME NEW k \in Keys, NEW x \in Part, Append(k, x) \in Keys
  PROVE  Plain(k)
<1>1. k \in Seq(Part) /\ Len(k) \in Nat \ {0}
  BY EmptySeq DEF Keys
<1>2. ASSUME NEW S, NEW q \in Seq(S), NEW e \in S
      PROVE  /\ Len(Append(q, e)) = Len(q) + 1
             /\ \A i \in 1 .. Len(q) : Append(q, e)[i] = q[i]
  BY AppendProperties
<1>3. /\ Len(Append(k, x)) = Len(k) + 1
      /\ \A i \in 1 .. Len(k) : Append(k, x)[i] = k[i]
  BY <1>1, <1>2
<1>4. \A i \in 1 .. Len(Append(k, x)) - 1 : Append(k, x)[i] \notin Reserved
  BY DEF Keys
<1>5. Len(k) \in 1 .. Len(Append(k, x)) - 1 /\ Len(k) \in 1 .. Len(k)
  BY <1>1, <1>3
<1> QED BY <1>3, <1>4, <1>5 DEF Plain

\* A key above another has a child on the way to it.
LEMMA ChildOnTheWay ==
  ASSUME NEW k \in Keys, NEW a \in Above(k)
  PROVE  \E c \in Above(k) \cup {k} : Len(c) > 1 /\ Parent(c) = a
<1> DEFINE n == Len(a)
           c == Prefix(k, n + 1)
<1>1. Len(k) \in Nat /\ n \in 1 .. Len(k) - 1 /\ a = Prefix(k, n)
  BY AboveIsClosed, LenProperties DEF Keys
<1> HIDE DEF n
<1>2. n + 1 \in 1 .. Len(k) /\ n \in 1 .. n + 1 /\ n + 1 > 1
  BY <1>1
<1>3. Len(c) = n + 1
  BY <1>2, Prefixes
<1>4. Prefix(c, n) = Prefix(k, n)
  BY <1>2, PrefixOfPrefix
<1>5. Parent(c) = a
  <2>1. Len(c) - 1 = n
    BY <1>1, <1>3
  <2> QED BY <1>1, <1>4, <2>1 DEF Parent
<1>6. c \in Above(k) \cup {k}
  <2>1. CASE n + 1 = Len(k)
    <3>1. Prefix(k, Len(k)) = k
      BY SubSeqFull DEF Prefix, Keys
    <3> QED BY <2>1, <3>1
  <2>2. CASE n + 1 # Len(k)
    <3>1. n + 1 \in 1 .. Len(k) - 1
      BY <1>1, <1>2, <2>2
    <3> QED BY <3>1 DEF Above
  <2> QED BY <2>1, <2>2
<1> QED BY <1>2, <1>3, <1>5, <1>6

\* The child that ValueOf makes.
LEMMA ValueIsChild ==
  ASSUME NEW k \in Keys, Plain(k)
  PROVE  /\ ValueOf(k) \in Keys /\ Len(ValueOf(k)) > 1 /\ Parent(ValueOf(k)) = k
         /\ Above(ValueOf(k)) = Above(k) \cup {k} /\ ~Plain(ValueOf(k))
         /\ Len(ValueOf(k)) >= Len(k)
         /\ ValueOf(k)[Len(ValueOf(k))] = "__value"
         /\ \A n \in 1 .. Len(k) : Prefix(ValueOf(k), n) = Prefix(k, n)
<1>1. "__value" \in Part /\ "__value" \in Reserved
  BY DEF Part, Reserved
<1>2. Len(k) \in Nat \ {0} /\ Len(ValueOf(k)) = Len(k) + 1
  BY <1>1, ChildKey DEF ValueOf
<1> QED BY <1>1, <1>2, ChildKey DEF ValueOf

\* A key that has a "__value" does not end in a name of the format.
LEMMA ValueNeedsPlain ==
  ASSUME NEW k \in Keys, ValueOf(k) \in Keys
  PROVE  Plain(k)
<1>1. "__value" \in Part
  BY DEF Part, Reserved
<1> QED BY <1>1, ParentIsPlain DEF ValueOf

-----------------------------------------------------------------------------
(* Nodes and trees. *)

\* What a validator allows is a value.
LEMMA AllowedIsHeld ==
  ASSUME NEW vd, IsValidator(vd), NEW w \in vd.allowed
  PROVE  w \in Held \ {NoValue}
<1>1. w \in Val /\ w.t \notin {"none", "null", "object"}
  BY DEF IsValidator
<1>2. NoValue.t = "none" /\ Null.t = "null" /\ Object.t = "object"
  BY DEF NoValue, Null, Object
<1> QED BY <1>1, <1>2 DEF Held

\* A validator answers a value that it allows.
LEMMA ValidateAnswers ==
  ASSUME Proper, NEW vd \in Validators \cup {NoValidator},
         NEW v \in Held \ {NoValue}, NEW w \in Validate(vd, v)
  PROVE  w \in Held \ {NoValue} /\ (vd # NoValidator => w \in vd.allowed)
<1>1. CASE vd = NoValidator
  BY <1>1 DEF Validate
<1>2. CASE vd # NoValidator
  <2>1. IsValidator(vd)
    BY <1>2 DEF Proper
  <2>2. (w = v /\ v \in vd.allowed) \/ w = vd.def
    BY <1>2 DEF Validate
  <2>3. w \in vd.allowed
    BY <2>1, <2>2 DEF IsValidator
  <2> QED BY <2>1, <2>3, AllowedIsHeld
<1> QED BY <1>1, <1>2

\* A node on the way to a key, and the node of a key that may not be there.
LEMMA BlankNode ==
  /\ Blank \in NodeType /\ Blank.validator = NoValidator /\ ~Blank.nonSerializable
  /\ Blank.callbacks = 0 /\ NoValue \in Val /\ Null \in Val /\ Object \in Val
  /\ Null # Object /\ NoValue \in Held /\ Blank.value = NoValue
<1>1. NoValue \in Val
  BY DEF NoValue, Val, Types
<1>2. Null \in Val
  BY DEF Null, Val, Types
<1>3. Object \in Val
  BY DEF Object, Val, Types
<1>4. Null.t # Object.t
  BY DEF Null, Object
<1>5. NoValue \in Val /\ Null \in Val /\ Object \in Val /\ Null # Object
  BY <1>1, <1>2, <1>3, <1>4
<1>7. NoValue \in Held
  <2>1. NoValue.t # Null.t /\ NoValue.t # Object.t
    BY DEF NoValue, Null, Object
  <2> QED BY <1>5, <2>1 DEF Held
<1>8. Blank \in NodeType
  BY <1>7 DEF Blank, NodeType
<1>9. /\ Blank.validator = NoValidator /\ ~Blank.nonSerializable
      /\ Blank.callbacks = 0 /\ Blank.value = NoValue
  BY DEF Blank
<1> QED BY <1>5, <1>7, <1>8, <1>9

\* The node at a key, or the blank one where there is none, has its type.
LEMMA AnyNode ==
  ASSUME NEW tree, TreeInv(tree), NEW k
  PROVE  /\ NodeAt(tree, k) \in NodeType
         /\ Fits(k, NodeAt(tree, k))
         /\ k \notin DOMAIN tree => NodeAt(tree, k).value = NoValue
         /\ k \notin DOMAIN tree => NodeAt(tree, k).validator = NoValidator
         /\ k \notin DOMAIN tree => ~NodeAt(tree, k).nonSerializable
<1>1. CASE k \in DOMAIN tree
  BY <1>1 DEF NodeAt, TreeInv, IsTree
<1>2. CASE k \notin DOMAIN tree
  BY <1>2, BlankNode DEF NodeAt, Fits
<1> QED BY <1>1, <1>2

\* How a tree may change: nodes are added, and each node keeps its value, or has
\* one that its validator allows, or has no validator, or has children; a key
\* that has no value had none, and its "__value" stayed, or has none now.
LEMMA GrownTree ==
  ASSUME NEW tree, TreeInv(tree), NEW new,
         new \in [DOMAIN new -> NodeType], Closed(DOMAIN new),
         DOMAIN tree \subseteq DOMAIN new,
         \A k \in DOMAIN new : Fits(k, new[k]),
         \A k \in DOMAIN new :
           ValueOf(k) \in DOMAIN new /\ new[k].value = NoValue =>
             \/ new[ValueOf(k)].value = NoValue
             \/ /\ NodeAt(tree, k).value = NoValue
                /\ new[ValueOf(k)].value = NodeAt(tree, ValueOf(k)).value,
         \A k \in DOMAIN new :
           \/ /\ k \in DOMAIN tree
              /\ new[k].validator = tree[k].validator /\ new[k].value = tree[k].value
           \/ new[k].validator = NoValidator
           \/ new[k].value \in new[k].validator.allowed
           \/ HasChildren(new, k)
  PROVE  TreeInv(new)
<1>1. \A k : HasChildren(tree, k) => HasChildren(new, k)
  BY DEF HasChildren
<1>2. Usable(new)
  BY <1>1 DEF Usable, TreeInv
<1>3. ASSUME NEW k \in DOMAIN new, ValueOf(k) \in DOMAIN new, NodeAt(tree, k).value = NoValue
      PROVE  NodeAt(tree, ValueOf(k)).value = NoValue
  <2>1. CASE ValueOf(k) \notin DOMAIN tree
    BY <2>1, AnyNode
  <2>2. CASE ValueOf(k) \in DOMAIN tree
    <3>1. k \in Keys /\ ValueOf(k) \in Keys /\ Above(ValueOf(k)) \subseteq DOMAIN tree
      BY <1>3, <2>2 DEF Closed, TreeInv, IsTree
    <3>2. k \in Above(ValueOf(k))
      BY <3>1, ValueNeedsPlain, ValueIsChild
    <3> QED BY <1>3, <2>2, <3>1, <3>2 DEF NodeAt, TreeInv, IsTree, Agree
  <2> QED BY <2>1, <2>2
<1>4. Agree(new)
  BY <1>3 DEF Agree
<1> QED BY <1>2, <1>4 DEF TreeInv, IsTree

\* A change of one registered key leaves every "__value" alone.
LEMMA PlainChange ==
  ASSUME NEW tree, NEW new, Closed(DOMAIN new), NEW key, Plain(key),
         \A k \in DOMAIN new : k # key => new[k].value = NodeAt(tree, k).value,
         key \in DOMAIN new =>
           (new[key].value = NoValue => NodeAt(tree, key).value = NoValue)
  PROVE  \A k \in DOMAIN new :
           ValueOf(k) \in DOMAIN new /\ new[k].value = NoValue =>
             /\ NodeAt(tree, k).value = NoValue
             /\ new[ValueOf(k)].value = NodeAt(tree, ValueOf(k)).value
<1> SUFFICES ASSUME NEW k \in DOMAIN new, ValueOf(k) \in DOMAIN new, new[k].value = NoValue
             PROVE  /\ NodeAt(tree, k).value = NoValue
                    /\ new[ValueOf(k)].value = NodeAt(tree, ValueOf(k)).value
  OBVIOUS
<1>1. k \in Keys /\ ValueOf(k) \in Keys
  BY DEF Closed
<1>2. ~Plain(ValueOf(k))
  BY <1>1, ValueNeedsPlain, ValueIsChild
<1>3. ValueOf(k) # key
  BY <1>2
<1> QED BY <1>3

\* The same when the keys stay the same.
LEMMA SameKeys ==
  ASSUME NEW tree, TreeInv(tree), NEW new,
         new \in [DOMAIN tree -> NodeType],
         \A k \in DOMAIN tree : Fits(k, new[k]),
         \A k \in DOMAIN tree :
           ValueOf(k) \in DOMAIN tree /\ new[k].value = NoValue =>
             \/ new[ValueOf(k)].value = NoValue
             \/ /\ NodeAt(tree, k).value = NoValue
                /\ new[ValueOf(k)].value = NodeAt(tree, ValueOf(k)).value,
         \A k \in DOMAIN tree :
           \/ new[k].validator = tree[k].validator /\ new[k].value = tree[k].value
           \/ new[k].validator = NoValidator
           \/ new[k].value \in new[k].validator.allowed
  PROVE  TreeInv(new)
<1>1. DOMAIN new = DOMAIN tree
  OBVIOUS
<1>2. new \in [DOMAIN new -> NodeType] /\ Closed(DOMAIN new)
  BY <1>1 DEF TreeInv, IsTree
<1> QED BY <1>1, <1>2, GrownTree

-----------------------------------------------------------------------------
(* The operations. *)

\* Register makes the node and those on the way to it, with the default.
LEMMA RegisterKeeps ==
  ASSUME Proper, TreeInv(nodes), NEW key \in Names, NEW vd \in Validators,
         Register(key, vd)
  PROVE  TreeInv(nodes)'
<1> DEFINE K == DOMAIN nodes \cup Above(key) \cup {key}
           old == NodeAt(nodes, key)
           n == [old EXCEPT !.validator = vd, !.value = vd.def,
                            !.nonSerializable = @ \/ vd.type = "function"]
<1>1. nodes' = [k \in K |-> IF k # key THEN NodeAt(nodes, k) ELSE n]
  BY DEF Register
<1>2. IsValidator(vd) /\ key \in Keys /\ Plain(key)
  BY DEF Proper
<1>3. old \in NodeType
  BY AnyNode
<1>4. vd.def \in Held \ {NoValue} /\ vd.def \in vd.allowed
  BY <1>2, AllowedIsHeld DEF IsValidator
<1> HIDE DEF old
<1>5. n \in NodeType
  <2>1. (old.nonSerializable \/ vd.type = "function") \in BOOLEAN
    OBVIOUS
  <2> QED BY <1>3, <1>4, <2>1 DEF NodeType
<1>6. n.validator = vd /\ n.value = vd.def
  BY <1>3 DEF NodeType
<1> HIDE DEF n
<1>8. Closed(K)
  <2>1. Closed(DOMAIN nodes)
    BY DEF TreeInv, IsTree
  <2>2. \A a \in Above(key) : a \in Keys /\ Above(a) \subseteq Above(key)
    BY <1>2, AboveIsClosed
  <2> QED BY <1>2, <2>1, <2>2 DEF Closed
<1> HIDE DEF K
<1>9. DOMAIN nodes' = K /\ DOMAIN nodes \subseteq K
      /\ \A k \in K : nodes'[k] = IF k # key THEN NodeAt(nodes, k) ELSE n
  BY <1>1 DEF K
<1>10. nodes' \in [DOMAIN nodes' -> NodeType]
  BY <1>1, <1>5, <1>9, AnyNode
<1>12. ASSUME NEW k \in DOMAIN nodes'
       PROVE  \/ /\ k \in DOMAIN nodes
                 /\ nodes'[k].validator = nodes[k].validator
                 /\ nodes'[k].value = nodes[k].value
              \/ nodes'[k].validator = NoValidator
              \/ nodes'[k].value \in nodes'[k].validator.allowed
  <2>1. CASE k = key
    BY <1>4, <1>6, <1>9, <2>1
  <2>2. CASE k # key /\ k \in DOMAIN nodes
    BY <1>9, <2>2 DEF NodeAt
  <2>3. CASE k # key /\ k \notin DOMAIN nodes
    BY <1>9, <2>3, AnyNode
  <2> QED BY <2>1, <2>2, <2>3
<1>13. Fits(key, n)
  BY <1>2, <1>4, <1>6 DEF Fits
<1>14. \A k \in DOMAIN nodes' : Fits(k, nodes'[k])
  BY <1>9, <1>13, AnyNode
<1>15. /\ \A k \in DOMAIN nodes' : k # key => nodes'[k].value = NodeAt(nodes, k).value
       /\ key \in DOMAIN nodes' => nodes'[key].value # NoValue
  BY <1>4, <1>6, <1>9
<1>16. \A k \in DOMAIN nodes' :
         ValueOf(k) \in DOMAIN nodes' /\ nodes'[k].value = NoValue =>
           /\ NodeAt(nodes, k).value = NoValue
           /\ nodes'[ValueOf(k)].value = NodeAt(nodes, ValueOf(k)).value
  BY <1>2, <1>8, <1>9, <1>15, PlainChange
<1> QED BY <1>8, <1>9, <1>10, <1>12, <1>14, <1>16, GrownTree

\* Set stores what the validator answers.
LEMMA SetKeeps ==
  ASSUME Proper, TreeInv(nodes), NEW key \in Names, NEW v \in Values, Set(key, v)
  PROVE  TreeInv(nodes)'
<1> DEFINE n == nodes[key]
<1>1. key \in DOMAIN nodes
  BY DEF Set, Has
<1>2. PICK final \in Validate(n.validator, v) :
        nodes' = [nodes EXCEPT ![key] = [n EXCEPT !.value = final]]
  BY DEF Set
<1>3. nodes \in [DOMAIN nodes -> NodeType]
  BY DEF TreeInv, IsTree
<1>4. n \in NodeType
  BY <1>1, <1>3
<1>5. n.validator \in Validators \cup {NoValidator}
  BY <1>4 DEF NodeType
<1>6. /\ final \in Held \ {NoValue} /\ final \in Val
      /\ n.validator # NoValidator => final \in n.validator.allowed
  BY <1>5, ValidateAnswers DEF Proper, Held
<1> DEFINE new == [n EXCEPT !.value = final]
<1>7. nodes' = [nodes EXCEPT ![key] = new]
  BY <1>2
<1> HIDE DEF n
<1>11. new \in NodeType
  BY <1>4, <1>6 DEF NodeType
<1>12. /\ new.value = final /\ new.validator = n.validator
       /\ new.nonSerializable = n.nonSerializable
  BY <1>4 DEF NodeType
<1> HIDE DEF new
<1>14. nodes' \in [DOMAIN nodes -> NodeType]
       /\ \A k \in DOMAIN nodes : nodes'[k] = IF k = key THEN new ELSE nodes[k]
  BY <1>3, <1>7, <1>11
<1>16. ASSUME NEW k \in DOMAIN nodes
       PROVE  \/ /\ nodes'[k].validator = nodes[k].validator
                 /\ nodes'[k].value = nodes[k].value
              \/ nodes'[k].validator = NoValidator
              \/ nodes'[k].value \in nodes'[k].validator.allowed
  BY <1>6, <1>12, <1>14
<1>17. Plain(key) /\ \A k \in DOMAIN nodes : Fits(k, nodes[k])
  BY DEF Proper, TreeInv, IsTree
<1>18. \A k \in DOMAIN nodes : Fits(k, nodes'[k])
  BY <1>6, <1>12, <1>14, <1>17 DEF Fits
<1>19. /\ \A k \in DOMAIN nodes : k # key => nodes'[k].value = NodeAt(nodes, k).value
       /\ nodes'[key].value # NoValue
  BY <1>1, <1>6, <1>12, <1>14 DEF NodeAt
<1>20. DOMAIN nodes' = DOMAIN nodes /\ Closed(DOMAIN nodes)
  BY <1>14 DEF TreeInv, IsTree
<1>21. \A k \in DOMAIN nodes :
         ValueOf(k) \in DOMAIN nodes /\ nodes'[k].value = NoValue =>
           /\ NodeAt(nodes, k).value = NoValue
           /\ nodes'[ValueOf(k)].value = NodeAt(nodes, ValueOf(k)).value
  BY <1>17, <1>19, <1>20, PlainChange
<1> QED BY <1>14, <1>16, <1>18, <1>21, SameKeys

\* NotifyChange adds a callback.
LEMMA NotifyChangeKeeps ==
  ASSUME TreeInv(nodes), NEW key \in Names, NotifyChange(key)
  PROVE  TreeInv(nodes)'
<1> DEFINE n == nodes[key]
           new == [n EXCEPT !.callbacks = @ + 1]
<1>1. key \in DOMAIN nodes
  BY DEF NotifyChange, Has
<1>2. nodes \in [DOMAIN nodes -> NodeType]
  BY DEF TreeInv, IsTree
<1>3. n \in NodeType /\ n.callbacks + 1 \in Nat
  BY <1>1, <1>2 DEF NodeType
<1>4. nodes' = [nodes EXCEPT ![key] = new]
  BY <1>1, <1>2 DEF NotifyChange, NodeType
<1> HIDE DEF n
<1>7. new \in NodeType
  BY <1>3 DEF NodeType
<1>8. /\ new.value = n.value
      /\ new.validator = n.validator /\ new.nonSerializable = n.nonSerializable
  BY <1>3 DEF NodeType
<1> HIDE DEF new
<1>10. nodes' \in [DOMAIN nodes -> NodeType]
       /\ \A k \in DOMAIN nodes : nodes'[k] = IF k = key THEN new ELSE nodes[k]
  BY <1>2, <1>4, <1>7
<1>12. \A k \in DOMAIN nodes : /\ nodes'[k].validator = nodes[k].validator
                               /\ nodes'[k].value = nodes[k].value
                               /\ nodes'[k].nonSerializable = nodes[k].nonSerializable
  BY <1>8, <1>10 DEF n
<1>13. \A k \in DOMAIN nodes : Fits(k, nodes'[k])
  BY <1>12 DEF TreeInv, IsTree, Fits
<1>14. \A k \in DOMAIN nodes : NodeAt(nodes, k) = nodes[k]
  BY DEF NodeAt
<1>15. \A k \in DOMAIN nodes :
         ValueOf(k) \in DOMAIN nodes /\ nodes'[k].value = NoValue =>
           /\ NodeAt(nodes, k).value = NoValue
           /\ nodes'[ValueOf(k)].value = NodeAt(nodes, ValueOf(k)).value
  BY <1>12, <1>14
<1> QED BY <1>10, <1>12, <1>13, <1>15, SameKeys

\* Reset gives every node its default.
LEMMA ResetKeeps ==
  ASSUME Proper, TreeInv(nodes), Reset
  PROVE  TreeInv(nodes)'
<1> DEFINE def(k) == IF nodes[k].validator = NoValidator THEN NoValue
                     ELSE nodes[k].validator.def
<1>1. nodes' = [k \in DOMAIN nodes |-> [nodes[k] EXCEPT !.value = def(k)]]
  BY DEF Reset, Defaults
<1>2. ASSUME NEW k \in DOMAIN nodes
      PROVE  /\ nodes'[k] \in NodeType
             /\ Fits(k, nodes'[k]) /\ (~Plain(k) => nodes'[k].value = NoValue)
             /\ \/ nodes'[k].validator = NoValidator
                \/ nodes'[k].value \in nodes'[k].validator.allowed
  <2> DEFINE n == nodes[k]
             new == [n EXCEPT !.value = def(k)]
  <2>1. n \in NodeType /\ n.validator \in Validators \cup {NoValidator}
    BY DEF TreeInv, IsTree, NodeType
  <2>2. /\ def(k) \in Held
        /\ n.validator = NoValidator => def(k) = NoValue
        /\ n.validator # NoValidator => def(k) \in n.validator.allowed /\ def(k) # NoValue
    BY <2>1, BlankNode, AllowedIsHeld DEF Proper, IsValidator
  <2>3. nodes'[k] = new
    BY <1>1
  <2> HIDE DEF n, def
  <2>4. new \in NodeType
    BY <2>1, <2>2 DEF NodeType
  <2>5. /\ new.value = def(k) /\ new.validator = n.validator
        /\ new.nonSerializable = n.nonSerializable
    BY <2>1 DEF NodeType
  <2> HIDE DEF new
  <2>7. Fits(k, n)
    BY DEF TreeInv, IsTree, n
  <2>8. Fits(k, new) /\ (~Plain(k) => new.value = NoValue)
    BY <2>2, <2>5, <2>7 DEF Fits
  <2> QED BY <2>2, <2>3, <2>4, <2>5, <2>8
<1>3. nodes' \in [DOMAIN nodes -> NodeType]
  BY <1>1, <1>2
<1>4. ASSUME NEW k \in DOMAIN nodes, ValueOf(k) \in DOMAIN nodes
      PROVE  nodes'[ValueOf(k)].value = NoValue
  <2>1. k \in Keys /\ ValueOf(k) \in Keys
    BY <1>4 DEF TreeInv, IsTree, Closed
  <2>2. ~Plain(ValueOf(k))
    BY <2>1, ValueNeedsPlain, ValueIsChild
  <2> QED BY <1>2, <1>4, <2>2
<1> QED BY <1>2, <1>3, <1>4, SameKeys

-----------------------------------------------------------------------------
(* Import. *)

\* Storing entries of a document, where each has a value, and where an object
\* with a "__value" has a child in the tree that results.
LEMMA LoadedKeeps ==
  ASSUME Proper, NEW tree, TreeInv(tree), NEW doc, IsDocument(doc),
         NEW done, done \subseteq DOMAIN doc, NEW made,
         Closed(DOMAIN tree \cup done \cup made),
         \A k \in done : Above(k) \subseteq done,
         \A k \in done : doc[k] # Null /\ Entry(tree, doc, k) # {},
         \A k \in done : doc[k] = Object /\ ValueOf(k) \in DOMAIN doc =>
           \E c \in DOMAIN tree \cup done \cup made : Len(c) > 1 /\ Parent(c) = k
  PROVE  TreeInv(Loaded(tree, doc, done, made))
<1> DEFINE D == DOMAIN tree \cup done \cup made
           new == Loaded(tree, doc, done, made)
           val(k) == CHOOSE v \in Entry(tree, doc, k) : TRUE
           stored(k) == [NodeAt(tree, k) EXCEPT !.value = val(k)]
<1>1. DOMAIN new = D /\ \A k \in D : new[k] = IF k \in done THEN stored(k) ELSE NodeAt(tree, k)
  BY DEF Loaded
<1>2. \A k \in done : val(k) \in Entry(tree, doc, k)
  OBVIOUS
<1>3. DOMAIN tree \subseteq D /\ Closed(D)
  OBVIOUS
<1>4. \A k \in done : doc[k] = Object /\ ValueOf(k) \in DOMAIN doc => HasChildren(new, k)
  BY <1>1 DEF HasChildren
<1> HIDE DEF D, new, val, stored
<1>5. ASSUME NEW k \in done
      PROVE  /\ val(k) \in Held
             /\ val(k) = NoValue => NodeAt(tree, k).value = NoValue
             /\ \/ val(k) = NodeAt(tree, k).value
                \/ NodeAt(tree, k).validator = NoValidator
                \/ val(k) \in NodeAt(tree, k).validator.allowed
                \/ HasChildren(new, k)
  <2> DEFINE n == NodeAt(tree, k)
  <2>1. n \in NodeType
    BY AnyNode
  <2>2. n.value \in Held /\ n.validator \in Validators \cup {NoValidator}
    BY <2>1 DEF NodeType
  <2>3. val(k) \in Entry(tree, doc, k)
    BY <1>2
  <2>4. \A j \in DOMAIN doc : doc[j] \notin {Null, Object} => doc[j] \in Held \ {NoValue}
    BY DEF IsDocument, Held
  <2>5. CASE doc[k] # Object
    <3>1. val(k) \in Validate(n.validator, doc[k])
      BY <2>3, <2>5 DEF Entry
    <3>2. doc[k] \in Held \ {NoValue}
      BY <2>4, <2>5
    <3> HIDE DEF n
    <3>3. /\ val(k) \in Held \ {NoValue}
          /\ n.validator # NoValidator => val(k) \in n.validator.allowed
      BY <2>2, <3>1, <3>2, ValidateAnswers
    <3> QED BY <3>3 DEF n
  <2>6. CASE doc[k] = Object /\ ValueOf(k) \in DOMAIN doc
    <3>1. \/ val(k) = doc[ValueOf(k)] /\ doc[ValueOf(k)] \notin {Null, Object}
          \/ val(k) = n.value
      BY <2>3, <2>6 DEF Entry
    <3> QED BY <1>4, <2>2, <2>4, <2>6, <3>1
  <2>7. CASE doc[k] = Object /\ ValueOf(k) \notin DOMAIN doc
    <3>1. val(k) = n.value
      BY <2>3, <2>7 DEF Entry
    <3> QED BY <2>2, <3>1
  <2> QED BY <2>5, <2>6, <2>7
<1>6. ASSUME NEW k \in done
      PROVE  /\ stored(k) \in NodeType /\ stored(k).value = val(k)
             /\ stored(k).validator = NodeAt(tree, k).validator
             /\ stored(k).nonSerializable = NodeAt(tree, k).nonSerializable
  <2> DEFINE n == NodeAt(tree, k)
  <2>1. n \in NodeType
    BY AnyNode
  <2>2. val(k) \in Held
    BY <1>5
  <2>3. stored(k) = [n EXCEPT !.value = val(k)]
    BY DEF stored
  <2> HIDE DEF n
  <2>4. stored(k) \in NodeType
    BY <2>1, <2>2, <2>3 DEF NodeType
  <2>5. /\ stored(k).value = val(k)
        /\ stored(k).validator = n.validator /\ stored(k).nonSerializable = n.nonSerializable
    BY <2>1, <2>3 DEF NodeType
  <2> QED BY <2>4, <2>5 DEF n
<1>8. ASSUME NEW k \in D
      PROVE  /\ new[k] \in NodeType
             /\ new[k].validator = NodeAt(tree, k).validator
             /\ new[k].nonSerializable = NodeAt(tree, k).nonSerializable
             /\ new[k].value = NoValue => NodeAt(tree, k).value = NoValue
             /\ \/ new[k].value = NodeAt(tree, k).value
                \/ NodeAt(tree, k).validator = NoValidator
                \/ new[k].value \in NodeAt(tree, k).validator.allowed
                \/ HasChildren(new, k)
  BY <1>1, <1>5, <1>6, AnyNode
<1>9. new \in [DOMAIN new -> NodeType]
  <2>1. new = [k \in D |-> new[k]]
    BY DEF new, D, Loaded
  <2> QED BY <1>1, <1>8, <2>1
<1>11. \A k \in DOMAIN new : Fits(k, new[k])
  BY <1>1, <1>8, AnyNode DEF Fits
<1>12. ASSUME NEW k \in DOMAIN new
       PROVE  \/ /\ k \in DOMAIN tree
                 /\ new[k].validator = tree[k].validator /\ new[k].value = tree[k].value
              \/ new[k].validator = NoValidator
              \/ new[k].value \in new[k].validator.allowed
              \/ HasChildren(new, k)
  <2>1. CASE k \in DOMAIN tree
    BY <1>1, <1>8, <2>1 DEF NodeAt
  <2>2. CASE k \notin DOMAIN tree
    BY <1>1, <1>8, <2>2, AnyNode
  <2> QED BY <2>1, <2>2
<1>13. ASSUME NEW k \in DOMAIN new, ValueOf(k) \in DOMAIN new, new[k].value = NoValue
       PROVE  /\ NodeAt(tree, k).value = NoValue
              /\ new[ValueOf(k)].value = NodeAt(tree, ValueOf(k)).value
  <2>1. NodeAt(tree, k).value = NoValue
    BY <1>1, <1>8, <1>13
  <2>2. k \in Keys /\ ValueOf(k) \in Keys
    BY <1>1, <1>3, <1>13 DEF Closed
  <2>3. k \in Above(ValueOf(k)) /\ ~Plain(ValueOf(k))
    BY <2>2, ValueNeedsPlain, ValueIsChild
  <2>4. CASE ValueOf(k) \notin done
    BY <1>1, <1>13, <2>1, <2>4
  <2>5. CASE ValueOf(k) \in done
    <3>1. k \in done /\ doc[k] = Object /\ ValueOf(k) \in DOMAIN doc
      BY <2>3, <2>5 DEF IsDocument
    <3>2. val(k) = NoValue
      BY <1>1, <1>6, <1>13, <3>1
    <3>3. val(k) \in Entry(tree, doc, k)
      BY <1>2, <3>1
    <3>4. doc[ValueOf(k)] # NoValue
      BY <3>1 DEF IsDocument
    <3>5. doc[ValueOf(k)] = Object
      BY <2>5, <3>1, <3>2, <3>3, <3>4 DEF Entry
    <3>6. ValueOf(ValueOf(k)) \notin DOMAIN doc
      BY <2>2, <2>3, ValueNeedsPlain DEF IsDocument, Closed
    <3>7. val(ValueOf(k)) = NodeAt(tree, ValueOf(k)).value
      BY <1>2, <2>5, <3>5, <3>6 DEF Entry
    <3>8. new[ValueOf(k)].value = val(ValueOf(k))
      BY <1>1, <1>6, <1>13, <2>5
    <3> QED BY <2>1, <3>7, <3>8
  <2> QED BY <2>4, <2>5
<1> QED BY <1>1, <1>3, <1>9, <1>11, <1>12, <1>13, GrownTree DEF new

\* What FromJson visits: with an entry all those above it, none of which it
\* rejects, and the "__value" of an entry, unless the tree has that key.
LEMMA VisitedEntries ==
  ASSUME NEW tree, TreeInv(tree), NEW doc, IsDocument(doc), NEW k \in Visited(tree, doc)
  PROVE  /\ k \in DOMAIN doc /\ k \in Keys
         /\ Above(k) \subseteq Visited(tree, doc) \ Rejected(tree, doc)
         /\ k \notin Rejected(tree, doc) => doc[k] # Null /\ Entry(tree, doc, k) # {}
         /\ ValueOf(k) \in DOMAIN doc =>
              /\ ValueOf(k) \in Visited(tree, doc) \cup DOMAIN tree
              /\ Plain(k)
<1>1. k \in DOMAIN doc /\ k \in Keys /\ Above(k) \subseteq DOMAIN doc
  BY DEF Visited, IsDocument, Closed
<1>2. \A a \in Above(k) \cup {k} : ~NodeAt(tree, a).nonSerializable
  BY DEF Visited
<1>3. ASSUME NEW a \in Above(k)
      PROVE  a \in Visited(tree, doc) \ Rejected(tree, doc)
  <2>1. Above(a) \subseteq Above(k)
    BY <1>1, AboveIsClosed
  <2>2. a \in Visited(tree, doc)
    BY <1>1, <1>2, <2>1 DEF Visited
  <2>3. doc[a] = Object
    BY <1>1 DEF IsDocument
  <2> QED BY <2>2, <2>3, BlankNode DEF Rejected
<1>4. k \notin Rejected(tree, doc) => doc[k] # Null /\ Entry(tree, doc, k) # {}
  BY DEF Rejected, Entry
<1>5. ASSUME ValueOf(k) \in DOMAIN doc
      PROVE  ValueOf(k) \in Visited(tree, doc) \cup DOMAIN tree /\ Plain(k)
  <2>1. "__value" \in Part
    BY DEF Part, Reserved
  <2>2. Append(k, "__value") \in Keys
    BY <1>5 DEF IsDocument, Closed, ValueOf
  <2>3. Plain(k)
    BY <1>1, <2>1, <2>2, ParentIsPlain
  <2>4. Above(ValueOf(k)) = Above(k) \cup {k}
    BY <1>1, <2>1, <2>3, ChildKey DEF ValueOf
  <2>5. ValueOf(k) \notin DOMAIN tree => ~NodeAt(tree, ValueOf(k)).nonSerializable
    BY AnyNode
  <2>6. ValueOf(k) \notin DOMAIN tree => ValueOf(k) \in Visited(tree, doc)
    BY <1>2, <1>5, <2>4, <2>5 DEF Visited
  <2> QED BY <2>3, <2>6
<1> QED BY <1>1, <1>3, <1>4, <1>5

\* An import that accepts every entry.
LEMMA AcceptedKeeps ==
  ASSUME Proper, NEW tree, TreeInv(tree), NEW doc, IsDocument(doc),
         Rejected(tree, doc) = {}
  PROVE  TreeInv(Loaded(tree, doc, Visited(tree, doc), {}))
<1> DEFINE seen == Visited(tree, doc)
<1>1. seen \subseteq DOMAIN doc /\ \A k \in seen : k \in Keys /\ Above(k) \subseteq seen
  BY VisitedEntries
<1>2. Closed(DOMAIN tree \cup seen \cup {})
  BY <1>1 DEF TreeInv, IsTree, Closed
<1>3. \A k \in seen : doc[k] # Null /\ Entry(tree, doc, k) # {}
  BY VisitedEntries
<1>4. ASSUME NEW k \in seen, ValueOf(k) \in DOMAIN doc
      PROVE  \E c \in DOMAIN tree \cup seen \cup {} : Len(c) > 1 /\ Parent(c) = k
  <2>1. ValueOf(k) \in DOMAIN tree \cup seen /\ Plain(k) /\ k \in Keys
    BY <1>4, VisitedEntries
  <2> QED BY <2>1, ValueIsChild
<1> QED BY <1>1, <1>2, <1>3, <1>4, LoadedKeeps

\* The entries at and below a key s beside the way to f: with an entry all
\* those above it that are not on the way.
LEMMA BesideTheWay ==
  ASSUME NEW tree, TreeInv(tree), NEW doc, IsDocument(doc),
         NEW f \in Keys, NEW s \in Keys, Len(s) = 1 \/ Parent(s) \in Above(f),
         NEW k \in Visited(tree, doc), Len(k) >= Len(s), Prefix(k, Len(s)) = s,
         NEW a \in Above(k)
  PROVE  a \in Above(f) \/ (Len(a) >= Len(s) /\ Prefix(a, Len(s)) = s)
<1>1. k \in Keys /\ Len(k) \in Nat /\ Len(s) \in Nat \ {0}
  BY VisitedEntries, EmptySeq, LenProperties DEF Keys
<1>2. Len(a) \in 1 .. Len(k) - 1 /\ a = Prefix(k, Len(a))
  BY <1>1, AboveIsClosed
<1>3. Len(a) \in 1 .. Len(k) /\ Len(s) \in 1 .. Len(k)
  BY <1>1, <1>2
<1>4. CASE Len(a) >= Len(s)
  <2>1. Len(s) \in 1 .. Len(a)
    BY <1>1, <1>3, <1>4
  <2>2. Prefix(Prefix(k, Len(a)), Len(s)) = Prefix(k, Len(s))
    BY <1>1, <1>3, <2>1, PrefixOfPrefix
  <2> QED BY <1>2, <1>4, <2>2
<1>5. CASE Len(a) < Len(s)
  <2>1. /\ Len(a) \in 1 .. Len(s) /\ Len(s) - 1 \in 1 .. Len(s) /\ Len(s) # 1
        /\ Len(a) \in 1 .. Len(s) - 1
    <3>1. ASSUME NEW x \in Nat \ {0}, NEW y \in Nat \ {0}, x < y
          PROVE  x \in 1 .. y /\ y - 1 \in 1 .. y /\ y # 1 /\ x \in 1 .. y - 1
      BY <3>1
    <3>2. Len(a) \in Nat \ {0}
      BY <1>1, <1>3
    <3> QED BY <1>1, <1>5, <3>1, <3>2
  <2>2. Prefix(Prefix(k, Len(s)), Len(a)) = Prefix(k, Len(a))
    BY <1>1, <1>3, <2>1, PrefixOfPrefix
  <2>3. a = Prefix(s, Len(a))
    BY <1>2, <2>2
  <2>4. Parent(s) \in Above(f)
    BY <2>1
  <2>5. CASE Len(a) = Len(s) - 1
    BY <2>3, <2>4, <2>5 DEF Parent
  <2>6. CASE Len(a) # Len(s) - 1
    <3> DEFINE p == Parent(s)
    <3>1. p \in Keys /\ Len(p) = Len(s) - 1 /\ p = Prefix(s, Len(s) - 1)
      BY <2>1, Prefixes DEF Parent
    <3>2. Prefix(p, Len(a)) = Prefix(s, Len(a))
      BY <2>1, <3>1, PrefixOfPrefix
    <3> HIDE DEF p
    <3>3. Len(a) \in 1 .. Len(p) - 1
      BY <1>1, <2>1, <2>6, <3>1
    <3>4. a \in Above(p)
      BY <2>3, <3>2, <3>3 DEF Above
    <3> QED BY <2>4, <3>4, AboveIsClosed DEF p
  <2> QED BY <2>5, <2>6
<1>6. Len(a) \in Nat
  BY <1>1, <1>3
<1> QED BY <1>1, <1>4, <1>5, <1>6

\* An import that throws at the entry f.
LEMMA FailedKeeps ==
  ASSUME Proper, NEW tree, TreeInv(tree), NEW doc, IsDocument(doc),
         NEW f \in Rejected(tree, doc), NEW done \in DoneBefore(tree, doc, f)
  PROVE  TreeInv(Loaded(tree, doc, done, {f}))
<1> DEFINE seen == Visited(tree, doc)
           below(s) == {k \in seen : Len(k) >= Len(s) /\ Prefix(k, Len(s)) = s}
           beside == {s \in seen : /\ s \notin Above(f) \cup {f}
                                   /\ Len(s) = 1 \/ Parent(s) \in Above(f)
                                   /\ below(s) \cap Rejected(tree, doc) = {}}
<1>1. PICK S \in SUBSET beside : done = Above(f) \cup UNION {below(s) : s \in S}
  BY DEF DoneBefore
<1>2. f \in seen
  BY DEF Rejected
<1>3. \A k \in seen : k \in DOMAIN doc /\ k \in Keys /\ Above(k) \subseteq seen
  BY VisitedEntries
<1>4. \A s \in S : /\ s \in seen /\ (Len(s) = 1 \/ Parent(s) \in Above(f))
                   /\ below(s) \cap Rejected(tree, doc) = {}
  BY <1>1
<1>5. \A k \in done : k \in Above(f) \/ \E s \in S : k \in below(s)
  BY <1>1
<1>6. Above(f) \subseteq done /\ \A s \in S : below(s) \subseteq done
  BY <1>1
<1>7. \A s \in S : \A k \in below(s) : k \in seen /\ Len(k) >= Len(s) /\ Prefix(k, Len(s)) = s
  OBVIOUS
<1>8. \A s \in S : \A k \in seen : Len(k) >= Len(s) /\ Prefix(k, Len(s)) = s => k \in below(s)
  OBVIOUS
<1> HIDE DEF seen, below, beside
<1>9. done \subseteq seen
  BY <1>2, <1>3, <1>5, <1>7
<1>10. ASSUME NEW k \in done
       PROVE  Above(k) \subseteq done
  <2>1. CASE k \in Above(f)
    BY <1>2, <1>3, <1>6, <2>1, AboveIsClosed
  <2>2. ASSUME NEW s \in S, k \in below(s), NEW a \in Above(k)
        PROVE  a \in done
    <3>1. k \in Visited(tree, doc) /\ Len(k) >= Len(s) /\ Prefix(k, Len(s)) = s
      BY <1>7, <2>2 DEF seen
    <3>2. f \in Keys /\ s \in Keys /\ (Len(s) = 1 \/ Parent(s) \in Above(f))
      BY <1>2, <1>3, <1>4
    <3>3. a \in Above(f) \/ (Len(a) >= Len(s) /\ Prefix(a, Len(s)) = s)
      BY <3>1, <3>2, BesideTheWay
    <3>4. a \in seen
      BY <1>3, <1>7, <2>2
    <3> QED BY <1>6, <1>8, <3>3, <3>4
  <2> QED BY <1>5, <2>1, <2>2
<1>11. Closed(DOMAIN tree \cup done \cup {f})
  BY <1>2, <1>3, <1>6, <1>9, <1>10 DEF TreeInv, IsTree, Closed
<1>12. \A k \in done : doc[k] # Null /\ Entry(tree, doc, k) # {}
  <2>1. \A k \in Above(f) : k \notin Rejected(tree, doc)
    BY <1>2, VisitedEntries DEF seen
  <2>2. \A k \in done : k \notin Rejected(tree, doc)
    BY <1>4, <1>5, <2>1
  <2> QED BY <1>9, <2>2, VisitedEntries DEF seen
<1>13. ASSUME NEW k \in done, ValueOf(k) \in DOMAIN doc
       PROVE  \E c \in DOMAIN tree \cup done \cup {f} : Len(c) > 1 /\ Parent(c) = k
  <2>1. CASE k \in Above(f)
    <3>1. \E c \in Above(f) \cup {f} : Len(c) > 1 /\ Parent(c) = k
      BY <1>2, <1>3, <2>1, ChildOnTheWay
    <3> QED BY <1>6, <3>1
  <2>2. ASSUME NEW s \in S, k \in below(s)
        PROVE  \E c \in DOMAIN tree \cup done \cup {f} : Len(c) > 1 /\ Parent(c) = k
    <3>1. k \in Keys /\ Plain(k) /\ ValueOf(k) \in seen \cup DOMAIN tree
      BY <1>9, <1>13, VisitedEntries DEF seen
    <3>2. s \in Keys /\ Len(k) >= Len(s) /\ Prefix(k, Len(s)) = s
      BY <1>3, <1>4, <1>7, <2>2
    <3>3. Len(s) \in 1 .. Len(k) /\ Len(s) \in Nat /\ Len(k) \in Nat
      BY <3>1, <3>2, EmptySeq, LenProperties DEF Keys
    <3>4. /\ Len(ValueOf(k)) > 1 /\ Parent(ValueOf(k)) = k
          /\ Prefix(ValueOf(k), Len(s)) = s /\ Len(ValueOf(k)) >= Len(k)
          /\ ValueOf(k) \in Keys
      BY <3>1, <3>2, <3>3, ValueIsChild
    <3>5. Len(ValueOf(k)) >= Len(s)
      BY <3>2, <3>3, <3>4, LenProperties DEF Keys
    <3>6. ValueOf(k) \in done \cup DOMAIN tree
      BY <1>6, <1>8, <3>1, <3>4, <3>5
    <3> QED BY <3>4, <3>6
  <2> QED BY <1>5, <2>1, <2>2
<1>14. done \subseteq DOMAIN doc
  BY <1>3, <1>9
<1> QED BY <1>10, <1>11, <1>12, <1>13, <1>14, LoadedKeeps

-----------------------------------------------------------------------------
(* Export. *)

\* The entry of a key that is marked not serializable.
LEMMA MarkIsChild ==
  ASSUME NEW k \in Keys, Plain(k)
  PROVE  /\ MarkOf(k) \in Keys /\ Above(MarkOf(k)) = Above(k) \cup {k}
         /\ ~Plain(MarkOf(k))
         /\ MarkOf(k)[Len(MarkOf(k))] = "__non_serializable"
<1>1. "__non_serializable" \in Part /\ "__non_serializable" \in Reserved
  BY DEF Part, Reserved
<1> QED BY <1>1, ChildKey DEF MarkOf

\* What is written for a value is a value.
LEMMA WrittenValues ==
  ASSUME NEW v \in Val, v # NoValue
  PROVE  LeafOut(v) \in Val \ {NoValue} /\ InnerOut(v) \in Val \ {NoValue}
<1>1. v.t \in Types /\ v.v \in Int /\ "int" \in Types /\ "double" \in Types
  BY DEF Val, Types
<1>3. Truncated(v.v) \in Int /\ Rounded(v.v) \in Int
  BY <1>1 DEF Truncated, Rounded
<1>2. \A i \in Int : [t |-> "int", v |-> i] \in Val \ {NoValue}
  <2> SUFFICES ASSUME NEW i \in Int PROVE [t |-> "int", v |-> i] \in Val \ {NoValue}
    OBVIOUS
  <2>1. [t |-> "int", v |-> i] \in Val
    BY <1>1 DEF Val
  <2>2. [t |-> "int", v |-> i].t = "int" /\ NoValue.t = "none"
    BY DEF NoValue
  <2> QED BY <2>1, <2>2
<1>4. \A i \in Int : [t |-> "double", v |-> i] \in Val \ {NoValue}
  <2> SUFFICES ASSUME NEW i \in Int PROVE [t |-> "double", v |-> i] \in Val \ {NoValue}
    OBVIOUS
  <2>1. [t |-> "double", v |-> i] \in Val
    BY <1>1 DEF Val
  <2>2. [t |-> "double", v |-> i].t = "double" /\ NoValue.t = "none"
    BY DEF NoValue
  <2> QED BY <2>1, <2>2
<1> HIDE DEF Truncated, Rounded
<1> QED BY <1>1, <1>2, <1>3, <1>4 DEF LeafOut, InnerOut

\* A "__value" with no more decimals than are written is written as it is.
LEMMA InnerIsExact ==
  ASSUME NEW v \in Val, v.t # "bool", v.t = "double" => v.v % 2 = 0
  PROVE  InnerOut(v) = v
<1>1. v = [t |-> v.t, v |-> v.v]
  BY DEF Val
<1>2. v.t = "double" => Rounded(v.v) = v.v
  BY DEF Rounded
<1> QED BY <1>1, <1>2 DEF InnerOut

\* A key above another key of the tree has children.
LEMMA AboveHaveChildren ==
  ASSUME NEW tree, Closed(DOMAIN tree), NEW k \in DOMAIN tree, NEW a \in Above(k)
  PROVE  a \in DOMAIN tree /\ HasChildren(tree, a)
<1>1. k \in Keys /\ Above(k) \subseteq DOMAIN tree
  BY DEF Closed
<1>2. \E c \in Above(k) \cup {k} : Len(c) > 1 /\ Parent(c) = a
  BY <1>1, ChildOnTheWay
<1> QED BY <1>1, <1>2 DEF HasChildren

\* A key that has children does not end in a name of the format.
LEMMA ChildrenNeedPlain ==
  ASSUME NEW tree, Closed(DOMAIN tree), NEW k, HasChildren(tree, k)
  PROVE  Plain(k)
<1>1. PICK c \in DOMAIN tree : Len(c) > 1 /\ Parent(c) = k
  BY DEF HasChildren
<1>2. c \in Keys /\ Len(c) \in Nat
  BY LenProperties DEF Keys, Closed
<1>3. Len(c) - 1 \in 1 .. Len(c) - 1
  BY <1>1, <1>2
<1>4. k \in Above(c)
  BY <1>1, <1>3 DEF Parent, Above
<1> QED BY <1>2, <1>4, AboveIsClosed

\* The entries of an export: those of the format, and those of the nodes.
Opaque(tree) == {k \in DOMAIN tree : tree[k].nonSerializable}
ValueEntries(tree) == {ValueOf(i) : i \in InnerValues(tree)}
MarkEntries(tree) == {MarkOf(o) : o \in Opaque(tree)}
Own(tree, k) ==
  IF HasChildren(tree, k) \/ k \in Opaque(tree) THEN Object
  ELSE IF tree[k].value = NoValue THEN Null ELSE LeafOut(tree[k].value)

\* What ToJson writes at each of its keys.
LEMMA ExportEntries ==
  ASSUME NEW tree, TreeInv(tree)
  PROVE  /\ DOMAIN ToJson(tree) = DOMAIN tree \cup ValueEntries(tree) \cup MarkEntries(tree)
         /\ \A k \in MarkEntries(tree) :
              /\ ToJson(tree)[k] = [t |-> "string", v |-> 0]
              /\ k \in Keys /\ ~Plain(k) /\ k[Len(k)] = "__non_serializable"
              /\ \E o \in Opaque(tree) : Above(k) = Above(o) \cup {o}
         /\ \A k \in ValueEntries(tree) :
              /\ ToJson(tree)[k] = InnerOut(tree[Parent(k)].value)
              /\ k \in Keys /\ ~Plain(k) /\ k[Len(k)] = "__value"
              /\ Parent(k) \in InnerValues(tree)
              /\ Above(k) = Above(Parent(k)) \cup {Parent(k)}
         /\ \A k \in DOMAIN tree \ (ValueEntries(tree) \cup MarkEntries(tree)) :
              ToJson(tree)[k] = Own(tree, k)
<1> DEFINE opaque == Opaque(tree)
           inner == InnerValues(tree)
           V == ValueEntries(tree)
           M == MarkEntries(tree)
<1>1. DOMAIN tree \subseteq Keys /\ Closed(DOMAIN tree) /\ \A o \in opaque : Plain(o)
  BY DEF TreeInv, IsTree, Closed, Fits, Opaque
<1>2. \A i \in inner : i \in Keys /\ Plain(i)
  BY <1>1, ChildrenNeedPlain DEF InnerValues
<1>3. \A o \in opaque : o \in Keys /\ Plain(o)
  BY <1>1 DEF Opaque
<1>4. \A k \in V : \E i \in inner : k = ValueOf(i)
  BY DEF ValueEntries
<1>5. \A k \in M : \E o \in opaque : k = MarkOf(o)
  BY DEF MarkEntries
<1> HIDE DEF V, M, inner, opaque
<1>6. \A k \in V : /\ k \in Keys /\ ~Plain(k) /\ k[Len(k)] = "__value"
                   /\ Parent(k) \in inner /\ Above(k) = Above(Parent(k)) \cup {Parent(k)}
  BY <1>2, <1>4, ValueIsChild
<1>7. \A k \in M : /\ k \in Keys /\ ~Plain(k) /\ k[Len(k)] = "__non_serializable"
                   /\ \E o \in opaque : Above(k) = Above(o) \cup {o}
  BY <1>3, <1>5, MarkIsChild
<1>8. V \cap M = {}
  BY <1>6, <1>7
<1>9. /\ DOMAIN ToJson(tree) = DOMAIN tree \cup V \cup M
      /\ \A k \in M : ToJson(tree)[k] = [t |-> "string", v |-> 0]
      /\ \A k \in V : ToJson(tree)[k] = InnerOut(tree[Parent(k)].value)
      /\ \A k \in DOMAIN tree \ (V \cup M) : ToJson(tree)[k] = Own(tree, k)
  BY <1>8 DEF ToJson, V, M, ValueEntries, MarkEntries, Opaque, Own
<1> QED BY <1>6, <1>7, <1>9 DEF V, M, inner, opaque

\* What ToJson writes is a document, so that FromJson may be given it: the
\* entries of the format are never on the way to another.
LEMMA ExportIsDocument ==
  ASSUME NEW tree, TreeInv(tree)
  PROVE  IsDocument(ToJson(tree))
<1> DEFINE V == ValueEntries(tree)
           M == MarkEntries(tree)
           doc == ToJson(tree)
<1>1. /\ DOMAIN tree \subseteq Keys /\ Closed(DOMAIN tree)
      /\ \A k \in DOMAIN tree : Above(k) \subseteq DOMAIN tree
      /\ \A k \in DOMAIN tree : tree[k].value \in Val
  BY DEF TreeInv, IsTree, Closed, NodeType, Held
<1>2. /\ \A i \in InnerValues(tree) : /\ i \in DOMAIN tree /\ HasChildren(tree, i)
                                      /\ tree[i].value # NoValue
      /\ \A o \in Opaque(tree) : o \in DOMAIN tree
  BY DEF InnerValues, Opaque
<1>3. \A k \in DOMAIN tree : Own(tree, k) \in Val \ {NoValue}
  <2>1. Object \in Val \ {NoValue} /\ Null \in Val \ {NoValue}
    <3>1. Object.t # NoValue.t /\ Null.t # NoValue.t
      BY DEF NoValue, Null, Object
    <3> QED BY <3>1, BlankNode
  <2> QED BY <1>1, <2>1, WrittenValues DEF Own
<1>4. ASSUME NEW k \in DOMAIN doc PROVE k \in Keys /\ Above(k) \subseteq DOMAIN tree
  <2>1. CASE k \in DOMAIN tree
    BY <1>1, <2>1
  <2>2. CASE k \in V
    <3>1. /\ k \in Keys /\ Parent(k) \in InnerValues(tree)
          /\ Above(k) = Above(Parent(k)) \cup {Parent(k)}
      BY <2>2, ExportEntries
    <3> QED BY <1>1, <1>2, <3>1
  <2>3. CASE k \in M
    <3>1. k \in Keys /\ \E o \in Opaque(tree) : Above(k) = Above(o) \cup {o}
      BY <2>3, ExportEntries
    <3> QED BY <1>1, <1>2, <3>1
  <2> QED BY <2>1, <2>2, <2>3, ExportEntries
<1>5. Closed(DOMAIN doc)
  BY <1>4, ExportEntries DEF Closed
<1>6. ASSUME NEW k \in DOMAIN doc PROVE doc[k] \in Val \ {NoValue}
  <2>1. CASE k \in M
    <3>1. [t |-> "string", v |-> 0] \in Val
      BY DEF Val, Types
    <3>2. [t |-> "string", v |-> 0].t = "string" /\ NoValue.t = "none"
      BY DEF NoValue
    <3>3. [t |-> "string", v |-> 0] \in Val \ {NoValue}
      BY <3>1, <3>2
    <3> QED BY <2>1, <3>3, ExportEntries
  <2>2. CASE k \in V
    <3>1. Parent(k) \in InnerValues(tree) /\ doc[k] = InnerOut(tree[Parent(k)].value)
      BY <2>2, ExportEntries
    <3>2. tree[Parent(k)].value \in Val /\ tree[Parent(k)].value # NoValue
      BY <1>1, <1>2, <3>1
    <3> QED BY <3>1, <3>2, WrittenValues
  <2>3. CASE k \in DOMAIN tree \ (V \cup M)
    BY <1>3, <2>3, ExportEntries
  <2> QED BY <2>1, <2>2, <2>3, ExportEntries
<1>7. ASSUME NEW k \in DOMAIN doc, NEW a \in Above(k) PROVE doc[a] = Object
  <2>1. a \in DOMAIN tree /\ Plain(a)
    BY <1>4, AboveIsClosed
  <2>2. doc[a] = Own(tree, a)
    BY <2>1, ExportEntries
  <2>3. HasChildren(tree, a) \/ a \in Opaque(tree)
    <3>1. CASE k \in DOMAIN tree
      BY <1>1, <3>1, AboveHaveChildren
    <3>2. CASE k \in V
      <4>1. Parent(k) \in InnerValues(tree) /\ a \in Above(Parent(k)) \cup {Parent(k)}
        BY <3>2, ExportEntries
      <4> QED BY <1>1, <1>2, <4>1, AboveHaveChildren
    <3>3. CASE k \in M
      <4>1. PICK o \in Opaque(tree) : Above(k) = Above(o) \cup {o}
        BY <3>3, ExportEntries
      <4> QED BY <1>1, <1>2, <4>1, AboveHaveChildren
    <3> QED BY <3>1, <3>2, <3>3, ExportEntries
  <2> QED BY <2>2, <2>3 DEF Own
<1> QED BY <1>5, <1>6, <1>7 DEF IsDocument

\* What Parser reads from the text of a document is one, cut strings included.
LEMMA ReadingIsDocument ==
  ASSUME NEW doc, IsDocument(doc), NEW read \in Readings(doc)
  PROVE  IsDocument(read)
<1>1. CASE read = doc
  BY <1>1
<1>2. CASE read # doc
  <2>1. PICK cut \in SUBSET StringsOf(doc, LikeSyntax) :
          read = [k \in DOMAIN doc |-> IF k \in cut THEN Garbled ELSE doc[k]]
    BY <1>2 DEF Readings
  <2>2. Garbled \in Val \ {NoValue}
    <3>1. Garbled \in Val
      BY DEF Garbled, Val, Types
    <3>2. Garbled.t = "string" /\ NoValue.t = "none"
      BY DEF Garbled, NoValue
    <3> QED BY <3>1, <3>2
  <2>3. \A k \in DOMAIN doc : k \in cut => doc[k] # Object
    <3>1. \A k \in cut : doc[k].t = "string"
      BY DEF StringsOf
    <3>2. Object.t = "object"
      BY DEF Object
    <3> QED BY <3>1, <3>2
  <2>4. DOMAIN read = DOMAIN doc
    BY <2>1
  <2> QED BY <2>1, <2>2, <2>3, <2>4 DEF IsDocument, Closed
<1> QED BY <1>1, <1>2

-----------------------------------------------------------------------------
(* The specification. *)

\* An import, of a document written by hand or of an export, keeps the
\* invariant, whichever entry it stops at.
LEMMA FromJsonKeeps ==
  ASSUME Proper, TreeInv(nodes), NEW doc \in Documents \cup Readings(ToJson(nodes)), FromJson(doc)
  PROVE  TreeInv(nodes)'
<1>1. IsDocument(doc)
  BY ExportIsDocument, ReadingIsDocument DEF Proper
<1>2. CASE Rejected(nodes, doc) = {}
  <2>1. nodes' = Loaded(nodes, doc, Visited(nodes, doc), {})
    BY <1>2 DEF FromJson
  <2> QED BY <1>1, <1>2, <2>1, AcceptedKeeps
<1>3. CASE Rejected(nodes, doc) # {}
  <2>1. PICK f \in Rejected(nodes, doc) : \E done \in DoneBefore(nodes, doc, f) :
          nodes' = Loaded(nodes, doc, done, {f})
    BY <1>3 DEF FromJson
  <2>2. PICK done \in DoneBefore(nodes, doc, f) : nodes' = Loaded(nodes, doc, done, {f})
    BY <2>1
  <2> QED BY <1>1, <2>2, FailedKeeps
<1> QED BY <1>2, <1>3

\* The invariant holds of the empty tree and is kept by every operation.
LEMMA TreeInvariant ==
  ASSUME Proper
  PROVE  ConfigSpec => []TreeInv(nodes)
<1>1. ConfigInit => TreeInv(nodes)
  <2> SUFFICES ASSUME ConfigInit PROVE TreeInv(nodes)
    OBVIOUS
  <2>1. DOMAIN nodes = {} /\ nodes = [k \in {} |-> Blank]
    BY DEF ConfigInit
  <2> QED BY <2>1 DEF TreeInv, IsTree, Closed, Usable, Agree
<1>2. TreeInv(nodes) /\ [ConfigNext]_nodes => TreeInv(nodes)'
  <2> SUFFICES ASSUME TreeInv(nodes), [ConfigNext]_nodes PROVE TreeInv(nodes)'
    OBVIOUS
  <2>1. ASSUME NEW key \in Names, NEW vd \in Validators, Register(key, vd)
        PROVE  TreeInv(nodes)'
    BY <2>1, RegisterKeeps
  <2>2. ASSUME NEW key \in Names, NEW v \in Values, Set(key, v)
        PROVE  TreeInv(nodes)'
    BY <2>2, SetKeeps
  <2>3. ASSUME NEW key \in Names, NotifyChange(key)
        PROVE  TreeInv(nodes)'
    BY <2>3, NotifyChangeKeeps
  <2>4. ASSUME NEW doc \in Documents \cup Readings(ToJson(nodes)), FromJson(doc)
        PROVE  TreeInv(nodes)'
    BY <2>4, FromJsonKeeps
  <2>5. CASE Reset
    BY <2>5, ResetKeeps
  <2>6. CASE UNCHANGED nodes
    BY <2>6
  <2> QED BY <2>1, <2>2, <2>3, <2>4, <2>5, <2>6 DEF ConfigNext
<1> QED BY <1>1, <1>2, PTL DEF ConfigSpec

\* A registered key without children can be read: Get answers a value of the
\* validator's type that the validator allows, although FromJson stores a
\* "__value" without asking the validator and may stop half way.
THEOREM ConfigRegisteredIsUsable ==
  ASSUME Proper
  PROVE  ConfigSpec => []RegisteredIsUsable
<1>1. ASSUME TreeInv(nodes) PROVE RegisteredIsUsable
  <2> SUFFICES ASSUME NEW k \in DOMAIN nodes, nodes[k].validator # NoValidator,
                      ~HasChildren(nodes, k)
               PROVE  Get(k, nodes[k].validator.type) \cap nodes[k].validator.allowed # {}
    BY DEF RegisteredIsUsable
  <2> DEFINE n == nodes[k]
  <2>1. n.value \in n.validator.allowed
    BY <1>1 DEF TreeInv, Usable
  <2>2. n.validator \in Validators
    BY <1>1 DEF TreeInv, IsTree, NodeType
  <2>3. n.value.t = n.validator.type /\ n.validator.type # "none"
    BY <2>1, <2>2 DEF Proper, IsValidator
  <2>4. NoValue.t = "none"
    BY DEF NoValue
  <2>5. n.value # NoValue
    BY <2>3, <2>4
  <2>6. NodeAt(nodes, k) = n
    BY DEF NodeAt
  <2> HIDE DEF n
  <2>7. Get(k, n.validator.type) = {n.value}
    BY <2>3, <2>5, <2>6 DEF Get
  <2> QED BY <2>1, <2>7 DEF n
<1> QED BY <1>1, TreeInvariant, PTL

-----------------------------------------------------------------------------
(* Saving and restoring. *)

\* A leaf that export and import carry is written as it is, and its validator
\* answers it unchanged.
LEMMA LeafIsCarried ==
  ASSUME Proper, TreeInv(nodes), Portable, NEW k \in DOMAIN nodes,
         ~HasChildren(nodes, k), ~nodes[k].nonSerializable
  PROVE  /\ Own(nodes, k) = nodes[k].value
         /\ Validate(nodes[k].validator, nodes[k].value) = {nodes[k].value}
<1> DEFINE n == nodes[k]
<1>1. n.value.t \notin {"none", "double"}
  BY DEF Portable
<1>2. NoValue.t = "none"
  BY DEF NoValue
<1>3. n.value # NoValue /\ LeafOut(n.value) = n.value
  BY <1>1, <1>2 DEF LeafOut
<1>4. Own(nodes, k) = n.value
  BY <1>3 DEF Own, Opaque
<1>5. n.validator # NoValidator => n.value \in n.validator.allowed
  BY DEF TreeInv, Usable
<1>6. n.validator \in Validators \cup {NoValidator}
  BY DEF TreeInv, IsTree, NodeType
<1>7. n.validator # NoValidator => n.value.t = n.validator.type
  BY <1>5, <1>6 DEF Proper, IsValidator
<1> HIDE DEF n
<1>8. Validate(n.validator, n.value) = {n.value}
  BY <1>5, <1>7 DEF Validate
<1> QED BY <1>4, <1>8 DEF n

\* The tree after Reset has the same keys, validators and marks.
LEMMA FreshTree ==
  ASSUME NEW tree, TreeInv(tree)
  PROVE  /\ DOMAIN Defaults(tree) = DOMAIN tree
         /\ \A k : /\ NodeAt(Defaults(tree), k).validator = NodeAt(tree, k).validator
                   /\ NodeAt(Defaults(tree), k).nonSerializable = NodeAt(tree, k).nonSerializable
         /\ \A k \in DOMAIN tree : tree[k].validator = NoValidator =>
              NodeAt(Defaults(tree), k).value = NoValue
<1> DEFINE fresh == Defaults(tree)
           def(k) == IF tree[k].validator = NoValidator THEN NoValue ELSE tree[k].validator.def
<1>1. fresh = [k \in DOMAIN tree |-> [tree[k] EXCEPT !.value = def(k)]]
  BY DEF Defaults
<1>2. ASSUME NEW k \in DOMAIN tree
      PROVE  /\ fresh[k].validator = tree[k].validator
             /\ fresh[k].nonSerializable = tree[k].nonSerializable
             /\ tree[k].validator = NoValidator => fresh[k].value = NoValue
  <2> DEFINE n == tree[k]
  <2>1. n \in NodeType
    BY DEF TreeInv, IsTree
  <2>2. fresh[k] = [n EXCEPT !.value = def(k)]
    BY <1>1
  <2>3. n.validator = NoValidator => def(k) = NoValue
    OBVIOUS
  <2> HIDE DEF n, def, fresh
  <2>4. /\ fresh[k].validator = n.validator /\ fresh[k].value = def(k)
        /\ fresh[k].nonSerializable = n.nonSerializable
    BY <2>1, <2>2 DEF NodeType
  <2> QED BY <2>3, <2>4 DEF n
<1>3. DOMAIN fresh = DOMAIN tree
  BY <1>1
<1> HIDE DEF fresh
<1>4. \A k : /\ NodeAt(fresh, k).validator = NodeAt(tree, k).validator
             /\ NodeAt(fresh, k).nonSerializable = NodeAt(tree, k).nonSerializable
  BY <1>2, <1>3 DEF NodeAt
<1>5. \A k \in DOMAIN tree : tree[k].validator = NoValidator =>
        NodeAt(fresh, k).value = NoValue
  BY <1>2, <1>3 DEF NodeAt
<1> QED BY <1>3, <1>4, <1>5 DEF fresh

\* An export that carries everything is accepted after Reset.
LEMMA ExportIsAccepted ==
  ASSUME Proper, TreeInv(nodes), Portable
  PROVE  Rejected(Defaults(nodes), ToJson(nodes)) = {}
<1> DEFINE doc == ToJson(nodes)
           fresh == Defaults(nodes)
           V == ValueEntries(nodes)
           M == MarkEntries(nodes)
<1> SUFFICES ASSUME NEW k \in Visited(fresh, doc)
             PROVE  /\ doc[k] # Null
                    /\ doc[k] = Object \/ Validate(NodeAt(fresh, k).validator, doc[k]) # {}
  BY DEF Rejected
<1>1. k \in DOMAIN doc /\ \A a \in Above(k) \cup {k} : ~NodeAt(nodes, a).nonSerializable
  BY FreshTree DEF Visited
<1>2. NodeAt(fresh, k).validator = NodeAt(nodes, k).validator
  BY FreshTree
<1>3. \A j \in DOMAIN nodes : nodes[j].value \notin {Null, Object} /\ NodeAt(nodes, j) = nodes[j]
  BY DEF TreeInv, IsTree, NodeType, Held, NodeAt
<1>4. k \notin M
  <2>1. ASSUME k \in M PROVE FALSE
    <3>1. PICK o \in Opaque(nodes) : Above(k) = Above(o) \cup {o}
      BY <2>1, ExportEntries
    <3>2. NodeAt(nodes, o).nonSerializable
      BY <1>3 DEF Opaque
    <3> QED BY <1>1, <3>1, <3>2
  <2> QED BY <2>1
<1>5. CASE k \in V
  <2>1. /\ doc[k] = InnerOut(nodes[Parent(k)].value) /\ ~Plain(k)
        /\ Parent(k) \in InnerValues(nodes)
    BY <1>5, ExportEntries
  <2>2. Parent(k) \in DOMAIN nodes /\ HasChildren(nodes, Parent(k))
    BY <2>1 DEF InnerValues
  <2>3. /\ nodes[Parent(k)].value.t # "bool" /\ nodes[Parent(k)].value \in Val
        /\ nodes[Parent(k)].value.t = "double" => nodes[Parent(k)].value.v % 2 = 0
    BY <2>2 DEF Portable, TreeInv, IsTree, NodeType, Held
  <2>4. doc[k] = nodes[Parent(k)].value
    BY <2>1, <2>3, InnerIsExact
  <2>5. NodeAt(nodes, k).validator = NoValidator
    BY <2>1, AnyNode DEF Fits
  <2>6. Validate(NoValidator, doc[k]) = {doc[k]}
    BY DEF Validate
  <2> QED BY <1>2, <1>3, <2>2, <2>4, <2>5, <2>6
<1>6. CASE k \in DOMAIN nodes \ (V \cup M)
  <2>1. doc[k] = Own(nodes, k)
    BY <1>6, ExportEntries
  <2>2. CASE HasChildren(nodes, k)
    BY <2>1, <2>2, BlankNode DEF Own
  <2>3. CASE ~HasChildren(nodes, k)
    <3>1. ~nodes[k].nonSerializable
      BY <1>1, <1>3, <1>6
    <3>2. /\ Own(nodes, k) = nodes[k].value
          /\ Validate(nodes[k].validator, nodes[k].value) = {nodes[k].value}
      BY <1>6, <2>3, <3>1, LeafIsCarried
    <3> QED BY <1>2, <1>3, <1>6, <2>1, <3>2
  <2> QED BY <2>2, <2>3
<1> QED BY <1>1, <1>4, <1>5, <1>6, ExportEntries

\* The "__value" of a key with children is written exactly when it has a value.
LEMMA InnerIsCarried ==
  ASSUME TreeInv(nodes), Portable, NEW k \in DOMAIN nodes, HasChildren(nodes, k)
  PROVE  /\ nodes[k].value # NoValue =>
              /\ ValueOf(k) \in DOMAIN ToJson(nodes)
              /\ ToJson(nodes)[ValueOf(k)] = nodes[k].value
         /\ nodes[k].value = NoValue => ValueOf(k) \notin DOMAIN ToJson(nodes)
<1>1. Closed(DOMAIN nodes) /\ k \in Keys
  BY DEF TreeInv, IsTree, Closed
<1>2. Plain(k)
  BY <1>1, ChildrenNeedPlain
<1>3. Parent(ValueOf(k)) = k /\ ~Plain(ValueOf(k))
      /\ ValueOf(k)[Len(ValueOf(k))] = "__value"
  BY <1>1, <1>2, ValueIsChild
<1>4. /\ nodes[k].value.t # "bool" /\ ~nodes[k].nonSerializable /\ nodes[k].value \in Val
      /\ nodes[k].value.t = "double" => nodes[k].value.v % 2 = 0
  BY DEF Portable, TreeInv, IsTree, NodeType, Held
<1>5. InnerOut(nodes[k].value) = nodes[k].value
  BY <1>4, InnerIsExact
<1>6. ASSUME nodes[k].value # NoValue
      PROVE  /\ ValueOf(k) \in DOMAIN ToJson(nodes)
             /\ ToJson(nodes)[ValueOf(k)] = nodes[k].value
  <2>1. ValueOf(k) \in ValueEntries(nodes)
    BY <1>4, <1>6 DEF ValueEntries, InnerValues
  <2>2. /\ ValueOf(k) \in DOMAIN ToJson(nodes)
        /\ ToJson(nodes)[ValueOf(k)] = InnerOut(nodes[Parent(ValueOf(k))].value)
    BY <2>1, ExportEntries
  <2> QED BY <1>3, <1>5, <2>2
<1>7. ASSUME nodes[k].value = NoValue
      PROVE  ValueOf(k) \notin DOMAIN ToJson(nodes)
  <2>1. ValueOf(k) \notin ValueEntries(nodes)
    BY <1>3, <1>7, ExportEntries DEF InnerValues
  <2>2. ValueOf(k) \notin MarkEntries(nodes)
    BY <1>3, ExportEntries
  <2>3. ASSUME ValueOf(k) \in DOMAIN nodes PROVE FALSE
    <3>1. nodes[ValueOf(k)].value = NoValue
      BY <1>7, <2>3 DEF TreeInv, IsTree, Agree
    <3>2. ~HasChildren(nodes, ValueOf(k))
      BY <1>1, <1>3, ChildrenNeedPlain
    <3>3. NoValue.t = "none"
      BY DEF NoValue
    <3> QED BY <2>3, <3>1, <3>2, <3>3 DEF Portable
  <2> QED BY <2>1, <2>2, <2>3, ExportEntries
<1> QED BY <1>6, <1>7

\* What the import leaves in a node that was saved.
LEMMA EntryIsSaved ==
  ASSUME Proper, TreeInv(nodes), Portable, NEW k \in DOMAIN nodes,
         ~nodes[k].nonSerializable, k[Len(k)] # "__value"
  PROVE  /\ k \in Visited(Defaults(nodes), ToJson(nodes))
         /\ Entry(Defaults(nodes), ToJson(nodes), k) = {nodes[k].value}
<1> DEFINE doc == ToJson(nodes)
           fresh == Defaults(nodes)
<1>1. /\ Closed(DOMAIN nodes) /\ k \in DOMAIN doc
      /\ nodes[k].value \notin {Null, Object} /\ NodeAt(nodes, k) = nodes[k]
  BY ExportEntries DEF TreeInv, IsTree, NodeType, Held, NodeAt
<1>2. \A a \in Above(k) : a \in DOMAIN nodes /\ HasChildren(nodes, a)
  BY <1>1, AboveHaveChildren
<1>3. \A a \in Above(k) : ~nodes[a].nonSerializable
  BY <1>2 DEF Portable
<1>4. \A a \in Above(k) \cup {k} : ~NodeAt(nodes, a).nonSerializable
  BY <1>2, <1>3 DEF NodeAt
<1>5. k \in Visited(fresh, doc)
  BY <1>1, <1>4, FreshTree DEF Visited
<1>6. k \notin ValueEntries(nodes)
  BY ExportEntries
<1>7. k \notin MarkEntries(nodes)
  <2>1. ASSUME k \in MarkEntries(nodes) PROVE FALSE
    <3>1. TreeInv(nodes) => \A m \in MarkEntries(nodes) :
            \E o \in Opaque(nodes) : Above(m) = Above(o) \cup {o}
      BY ExportEntries
    <3>2. PICK o \in Opaque(nodes) : Above(k) = Above(o) \cup {o}
      BY <2>1, <3>1
    <3>3. o \in Above(k)
      BY <3>2
    <3> QED BY <1>3, <3>3 DEF Opaque
  <2> QED BY <2>1
<1>8. doc[k] = Own(nodes, k)
  BY <1>6, <1>7, ExportEntries
<1>9. NodeAt(fresh, k).validator = nodes[k].validator
  BY <1>1, FreshTree
<1>10. CASE ~HasChildren(nodes, k)
  <2>1. /\ Own(nodes, k) = nodes[k].value
        /\ Validate(nodes[k].validator, nodes[k].value) = {nodes[k].value}
    BY <1>10, LeafIsCarried
  <2>2. Entry(fresh, doc, k) = {nodes[k].value}
    BY <1>1, <1>8, <1>9, <2>1 DEF Entry
  <2> QED BY <1>5, <2>2
<1>11. CASE HasChildren(nodes, k)
  <2>1. doc[k] = Object
    BY <1>8, <1>11 DEF Own
  <2>2. CASE nodes[k].value # NoValue
    <3>1. ValueOf(k) \in DOMAIN doc /\ doc[ValueOf(k)] = nodes[k].value
      BY <1>11, <2>2, InnerIsCarried
    <3>2. Entry(fresh, doc, k) = {nodes[k].value}
      BY <1>1, <2>1, <3>1 DEF Entry
    <3> QED BY <1>5, <3>2
  <2>3. CASE nodes[k].value = NoValue
    <3>1. ValueOf(k) \notin DOMAIN doc
      BY <1>11, <2>3, InnerIsCarried
    <3>2. nodes[k].validator = NoValidator
      BY <2>3 DEF TreeInv, IsTree, Fits
    <3>3. NodeAt(fresh, k).value = NoValue
      BY <3>2, FreshTree
    <3>4. Entry(fresh, doc, k) = {NoValue}
      BY <2>1, <3>1, <3>3 DEF Entry
    <3> QED BY <1>5, <2>3, <3>4
  <2> QED BY <2>2, <2>3
<1> QED BY <1>10, <1>11

\* A string of an export is the value of some key, or a mark.
LEMMA ExportedStrings ==
  ASSUME Proper, TreeInv(nodes), NEW S, 0 \notin S,
         \A k \in DOMAIN nodes : ~Holds(nodes[k], S)
  PROVE  StringsOf(ToJson(nodes), S) = {}
<1> DEFINE doc == ToJson(nodes)
           V == ValueEntries(nodes)
           M == MarkEntries(nodes)
<1> SUFFICES ASSUME NEW k \in DOMAIN doc, doc[k].t = "string", doc[k].v \in S
             PROVE  FALSE
  BY DEF StringsOf
<1>1. CASE k \in M
  <2>1. doc[k] = [t |-> "string", v |-> 0]
    BY <1>1, ExportEntries
  <2>2. doc[k].v = 0
    BY <2>1
  <2> QED BY <2>2
<1>2. CASE k \in V
  <2>1. doc[k] = InnerOut(nodes[Parent(k)].value) /\ Parent(k) \in InnerValues(nodes)
    BY <1>2, ExportEntries
  <2>2. Parent(k) \in DOMAIN nodes
    BY <2>1 DEF InnerValues
  <2>3. doc[k] = nodes[Parent(k)].value
    BY <2>1 DEF InnerOut
  <2> QED BY <2>2, <2>3 DEF Holds
<1>3. CASE k \in DOMAIN nodes \ (V \cup M)
  <2>1. doc[k] = Own(nodes, k)
    BY <1>3, ExportEntries
  <2>2. Object.t # "string" /\ Null.t # "string"
    BY DEF Object, Null
  <2>3. doc[k] = LeafOut(nodes[k].value)
    BY <2>1, <2>2 DEF Own
  <2>4. doc[k] = nodes[k].value
    BY <2>3 DEF LeafOut
  <2> QED BY <1>3, <2>4 DEF Holds
<1> QED BY <1>1, <1>2, <1>3, ExportEntries

\* Importing after a Reset the text that was exported before restores the
\* configuration, in any state that export and import can carry: no entry is
\* refused and every key has its value again.
THEOREM ConfigSavedIsRestored ==
  ASSUME Proper
  PROVE  ConfigSpec => []SavedIsRestored
<1>1. ASSUME TreeInv(nodes) PROVE SavedIsRestored
  <2> DEFINE doc == ToJson(nodes)
             fresh == Defaults(nodes)
             loaded == Loaded(fresh, doc, Visited(fresh, doc), {})
             restored == /\ Rejected(fresh, doc) = {}
                         /\ \A k \in DOMAIN nodes :
                              nodes[k].nonSerializable \/ k[Len(k)] = "__value"
                                \/ loaded[k].value = nodes[k].value
  <2>1. SUFFICES ASSUME Portable PROVE Readings(doc) = {doc} /\ restored
    BY DEF SavedIsRestored
  <2>2. Rejected(fresh, doc) = {}
    BY <1>1, <2>1, ExportIsAccepted
  <2>3. Readings(doc) = {doc}
    <3>1. 0 \notin EscapedEnd /\ 0 \notin LikeSyntax
      BY DEF Proper
    <3>2. StringsOf(doc, EscapedEnd) = {} \/ StringsOf(doc, LikeSyntax) = {}
      BY <1>1, <2>1, <3>1, ExportedStrings DEF Portable
    <3> QED BY <3>2 DEF Readings
  <2>4. ASSUME NEW k \in DOMAIN nodes, ~nodes[k].nonSerializable, k[Len(k)] # "__value"
        PROVE  loaded[k].value = nodes[k].value
    <3> DEFINE n == NodeAt(fresh, k)
    <3>1. k \in Visited(fresh, doc) /\ Entry(fresh, doc, k) = {nodes[k].value}
      BY <1>1, <2>1, <2>4, EntryIsSaved
    <3>2. (CHOOSE v \in Entry(fresh, doc, k) : TRUE) = nodes[k].value
      BY <3>1
    <3>3. loaded[k] = [n EXCEPT !.value = CHOOSE v \in Entry(fresh, doc, k) : TRUE]
      BY <3>1 DEF Loaded
    <3>4. "value" \in DOMAIN n
      <4>1. k \in DOMAIN fresh /\ n = fresh[k]
        BY <1>1, FreshTree DEF NodeAt
      <4>2. nodes[k] \in NodeType
        BY <1>1 DEF TreeInv, IsTree
      <4> QED BY <4>1, <4>2 DEF Defaults, NodeType
    <3> HIDE DEF n, loaded
    <3> QED BY <3>2, <3>3, <3>4
  <2> QED BY <2>2, <2>3, <2>4
<1> QED BY <1>1, TreeInvariant, PTL

=============================================================================
