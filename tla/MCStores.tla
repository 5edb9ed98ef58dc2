------------------------------ MODULE MCStores ------------------------------
(***************************************************************************)
(* Model-checking instance for what a program is configured by: the Config *)
(* tree, an INI file behind Settings, and command line flags.  They share  *)
(* nothing: a behaviour is about one of them, its store, and the others    *)
(* keep their initial state.                                               *)
(***************************************************************************)
EXTENDS Config, Settings, Flag, TLC

VARIABLE store  \* which one

Number(n) == [t |-> "int", v |-> n]
Truth(b) == [t |-> "bool", v |-> b]
Quarters(n) == [t |-> "double", v |-> n]
Text(n) == [t |-> "string", v |-> n]
Function == [t |-> "function", v |-> 0]

\* A key with and without a child, and validators of five types.
TwoNames == {<<"a">>, <<"a", "x">>}
FiveValidators ==
  {[type |-> "int", def |-> Number(1), allowed |-> {Number(1), Number(2)}, strict |-> FALSE],
   [type |-> "bool", def |-> Truth(0), allowed |-> {Truth(0), Truth(1)}, strict |-> TRUE],
   [type |-> "double", def |-> Quarters(6), allowed |-> {Quarters(5), Quarters(6)},
    strict |-> TRUE],
   [type |-> "string", def |-> Text(1), allowed |-> {Text(1), Text(2)}, strict |-> TRUE],
   [type |-> "function", def |-> Function, allowed |-> {Function}, strict |-> FALSE]}
\* A double that loses decimals, and a string in EscapedEnd and one in LikeSyntax.
SixValues == {Number(2), Number(3), Truth(1), Quarters(5), Text(1), Text(2)}

\* A "__value" that its validator would not allow, entries of a wrong type, a
\* null, and keys that are not registered.
TwoDocuments ==
  {<<"a">> :> Object @@ <<"a", "__value">> :> Number(3)
     @@ <<"a", "x">> :> Truth(1) @@ <<"u">> :> Number(2),
   <<"a">> :> Number(3) @@ <<"u">> :> Null}

\* The assumptions of the proofs about Config hold here.
ASSUME ConfigIsProper == Proper

\* Two keys of section "s"; the values are a plain one and "a\;", quoted.  The
\* other file has a key outside a section and a commented section "t".
TwoCells == {<<<<115>>, <<107>>>>, <<<<115>>, <<108>>>>}
TwoTexts == {<<97>>, <<34, 97, 92, 59, 34>>}
OneCell == {<<<<115>>, <<107>>>>}
TextD == <<100>>
TextX == <<120>>
OneFile == {<<107, 61, 97, 10, 91, 116, 93, 35, 10, 32, 107, 32, 61, 34, 92, 110, 34>>}

Dashed(d, w, eq) == [dash |-> d, word |-> w, eq |-> eq]

\* Flags -n (twice, of different types) and -b, words that are values for them
\* or not, a negative number and the help flag.
NineArguments ==
  {Dashed(1, "n", {}), Dashed(2, "n", {Word("1")}), Dashed(2, "b", {}),
   Dashed(1, "b", {Word("0")}), Dashed(1, "5", {}), Dashed(1, "h", {}),
   Word("5"), Word("true"), Word("x")}
ThreeDecls ==
  <<[name |-> "n", type |-> "int", def |-> 0, required |-> TRUE],
    [name |-> "n", type |-> "string", def |-> Word("x"), required |-> FALSE],
    [name |-> "b", type |-> "bool", def |-> FALSE, required |-> FALSE]>>

vars == <<store, nodes, iniVars, flagVars>>

Init ==
  /\ store \in {"config", "settings", "flag"}
  /\ ConfigInit /\ IniInit /\ FlagInit
  /\ store # "flag" => args = <<>>

Next ==
  /\ \/ store = "config" /\ ConfigNext /\ UNCHANGED <<iniVars, flagVars>>
     \/ store = "settings" /\ IniNext /\ UNCHANGED <<nodes, flagVars>>
     \/ store = "flag" /\ FlagNext /\ UNCHANGED <<nodes, iniVars>>
  /\ UNCHANGED store

Spec == Init /\ [][Next]_vars
=============================================================================
