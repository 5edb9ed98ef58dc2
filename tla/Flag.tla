-------------------------------- MODULE Flag --------------------------------
(***************************************************************************)
(* bre::Flag (src/breutil/flag.hpp): the registry of command line flags    *)
(* and the parser of the arguments.                                        *)
(*                                                                         *)
(* An argument is a record: the number of leading dashes, the word behind  *)
(* them, and what follows an equals sign as a set (empty without one).  A  *)
(* string value is such a record too.  Words are model strings; the ones   *)
(* that read as a bool or a number are listed below.                       *)
(***************************************************************************)
EXTENDS Integers, Sequences, FiniteSets

CONSTANTS
  Arguments,  \* arguments a command line is made of
  MaxArgs,    \* bound: arguments of a command line
  MaxFlags,   \* bound: calls of Add
  FlagDecls   \* declarations an application makes, as a sequence of records

VARIABLES
  args,       \* argv from 1 on
  flags,      \* _flags: declarations with their values
  positional, \* _positional_args
  parsed,     \* _is_parsed
  exited,     \* exit status of the process, "no" while it runs
  scanned,    \* history: Narg has searched argv by itself
  at          \* the loop variable of Parse, 0 outside of the loop

flagVars == <<args, flags, positional, parsed, exited, scanned, at>>

ASSUME MaxArgsAssumption == MaxArgs \in Nat

\* An argument is one of the records described above.
ASSUME ArgumentsAssumption ==
  \A a \in Arguments : a = [dash |-> a.dash, word |-> a.word, eq |-> a.eq] /\ a.dash \in Nat

Word(w) == [dash |-> 0, word |-> w, eq |-> {}]

\* What the flag table finds for a name: the entry added last.
Lookup(fs, name) == {i \in DOMAIN fs : /\ fs[i].name = name
                                       /\ \A j \in i + 1 .. Len(fs) : fs[j].name # name}

\* The bool words, and the number std::stoll reads at the head of a word.
BoolWords == {"true", "false", "1", "0"}
IntOfWord == [w \in {"0", "1", "5", "5x"} |->
                CASE w = "0" -> 0 [] w = "1" -> 1 [] OTHER -> 5]

judgeSuitableValue(type, a) ==
  CASE type = "string" -> TRUE
    [] type = "bool"   -> a.dash = 0 /\ a.eq = {} /\ a.word \in BoolWords
    [] type = "int"    -> a.dash <= 1 /\ a.word \in DOMAIN IntOfWord

stringToBool(a) == a.word \in {"true", "1"}

Converted(type, a) ==
  CASE type = "string" -> a
    [] type = "bool"   -> stringToBool(a)
    [] type = "int"    -> IF a.dash = 1 THEN -IntOfWord[a.word] ELSE IntOfWord[a.word]

IsHelp(a) == a.eq = {} /\ \/ a.dash = 2 /\ a.word \in {"help", "version"}
                          \/ a.dash = 1 /\ a.word \in {"h", "v"}

\* The entry that the flag table has for the name of argument i.
FlagEntry(i) == CHOOSE j \in Lookup(flags, args[i].word) : TRUE

\* Mutant: a bool flag never takes the next argument.
TakesNextNonBool(type, i) ==
  i < Len(args) /\ type # "bool"

\* Whether flag i without "=" takes the next argument: a bool flag only when
\* that is a bool word, the others whatever it is, a flag included.
TakesNext(type, i) ==
  /\ i < Len(args)
  /\ type = "bool" => args[i + 1].dash = 0 /\ judgeSuitableValue("bool", args[i + 1])

Takes(i) == args[i].eq = {} /\ TakesNext(flags[FlagEntry(i)].type, i)

ValueGiven(i) ==
  IF Takes(i) THEN args[i + 1]
  ELSE IF args[i].eq = {} THEN Word("true") ELSE CHOOSE v \in args[i].eq : TRUE

\* The name is known, a flag that needs a value has one, and it is of its type.
Accepted(i) ==
  /\ Lookup(flags, args[i].word) # {}
  /\ args[i].eq = {} /\ flags[FlagEntry(i)].type # "bool" => Takes(i)
  /\ judgeSuitableValue(flags[FlagEntry(i)].type, ValueGiven(i))

\* The last loop of Parse: a required flag that holds its default is missing.
Missing(fs) == \E i \in DOMAIN fs : fs[i].required /\ fs[i].value = fs[i].def

Undashed == SelectSeq(args, LAMBDA a : a.dash = 0)
-----------------------------------------------------------------------------
FlagInit ==
  /\ args \in UNION {[1 .. n -> Arguments] : n \in 0 .. MaxArgs}
  /\ flags = <<>> /\ positional = <<>> /\ parsed = FALSE /\ exited = "no"
  /\ scanned = FALSE /\ at = 0

Outside == exited = "no" /\ at = 0

\* Flags are registered before Parse.  A second one of the same name hides the
\* first, which stays in _flags.  (A double is handled like an int.)
Add(d) ==
  /\ Outside /\ ~parsed /\ Len(flags) < MaxFlags
  /\ flags' = Append(flags, [name |-> d.name, type |-> d.type, def |-> d.def,
                             value |-> d.def, required |-> d.required])
  /\ UNCHANGED <<args, positional, parsed, exited, scanned, at>>

\* Parse, and below it the ways through the body of its loop.
Parse ==
  /\ Outside /\ ~parsed
  /\ at' = 1
  /\ UNCHANGED <<args, flags, positional, parsed, exited, scanned>>

InLoop == exited = "no" /\ at \in DOMAIN args

ParseHelp ==
  /\ InLoop /\ IsHelp(args[at])
  /\ exited' = "success"
  /\ UNCHANGED <<args, flags, positional, parsed, scanned, at>>

ParseWord ==
  /\ InLoop /\ args[at].dash = 0
  /\ positional' = Append(positional, args[at])
  /\ at' = at + 1
  /\ UNCHANGED <<args, flags, parsed, exited, scanned>>

ParseRefused ==
  /\ InLoop /\ ~IsHelp(args[at]) /\ args[at].dash > 0 /\ ~Accepted(at)
  /\ exited' = "failure"
  /\ UNCHANGED <<args, flags, positional, parsed, scanned, at>>

ParseFlag ==
  /\ InLoop /\ ~IsHelp(args[at]) /\ args[at].dash > 0 /\ Accepted(at)
  /\ LET f == FlagEntry(at)
     IN  flags' = [flags EXCEPT ![f].value = Converted(flags[f].type, ValueGiven(at))]
  /\ at' = IF Takes(at) THEN at + 2 ELSE at + 1
  /\ UNCHANGED <<args, positional, parsed, exited, scanned>>

ParseDone ==
  /\ exited = "no" /\ at = Len(args) + 1
  /\ parsed' = TRUE /\ at' = 0
  /\ exited' = IF Missing(flags) THEN "failure" ELSE "no"
  /\ UNCHANGED <<args, flags, positional, scanned>>

FlagGet(name) ==
  /\ Outside /\ Lookup(flags, name) = {}
  /\ exited' = "failure"
  /\ UNCHANGED <<args, flags, positional, parsed, scanned, at>>

\* Narg, and Arg, which calls it: with no positional argument known, argv is
\* searched for arguments without a dash.
Narg ==
  /\ Outside /\ positional = <<>> /\ Undashed # <<>>
  /\ positional' = Undashed
  /\ scanned' = TRUE
  /\ UNCHANGED <<args, flags, parsed, exited, at>>

FlagNext ==
  \/ \E d \in DOMAIN FlagDecls : Add(FlagDecls[d]) \/ FlagGet(FlagDecls[d].name)
  \/ Parse \/ ParseHelp \/ ParseWord \/ ParseRefused \/ ParseFlag \/ ParseDone
  \/ Narg
-----------------------------------------------------------------------------
(* Properties. *)

\* How a reader divides a command line: an argument is a value when the one
\* before it is a flag that takes it, else a flag when it has a dash.
Roles == [DOMAIN args -> {"flag", "value", "word"}]

Taken(r, i) ==
  /\ i > 1 /\ r[i - 1] = "flag" /\ args[i - 1].eq = {}
  /\ flags[FlagEntry(i - 1)].type = "bool" => args[i] \in {Word(w) : w \in BoolWords}

RoleOf(r, i) == IF Taken(r, i) THEN "value" ELSE IF args[i].dash > 0 THEN "flag" ELSE "word"

Given(r, i) ==
  IF args[i].eq # {} THEN CHOOSE v \in args[i].eq : TRUE
  ELSE IF i < Len(args) /\ r[i + 1] = "value" THEN args[i + 1] ELSE Word("true")

\* Where a flag of this name stands among the arguments before n.
GivenAt(r, name, n) == {k \in DOMAIN args : k < n /\ r[k] = "flag" /\ args[k].word = name}

\* The arguments before n give flag i its value: the last of them, or none.
HasItsValue(r, i, n) ==
  LET given == GivenAt(r, flags[i].name, n)
  IN  /\ given = {} => flags[i].value = flags[i].def
      /\ \A k \in given : (\A j \in given : j <= k) =>
           flags[i].value = Converted(flags[i].type, Given(r, k))

\* The positional arguments are the words before n in their order.
AreTheWords(r, n) ==
  \E p \in [DOMAIN positional -> DOMAIN args] :
    /\ \A i, j \in DOMAIN positional : i < j => p[i] < p[j]
    /\ {p[i] : i \in DOMAIN positional} = {k \in DOMAIN args : k < n /\ r[k] = "word"}
    /\ \A i \in DOMAIN positional : positional[i] = args[p[i]]

\* A command line that Parse accepts is read as a reader divides it, whatever
\* was declared, twice or in any order: each flag has the value given last, or
\* its default, the positional arguments are the rest in order (unless Narg
\* has searched argv, which finds the values of flags too), and a required flag was given.
ParsedAsRead ==
  parsed /\ exited = "no" =>
    \E r \in Roles :
      /\ \A i \in DOMAIN args : r[i] = RoleOf(r, i)
      /\ \A i \in DOMAIN flags : i \in Lookup(flags, flags[i].name) =>
           /\ HasItsValue(r, i, Len(args) + 1)
           /\ flags[i].required => GivenAt(r, flags[i].name, Len(args) + 1) # {}
      /\ scanned \/ AreTheWords(r, Len(args) + 1)
=============================================================================
