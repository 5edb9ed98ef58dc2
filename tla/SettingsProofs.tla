--------------------------- MODULE SettingsProofs ---------------------------
(***************************************************************************)
(* Theorems about Settings and Flag: for all cells, values, defaults and   *)
(* texts of the file, and for all arguments and declarations.              *)
(***************************************************************************)
EXTENDS Settings, Flag, SequenceTheorems, TLAPS

-----------------------------------------------------------------------------
(* Settings. *)
IniSpec == IniInit /\ [][IniNext]_iniVars

\* A getter between its two steps: what the layers hold now is noted, and the
\* moment in which it found the key.
GetterInv ==
  /\ reader # "idle" => made
  /\ reader = "found" =>
       /\ Moment(config, defaults, asked) \in during
       /\ \E m \in during : m.inFile
  /\ GetIsLayered

\* Whatever replaces the map of the file is noted for a getter.
LEMMA ChangeKeeps ==
  ASSUME GetterInv, NEW map, Change(map)
  PROVE  GetterInv'
<1>1. reader = "found" => Moment(config, defaults, asked)' \in during'
  BY DEF Change, Note, Moment, Layered, HasKeyIn, GetStrIn, BelowFile
<1>2. reader = "found" => \E m \in during' : m.inFile
  BY DEF GetterInv, Change, Note
<1>. QED
  BY <1>1, <1>2 DEF GetterInv, Change, Note, GetIsLayered

\* The first step of a getter, and its answer for a key that is not in the file.
LEMMA AskKeeps ==
  ASSUME GetterInv, NEW k, Ask(k)
  PROVE  GetterInv'
<1>1. Moment(config, defaults, asked)' \in during'
  BY DEF Ask, Moment, Layered, HasKeyIn, GetStrIn, BelowFile
<1>2. CASE InFile(<<section, k>>)
  BY <1>1, <1>2 DEF Ask, InFile, GetterInv, Moment, GetIsLayered
<1>3. CASE ~InFile(<<section, k>>)
  <2>1. Moment(config, defaults, <<section, k>>).value = BelowFile(defaults, <<section, k>>)
    BY <1>3 DEF InFile, Moment, Layered, GetStrIn
  <2>. QED
    BY <2>1, <1>3 DEF Ask, GetterInv, GetIsLayered
<1>. QED
  BY <1>2, <1>3

\* The second step: the key is in the file, or it has left the file.
LEMMA AnswerKeeps ==
  ASSUME GetterInv, Answer
  PROVE  GetterInv'
<1>1. CASE HasKeyIn(config, asked)
  BY <1>1 DEF Answer, GetterInv, GetIsLayered, ReadFile, Moment, Layered, GetStrIn
<1>2. CASE ~HasKeyIn(config, asked)
  BY <1>2 DEF Answer, GetterInv, GetIsLayered, ReadFile, Moment, GetStrIn
<1>. QED
  BY <1>1, <1>2

LEMMA GetterStep == GetterInv /\ [IniNext]_iniVars => GetterInv'
<1>. SUFFICES ASSUME GetterInv, [IniNext]_iniVars PROVE GetterInv'
  OBVIOUS
<1>1. ASSUME NEW nullIni \in BOOLEAN, Instance(nullIni) PROVE GetterInv'
  BY <1>1 DEF Instance, GetterInv, GetIsLayered
<1>2. CASE Save \/ FileChanges \/ UNCHANGED iniVars
  <2>1. UNCHANGED <<made, config, defaults, reader, asked, result, during>>
    BY <1>2 DEF Save, FileChanges, iniVars
  <2>. QED
    BY <2>1 DEF GetterInv, GetIsLayered, Moment, Layered, HasKeyIn, GetStrIn, BelowFile
<1>3. CASE Return
  BY <1>3 DEF Return, GetterInv, GetIsLayered
<1>4. ASSUME NEW c, SetDefault(c) \/ UseSection(c[1]) PROVE GetterInv'
  BY <1>4 DEF SetDefault, UseSection, Unlocked, GetterInv, GetIsLayered, Moment, Layered, HasKeyIn, GetStrIn, BelowFile
<1>5. CASE Reload
  BY <1>5, ChangeKeeps DEF Reload
<1>6. ASSUME NEW c, \/ RemoveKey(c) \/ RemoveSection(c[1]) \/ SectionAt(c[1])
                    \/ \E v \in FileValues : SetKey(c, v)
      PROVE  GetterInv'
  BY <1>6, ChangeKeeps DEF RemoveKey, RemoveSection, SectionAt, SetKey
<1>. QED
  BY <1>1, <1>2, <1>3, <1>4, <1>5, <1>6, AskKeeps, AnswerKeeps DEF IniNext

\* A getter of Settings answers what the file, the defaults and its argument
\* held together at some moment of the call, or the empty text when the key
\* left the file between its two looks: whatever Reload, Set, RemoveKey and
\* RemoveSection do meanwhile.
THEOREM SettingsGetIsLayered == IniSpec => []GetIsLayered
<1>1. IniInit => GetterInv
  BY DEF IniInit, GetterInv, GetIsLayered
<1>2. GetterInv => GetIsLayered
  BY DEF GetterInv
<1>. QED
  BY <1>1, <1>2, GetterStep, PTL DEF IniSpec

-----------------------------------------------------------------------------
(* Flag. *)
FlagSpec == FlagInit /\ [][FlagNext]_flagVars

\* What stands on a command line, or is taken for it, and what becomes of it.
Texts == Arguments \cup {Word("true")} \cup UNION {a.eq : a \in Arguments}
Types == {FlagDecls[d].type : d \in DOMAIN FlagDecls}
FlagValues == {FlagDecls[d].def : d \in DOMAIN FlagDecls}
                \cup {Converted(t, v) : t \in Types, v \in Texts}
Entries == [name : {FlagDecls[d].name : d \in DOMAIN FlagDecls}, type : Types,
            def : FlagValues, value : FlagValues,
            required : {FlagDecls[d].required : d \in DOMAIN FlagDecls}]

FlagType ==
  /\ args \in Seq(Arguments) /\ flags \in Seq(Entries) /\ at \in Nat
  /\ scanned \/ positional \in Seq(Arguments)

\* Before Parse no flag has been given a value.
Fresh ==
  /\ \A i \in DOMAIN flags : flags[i].value = flags[i].def
  /\ scanned \/ positional = <<>>

\* In the loop at argument n: what is before n is read as r divides it, and n
\* itself is not the value of the flag before it.
ReadUpTo(r, n) ==
  /\ \A j \in DOMAIN args : j < n => r[j] = RoleOf(r, j)
  /\ n \in DOMAIN args => ~Taken(r, n) /\ r[n] # "value"
  /\ \A i \in DOMAIN flags : i \in Lookup(flags, flags[i].name) => HasItsValue(r, i, n)
  /\ scanned \/ AreTheWords(r, n)

FlagInv ==
  /\ FlagType
  /\ at <= Len(args) + 1 /\ (at # 0 => ~parsed)
  /\ exited = "no" /\ ~parsed /\ at = 0 => Fresh
  /\ exited = "no" /\ at # 0 => \E r \in Roles : ReadUpTo(r, at)
  /\ ParsedAsRead

\* What a division says of the arguments before n depends on the roles there.
LEMMA RolesBefore ==
  ASSUME FlagType, NEW r \in Roles, NEW q \in Roles, NEW n \in DOMAIN args,
         \A j \in DOMAIN args : j < n => q[j] = r[j],
         r[n] # "value", q[n] # "value"
  PROVE  /\ \A j \in DOMAIN args : j <= n => (Taken(q, j) <=> Taken(r, j))
         /\ \A k \in DOMAIN args : k < n => Given(q, k) = Given(r, k)
         /\ \A name : GivenAt(q, name, n) = GivenAt(r, name, n)
<1>. args \in Seq(Arguments) /\ DOMAIN args = 1 .. Len(args) /\ Len(args) \in Nat
  BY DEF FlagType
<1>1. \A j \in DOMAIN args : j <= n => (Taken(q, j) <=> Taken(r, j))
  BY DEF Taken
<1>2. ASSUME NEW k \in DOMAIN args, k < n PROVE Given(q, k) = Given(r, k)
  <2>1. CASE k + 1 = n
    BY <1>2, <2>1 DEF Given
  <2>2. CASE k + 1 # n
    <3>1. k + 1 \in DOMAIN args /\ k + 1 < n
      BY <1>2, <2>2
    <3>. QED
      BY <3>1 DEF Given
  <2>. QED
    BY <2>1, <2>2
<1>3. \A name : GivenAt(q, name, n) = GivenAt(r, name, n)
  BY DEF GivenAt
<1>. QED
  BY <1>1, <1>2, <1>3

\* The same for the division itself: it may be changed from n on.
LEMMA DivisionBefore ==
  ASSUME FlagType, NEW r \in Roles, NEW q \in Roles, NEW n \in DOMAIN args,
         \A j \in DOMAIN args : j < n => q[j] = r[j],
         r[n] # "value", q[n] # "value", ReadUpTo(r, n)
  PROVE  /\ \A j \in DOMAIN args : j < n => q[j] = RoleOf(q, j)
         /\ ~Taken(q, n)
         /\ \A i \in DOMAIN flags : i \in Lookup(flags, flags[i].name) => HasItsValue(q, i, n)
         /\ {k \in DOMAIN args : k < n /\ q[k] = "word"} = {k \in DOMAIN args : k < n /\ r[k] = "word"}
<1>. args \in Seq(Arguments) /\ DOMAIN args = 1 .. Len(args) /\ Len(args) \in Nat
  BY DEF FlagType
<1>1. \A j \in DOMAIN args : j < n => q[j] = RoleOf(q, j)
  BY RolesBefore DEF ReadUpTo, RoleOf
<1>2. ~Taken(q, n)
  BY RolesBefore DEF ReadUpTo
<1>3. ASSUME NEW i \in DOMAIN flags, i \in Lookup(flags, flags[i].name)
      PROVE  HasItsValue(q, i, n)
  <2>1. HasItsValue(r, i, n)
    BY <1>3 DEF ReadUpTo
  <2>2. GivenAt(q, flags[i].name, n) = GivenAt(r, flags[i].name, n)
    BY RolesBefore
  <2>3. \A k \in GivenAt(r, flags[i].name, n) : Given(q, k) = Given(r, k)
    BY RolesBefore DEF GivenAt
  <2>. QED
    BY <2>1, <2>2, <2>3 DEF HasItsValue
<1>. QED
  BY <1>1, <1>2, <1>3

\* A name has one entry in the table.
LEMMA LookupIsOne ==
  ASSUME FlagType, NEW name, NEW i \in Lookup(flags, name), NEW j \in Lookup(flags, name)
  PROVE  i = j
<1>. flags \in Seq(Entries) /\ DOMAIN flags = 1 .. Len(flags) /\ Len(flags) \in Nat
  BY DEF FlagType
<1>. QED
  BY DEF Lookup

\* The reading of a line depends on the line and on the declarations.
LEMMA SameReading ==
  ASSUME UNCHANGED <<args, flags>>, NEW r, NEW n
  PROVE  /\ \A j : Taken(r, j)' <=> Taken(r, j)
         /\ \A j : RoleOf(r, j)' = RoleOf(r, j)
         /\ \A i : HasItsValue(r, i, n)' <=> HasItsValue(r, i, n)
<1>1. \A j : Taken(r, j)' <=> Taken(r, j)
  BY DEF Taken, FlagEntry
<1>2. \A j : RoleOf(r, j)' = RoleOf(r, j)
  BY <1>1 DEF RoleOf
<1>3. \A i : HasItsValue(r, i, n)' <=> HasItsValue(r, i, n)
  BY DEF HasItsValue, GivenAt, Given
<1>. QED
  BY <1>1, <1>2, <1>3

\* An argument without a dash that is not a value is a positional one.
LEMMA WordKeeps ==
  ASSUME FlagInv, ParseWord
  PROVE  FlagInv'
<1>. args \in Seq(Arguments) /\ DOMAIN args = 1 .. Len(args) /\ Len(args) \in Nat
  BY DEF FlagInv, FlagType
<1>0. at \in DOMAIN args /\ exited = "no" /\ args[at] \in Arguments
  BY DEF ParseWord, InLoop
<1>1. PICK r \in Roles : ReadUpTo(r, at)
  BY <1>0 DEF FlagInv, ReadUpTo
<1>n. PICK n \in DOMAIN args : n = at
  BY <1>0
<1>3. PICK q \in Roles :
        /\ \A j \in DOMAIN args : j < n => q[j] = r[j]
        /\ \A j \in DOMAIN args : j >= n => q[j] = "word"
  <2>. DEFINE q == [j \in DOMAIN args |-> IF j < n THEN r[j] ELSE "word"]
  <2>1. q \in Roles
    BY DEF Roles
  <2>2. (\A j \in DOMAIN args : j < n => q[j] = r[j]) /\ (\A j \in DOMAIN args : j >= n => q[j] = "word")
    OBVIOUS
  <2>. QED
    BY <2>1, <2>2
<1>4. /\ \A j \in DOMAIN args : j < n => q[j] = RoleOf(q, j)
      /\ ~Taken(q, n)
      /\ \A i \in DOMAIN flags : i \in Lookup(flags, flags[i].name) => HasItsValue(q, i, n)
      /\ {k \in DOMAIN args : k < n /\ q[k] = "word"} = {k \in DOMAIN args : k < n /\ r[k] = "word"}
  <2>1. r[n] # "value" /\ q[n] # "value" /\ FlagType
    BY <1>n, <1>0, <1>1, <1>3 DEF ReadUpTo, FlagInv
  <2>. QED
    BY <2>1, <1>n, <1>0, <1>1, <1>3, DivisionBefore
<1>5. UNCHANGED <<args, flags, parsed, exited, scanned>> /\ at' = n + 1
  BY <1>n DEF ParseWord
<1>6. \A j \in DOMAIN args : j < n + 1 => q[j] = RoleOf(q, j)
  BY <1>n, <1>0, <1>3, <1>4 DEF RoleOf, ParseWord, FlagInv, FlagType
<1>7. n + 1 \in DOMAIN args => ~Taken(q, n + 1) /\ q[n + 1] # "value"
  BY <1>n, <1>0, <1>3 DEF Taken, FlagInv, FlagType
<1>8. \A i \in DOMAIN flags : i \in Lookup(flags, flags[i].name) => HasItsValue(q, i, n + 1)
  <2>1. \A name : GivenAt(q, name, n + 1) = GivenAt(q, name, n)
    BY <1>n, <1>0, <1>3 DEF GivenAt, FlagInv, FlagType
  <2>. QED
    BY <2>1, <1>4 DEF HasItsValue
<1>9. scanned \/ AreTheWords(q, n + 1)'
  <2>. SUFFICES ASSUME ~scanned PROVE AreTheWords(q, n + 1)'
    OBVIOUS
  <2>1. PICK p \in [DOMAIN positional -> DOMAIN args] :
          /\ \A i, j \in DOMAIN positional : i < j => p[i] < p[j]
          /\ {p[i] : i \in DOMAIN positional} = {k \in DOMAIN args : k < n /\ r[k] = "word"}
          /\ \A i \in DOMAIN positional : positional[i] = args[p[i]]
    BY <1>n, <1>1 DEF ReadUpTo, AreTheWords
  <2>2. /\ positional \in Seq(Arguments) /\ Len(positional) \in Nat
        /\ DOMAIN positional = 1 .. Len(positional)
    BY DEF FlagInv, FlagType
  <2>3. /\ positional' = Append(positional, args[n])
        /\ DOMAIN positional' = 1 .. Len(positional) + 1
        /\ \A i \in DOMAIN positional : positional'[i] = positional[i]
        /\ positional'[Len(positional) + 1] = args[n]
    BY <1>n, <1>0, <2>2 DEF ParseWord
  <2>. DEFINE s == [i \in 1 .. Len(positional) + 1 |-> IF i = Len(positional) + 1 THEN n ELSE p[i]]
  <2>4. s \in [DOMAIN positional' -> DOMAIN args]
    BY <1>n, <1>0, <2>2, <2>3
  <2>5. \A i \in DOMAIN positional : s[i] = p[i] /\ p[i] \in DOMAIN args /\ p[i] < n
    BY <2>1, <2>2
  <2>6. s[Len(positional) + 1] = n
    BY <2>2
  <2>. HIDE DEF s
  <2>7. \A i, j \in DOMAIN positional' : i < j => s[i] < s[j]
    BY <1>n, <1>0, <2>1, <2>2, <2>3, <2>5, <2>6
  <2>8. {s[i] : i \in DOMAIN positional'} = {k \in DOMAIN args : k < n + 1 /\ q[k] = "word"}
    <3>1. ASSUME NEW i \in DOMAIN positional'
          PROVE  s[i] \in {k \in DOMAIN args : k < n + 1 /\ q[k] = "word"}
      <4>1. CASE i = Len(positional) + 1
        BY <4>1, <2>6, <1>n, <1>0, <1>3
      <4>2. CASE i \in DOMAIN positional
        BY <4>2, <2>1, <2>5, <1>n, <1>0, <1>3
      <4>. QED
        BY <4>1, <4>2, <2>2, <2>3
    <3>2. ASSUME NEW k \in DOMAIN args, k < n + 1, q[k] = "word"
          PROVE  \E i \in DOMAIN positional' : s[i] = k
      <4>1. CASE k = n
        BY <4>1, <2>2, <2>3, <2>6
      <4>2. CASE k # n
        <5>1. k < n /\ r[k] = "word"
          BY <3>2, <4>2, <1>n, <1>0, <1>3
        <5>2. PICK i \in DOMAIN positional : p[i] = k
          BY <5>1, <2>1
        <5>. QED
          BY <5>2, <2>2, <2>3, <2>5
      <4>. QED
        BY <4>1, <4>2
    <3>. QED
      BY <3>1, <3>2
  <2>9. \A i \in DOMAIN positional' : positional'[i] = args[s[i]]
    BY <2>1, <2>2, <2>3, <2>5, <2>6
  <2>. QED
    BY <2>4, <2>7, <2>8, <2>9, <1>5 DEF AreTheWords
<1>10. ReadUpTo(q, n + 1)'
  <2>1. /\ \A j : Taken(q, j)' <=> Taken(q, j)
        /\ \A j : RoleOf(q, j)' = RoleOf(q, j)
        /\ \A i : HasItsValue(q, i, n + 1)' <=> HasItsValue(q, i, n + 1)
    BY <1>5, SameReading
  <2>. QED
    BY <2>1, <1>5, <1>6, <1>7, <1>8, <1>9 DEF ReadUpTo
<1>11. FlagType' /\ at' <= Len(args') + 1
  BY <1>n, <1>0, <1>5 DEF ParseWord, FlagInv, FlagType
<1>12. at' # 0 /\ q \in Roles'
  BY <1>n, <1>0, <1>5 DEF Roles
<1>13. ParsedAsRead'
  BY <1>5, <1>n, <1>0 DEF FlagInv, ParseWord, ParsedAsRead
<1>14. \E r1 \in Roles' : ReadUpTo(r1, at)'
  BY <1>5, <1>10, <1>12
<1>15. ~parsed'
  BY <1>n, <1>0, <1>5 DEF FlagInv
<1>. QED
  BY <1>11, <1>12, <1>13, <1>14, <1>15 DEF FlagInv

\* What Parse assigns: one value, to the entry of the name.
LEMMA OneValueIsSet ==
  ASSUME FlagType, NEW f \in DOMAIN flags, NEW v,
         flags' = [flags EXCEPT ![f].value = v], args' = args
  PROVE  /\ DOMAIN flags' = DOMAIN flags /\ Len(flags') = Len(flags)
         /\ \A i \in DOMAIN flags :
              /\ flags'[i].name = flags[i].name /\ flags'[i].type = flags[i].type
              /\ flags'[i].def = flags[i].def /\ flags'[i].required = flags[i].required
              /\ flags'[i].value = IF i = f THEN v ELSE flags[i].value
         /\ \A name : Lookup(flags, name)' = Lookup(flags, name)
         /\ \A i : FlagEntry(i)' = FlagEntry(i)
<1>1. /\ flags \in Seq(Entries) /\ DOMAIN flags = 1 .. Len(flags) /\ Len(flags) \in Nat
      /\ \A i \in DOMAIN flags : flags[i] \in Entries
  BY DEF FlagType
<1>2. \A i \in DOMAIN flags : DOMAIN flags[i] = {"name", "type", "def", "value", "required"}
  BY <1>1 DEF Entries
<1>3. DOMAIN flags' = DOMAIN flags
  OBVIOUS
<1>4. Len(flags') = Len(flags)
  BY <1>1
<1>5. \A i \in DOMAIN flags :
        /\ flags'[i].name = flags[i].name /\ flags'[i].type = flags[i].type
        /\ flags'[i].def = flags[i].def /\ flags'[i].required = flags[i].required
        /\ flags'[i].value = IF i = f THEN v ELSE flags[i].value
  BY <1>1, <1>2 DEF Entries
<1>6. \A name : Lookup(flags, name)' = Lookup(flags, name)
  BY <1>1, <1>3, <1>4, <1>5 DEF Lookup
<1>7. \A i : FlagEntry(i)' = FlagEntry(i)
  BY <1>6 DEF FlagEntry
<1>. QED
  BY <1>3, <1>4, <1>5, <1>6, <1>7

\* The parser takes the next argument where a reader takes it for a value.
LEMMA TakesAsRead ==
  ASSUME FlagType, NEW n \in DOMAIN args, n + 1 \in DOMAIN args,
         NEW r \in Roles, r[n] = "flag"
  PROVE  Taken(r, n + 1) <=> Takes(n)
<1>1. args \in Seq(Arguments) /\ DOMAIN args = 1 .. Len(args) /\ Len(args) \in Nat
  BY DEF FlagType
<1>2. args[n + 1] \in Arguments /\ n < Len(args) /\ n + 1 > 1 /\ (n + 1) - 1 = n
  BY <1>1
<1>3. args[n + 1] \in {Word(w) : w \in BoolWords}
        <=> args[n + 1].dash = 0 /\ judgeSuitableValue("bool", args[n + 1])
  BY <1>2, ArgumentsAssumption DEF Word, judgeSuitableValue
<1>. QED
  BY <1>2, <1>3 DEF Taken, Takes, TakesNext

\* A flag gets its value, with the next argument or without it.
LEMMA FlagKeeps ==
  ASSUME FlagInv, ParseFlag
  PROVE  FlagInv'
<1>. args \in Seq(Arguments) /\ DOMAIN args = 1 .. Len(args) /\ Len(args) \in Nat
  BY DEF FlagInv, FlagType
<1>t. FlagType
  BY DEF FlagInv
<1>0. at \in DOMAIN args /\ exited = "no" /\ args[at] \in Arguments
  BY DEF ParseFlag, InLoop
<1>1. PICK r \in Roles : ReadUpTo(r, at)
  BY <1>0 DEF FlagInv, ReadUpTo
<1>n. PICK n \in DOMAIN args : n = at
  BY <1>0
<1>f. PICK f \in Lookup(flags, args[n].word) : f = FlagEntry(n)
  BY <1>n DEF ParseFlag, Accepted, FlagEntry
<1>v. PICK v : v = Converted(flags[f].type, ValueGiven(n))
  OBVIOUS
<1>m. PICK m \in {n + 1, n + 2} : /\ m = n + 2 <=> Takes(n)
                                  /\ m = at'
  BY <1>n DEF ParseFlag
<1>2. /\ f \in DOMAIN flags /\ flags[f].name = args[n].word
      /\ flags' = [flags EXCEPT ![f].value = v]
      /\ UNCHANGED <<args, positional, parsed, exited, scanned>>
  BY <1>n, <1>f, <1>v DEF ParseFlag, Lookup
<1>3. /\ DOMAIN flags' = DOMAIN flags /\ Len(flags') = Len(flags)
      /\ \A i \in DOMAIN flags :
           /\ flags'[i].name = flags[i].name /\ flags'[i].type = flags[i].type
           /\ flags'[i].def = flags[i].def /\ flags'[i].required = flags[i].required
           /\ flags'[i].value = IF i = f THEN v ELSE flags[i].value
      /\ \A name : Lookup(flags, name)' = Lookup(flags, name)
      /\ \A i : FlagEntry(i)' = FlagEntry(i)
  BY <1>t, <1>2, OneValueIsSet
<1>4. PICK q \in Roles :
        /\ \A j \in DOMAIN args : j < n => q[j] = r[j]
        /\ q[n] = "flag"
        /\ n + 1 \in DOMAIN args => q[n + 1] = IF m = n + 2 THEN "value" ELSE "word"
        /\ \A j \in DOMAIN args : j >= n + 2 => q[j] = "word"
  <2>. DEFINE q == [j \in DOMAIN args |->
                      IF j < n THEN r[j] ELSE IF j = n THEN "flag"
                      ELSE IF j = n + 1 /\ m = n + 2 THEN "value" ELSE "word"]
  <2>1. q \in Roles
    BY DEF Roles
  <2>2. /\ \A j \in DOMAIN args : j < n => q[j] = r[j]
        /\ q[n] = "flag"
        /\ n + 1 \in DOMAIN args => q[n + 1] = IF m = n + 2 THEN "value" ELSE "word"
        /\ \A j \in DOMAIN args : j >= n + 2 => q[j] = "word"
    OBVIOUS
  <2>. QED
    BY <2>1, <2>2
<1>5. /\ \A j \in DOMAIN args : j < n => q[j] = RoleOf(q, j)
      /\ ~Taken(q, n)
      /\ \A i \in DOMAIN flags : i \in Lookup(flags, flags[i].name) => HasItsValue(q, i, n)
      /\ {k \in DOMAIN args : k < n /\ q[k] = "word"} = {k \in DOMAIN args : k < n /\ r[k] = "word"}
  <2>1. r[n] # "value" /\ q[n] # "value" /\ ReadUpTo(r, n)
    BY <1>n, <1>1, <1>4 DEF ReadUpTo
  <2>. QED
    BY <2>1, <1>t, <1>4, DivisionBefore
<1>6. n + 1 \in DOMAIN args => (Taken(q, n + 1) <=> m = n + 2)
  BY <1>t, <1>m, <1>4, TakesAsRead
<1>7. m = n + 2 => n + 1 \in DOMAIN args
  BY <1>m DEF Takes, TakesNext
<1>8. \A j \in DOMAIN args : j < m => q[j] = RoleOf(q, j)
  <2>1. q[n] = RoleOf(q, n)
    BY <1>n, <1>4, <1>5 DEF RoleOf, ParseFlag
  <2>2. m = n + 2 => q[n + 1] = RoleOf(q, n + 1)
    BY <1>4, <1>6, <1>7 DEF RoleOf
  <2>. QED
    BY <2>1, <2>2, <1>5
<1>9. m \in DOMAIN args => ~Taken(q, m) /\ q[m] # "value"
  <2>1. CASE m = n + 1
    BY <2>1, <1>4, <1>6
  <2>2. CASE m = n + 2
    BY <2>2, <1>4, <1>7 DEF Taken
  <2>. QED
    BY <2>1, <2>2
<1>10. Given(q, n) = ValueGiven(n)
  BY <1>4, <1>m, <1>7 DEF Given, ValueGiven, Takes, TakesNext
<1>11. ASSUME NEW i \in DOMAIN flags, i \in Lookup(flags, flags[i].name)
       PROVE  HasItsValue(q, i, m)'
  <2>1. HasItsValue(q, i, n)
    BY <1>5, <1>11
  <2>2. \A k : Given(q, k)' = Given(q, k)
    BY <1>2 DEF Given
  <2>3. \A name : GivenAt(q, name, m)' = GivenAt(q, name, m)
    BY <1>2 DEF GivenAt
  <2>4. CASE i = f
    <3>1. GivenAt(q, flags[i].name, m) = GivenAt(q, flags[i].name, n) \cup {n}
      BY <2>4, <1>2, <1>4, <1>7 DEF GivenAt
    <3>2. \A k \in GivenAt(q, flags[i].name, n) : k \in DOMAIN args /\ k < n
      BY DEF GivenAt
    <3>3. flags'[i].value = Converted(flags[i].type, Given(q, n))
      BY <2>4, <1>3, <1>v, <1>10
    <3>. QED
      BY <2>2, <2>3, <3>1, <3>2, <3>3, <1>3 DEF HasItsValue
  <2>5. CASE i # f
    <3>1. flags[i].name # args[n].word
      BY <2>5, <1>t, <1>f, <1>11, LookupIsOne
    <3>2. GivenAt(q, flags[i].name, m) = GivenAt(q, flags[i].name, n)
      BY <3>1, <1>4, <1>7 DEF GivenAt
    <3>. QED
      BY <2>1, <2>2, <2>3, <2>5, <3>2, <1>3 DEF HasItsValue
  <2>. QED
    BY <2>4, <2>5
<1>12. scanned \/ AreTheWords(q, m)
  <2>1. {k \in DOMAIN args : k < m /\ q[k] = "word"} = {k \in DOMAIN args : k < n /\ r[k] = "word"}
    BY <1>4, <1>5, <1>7
  <2>2. scanned \/ AreTheWords(r, n)
    BY <1>n, <1>1 DEF ReadUpTo
  <2>. QED
    BY <2>1, <2>2 DEF AreTheWords
<1>13. ReadUpTo(q, m)'
  <2>1. \A j \in DOMAIN args : j <= m => (Taken(q, j)' <=> Taken(q, j))
    BY <1>2, <1>3 DEF Taken
  <2>2. \A j \in DOMAIN args : j < m => q[j] = RoleOf(q, j)'
    BY <1>8, <2>1, <1>2 DEF RoleOf
  <2>3. AreTheWords(q, m)' <=> AreTheWords(q, m)
    BY <1>2 DEF AreTheWords
  <2>4. m \in DOMAIN args' => ~Taken(q, m)' /\ q[m] # "value"
    BY <2>1, <1>2, <1>9
  <2>5. \A i \in DOMAIN flags' : i \in Lookup(flags, flags[i].name)' => HasItsValue(q, i, m)'
    <3>. SUFFICES ASSUME NEW i \in DOMAIN flags', i \in Lookup(flags', flags'[i].name)
                  PROVE  HasItsValue(q, i, m)'
      OBVIOUS
    <3>1. i \in DOMAIN flags /\ i \in Lookup(flags, flags[i].name)
      BY <1>3
    <3>. QED
      BY <3>1, <1>11
  <2>6. scanned' \/ AreTheWords(q, m)'
    BY <2>3, <1>2, <1>12
  <2>. QED
    BY <2>2, <2>4, <2>5, <2>6, <1>2 DEF ReadUpTo
<1>14. FlagType' /\ at' <= Len(args') + 1
  <2>1. v \in FlagValues
    <3>1. ValueGiven(n) \in Texts
      <4>1. CASE Takes(n)
        BY <4>1 DEF ValueGiven, Texts, Takes, TakesNext
      <4>2. CASE ~Takes(n) /\ args[n].eq = {}
        BY <4>2 DEF ValueGiven, Texts
      <4>3. CASE args[n].eq # {}
        <5>1. (CHOOSE w \in args[n].eq : TRUE) \in args[n].eq
          BY <4>3
        <5>2. args[n] \in Arguments
          OBVIOUS
        <5>. QED
          BY <4>3, <5>1, <5>2 DEF ValueGiven, Texts, Takes
      <4>. QED
        BY <4>1, <4>2, <4>3
    <3>2. flags[f].type \in Types
      <4>1. flags[f] \in Entries
        BY <1>2 DEF FlagInv, FlagType
      <4>. QED
        BY <4>1 DEF Entries
    <3>. QED
      BY <3>1, <3>2, <1>v DEF FlagValues
  <2>2. flags \in Seq(Entries) /\ flags[f] \in Entries
    BY <1>2 DEF FlagInv, FlagType
  <2>3. [flags[f] EXCEPT !.value = v] \in Entries
    BY <2>1, <2>2 DEF Entries
  <2>4. flags' \in Seq(Entries)
    BY <2>2, <2>3, <1>2
  <2>5. m \in Nat /\ m <= Len(args) + 1
    BY <1>7
  <2>. QED
    BY <2>4, <2>5, <1>t, <1>2, <1>m DEF FlagType
<1>15. \E r1 \in Roles' : ReadUpTo(r1, at)'
  BY <1>2, <1>m, <1>13 DEF Roles
<1>16. ~parsed' /\ ParsedAsRead' /\ at' # 0
  BY <1>n, <1>0, <1>m, <1>2 DEF FlagInv, ParsedAsRead
<1>. QED
  BY <1>14, <1>15, <1>16 DEF FlagInv

\* At the first argument nothing has been read.
LEMMA ParseKeeps ==
  ASSUME FlagInv, Parse
  PROVE  FlagInv'
<1>1. /\ UNCHANGED <<args, flags, positional, parsed, exited, scanned>> /\ at' = 1
      /\ Fresh /\ FlagType
  BY DEF Parse, Outside, FlagInv
<1>. args \in Seq(Arguments) /\ DOMAIN args = 1 .. Len(args) /\ Len(args) \in Nat
  BY <1>1 DEF FlagType
<1>2. PICK r \in Roles : r = [j \in DOMAIN args |-> "word"]
  BY DEF Roles
<1>3. \A name : GivenAt(r, name, 1) = {}
  BY DEF GivenAt
<1>4. scanned \/ AreTheWords(r, 1)
  <2>. SUFFICES ASSUME positional = <<>> PROVE AreTheWords(r, 1)
    BY <1>1 DEF Fresh
  <2>1. DOMAIN positional = {}
    OBVIOUS
  <2>2. <<>> \in [DOMAIN positional -> DOMAIN args]
    BY <2>1
  <2>3. {k \in DOMAIN args : k < 1 /\ r[k] = "word"} = {}
    OBVIOUS
  <2>. QED
    BY <2>1, <2>2, <2>3 DEF AreTheWords
<1>5. 1 \in DOMAIN args => ~Taken(r, 1) /\ r[1] # "value"
  BY <1>2 DEF Taken
<1>6. \A i \in DOMAIN flags : HasItsValue(r, i, 1)
  BY <1>1, <1>3 DEF HasItsValue, Fresh
<1>7. ReadUpTo(r, 1)
  BY <1>4, <1>5, <1>6 DEF ReadUpTo
<1>8. ReadUpTo(r, 1)' <=> ReadUpTo(r, 1)
  <2>1. /\ \A j : Taken(r, j)' <=> Taken(r, j)
        /\ \A j : RoleOf(r, j)' = RoleOf(r, j)
        /\ \A i : HasItsValue(r, i, 1)' <=> HasItsValue(r, i, 1)
    BY <1>1, SameReading
  <2>2. AreTheWords(r, 1)' <=> AreTheWords(r, 1)
    BY <1>1 DEF AreTheWords
  <2>. QED
    BY <2>1, <2>2, <1>1 DEF ReadUpTo
<1>9. \E r1 \in Roles' : ReadUpTo(r1, at)'
  BY <1>1, <1>7, <1>8 DEF Roles
<1>10. FlagType' /\ at' <= Len(args') + 1
  BY <1>1 DEF FlagType
<1>11. ~parsed' /\ at' # 0 /\ ParsedAsRead'
  BY <1>1 DEF Parse, ParsedAsRead
<1>. QED
  BY <1>9, <1>10, <1>11 DEF FlagInv

\* Behind the last argument the whole line is read, and a required flag that
\* does not hold its default was given.
LEMMA DoneKeeps ==
  ASSUME FlagInv, ParseDone
  PROVE  FlagInv'
<1>1. /\ UNCHANGED <<args, flags, positional, scanned>> /\ at' = 0 /\ parsed' = TRUE
      /\ at = Len(args) + 1 /\ exited = "no" /\ FlagType
      /\ exited' = "no" => ~Missing(flags)
  BY DEF ParseDone, FlagInv
<1>. args \in Seq(Arguments) /\ DOMAIN args = 1 .. Len(args) /\ Len(args) \in Nat
  BY <1>1 DEF FlagType
<1>2. PICK r \in Roles : ReadUpTo(r, Len(args) + 1)
  BY <1>1 DEF FlagInv
<1>3. ASSUME exited' = "no" PROVE ParsedAsRead'
  <2>1. /\ \A j : RoleOf(r, j)' = RoleOf(r, j)
        /\ \A i : HasItsValue(r, i, Len(args) + 1)' <=> HasItsValue(r, i, Len(args) + 1)
        /\ \A name : GivenAt(r, name, Len(args) + 1)' = GivenAt(r, name, Len(args) + 1)
        /\ AreTheWords(r, Len(args) + 1)' <=> AreTheWords(r, Len(args) + 1)
        /\ Roles' = Roles
    BY <1>1 DEF RoleOf, Taken, FlagEntry, HasItsValue, GivenAt, Given, AreTheWords, Roles
  <2>2. \A j \in DOMAIN args : r[j] = RoleOf(r, j)
    BY <1>2 DEF ReadUpTo
  <2>3. ASSUME NEW i \in DOMAIN flags, i \in Lookup(flags, flags[i].name)
        PROVE  /\ HasItsValue(r, i, Len(args) + 1)
               /\ flags[i].required => GivenAt(r, flags[i].name, Len(args) + 1) # {}
    <3>1. HasItsValue(r, i, Len(args) + 1)
      BY <1>2, <2>3 DEF ReadUpTo
    <3>2. flags[i].required => flags[i].value # flags[i].def
      BY <1>1, <1>3 DEF Missing
    <3>. QED
      BY <3>1, <3>2 DEF HasItsValue
  <2>4. scanned \/ AreTheWords(r, Len(args) + 1)
    BY <1>2 DEF ReadUpTo
  <2>. QED
    BY <2>1, <2>2, <2>3, <2>4, <1>1 DEF ParsedAsRead
<1>4. exited' # "no" => ParsedAsRead'
  BY DEF ParsedAsRead
<1>. QED
  BY <1>1, <1>3, <1>4 DEF FlagInv, FlagType

\* An exit says nothing of the command line any more.
LEMMA ExitKeeps ==
  ASSUME FlagInv, exited' \in {"success", "failure"},
         UNCHANGED <<args, flags, positional, parsed, scanned, at>>
  PROVE  FlagInv'
BY DEF FlagInv, FlagType, ParsedAsRead

\* A declaration is added before Parse, with its default as the value.
LEMMA AddKeeps ==
  ASSUME FlagInv, NEW d \in DOMAIN FlagDecls, Add(FlagDecls[d])
  PROVE  FlagInv'
<1>1. /\ UNCHANGED <<args, positional, parsed, exited, scanned, at>>
      /\ ~parsed /\ at = 0 /\ Fresh /\ FlagType
  BY DEF Add, Outside, FlagInv
<1>. DEFINE c == FlagDecls[d]
            e == [name |-> c.name, type |-> c.type, def |-> c.def, value |-> c.def,
                  required |-> c.required]
<1>2. e \in Entries
  BY DEF Entries, Types, FlagValues
<1>3. flags' = Append(flags, e) /\ flags \in Seq(Entries)
  BY <1>1 DEF Add, FlagType
<1>4. flags' \in Seq(Entries)
  BY <1>2, <1>3
<1>5. \A i \in DOMAIN flags' : flags'[i].value = flags'[i].def
  <2>. SUFFICES ASSUME NEW i \in DOMAIN flags' PROVE flags'[i].value = flags'[i].def
    OBVIOUS
  <2>1. e.value = e.def
    OBVIOUS
  <2>. HIDE DEF e
  <2>2. CASE i = Len(flags) + 1
    BY <2>1, <2>2, <1>2, <1>3
  <2>3. CASE i \in DOMAIN flags
    BY <2>3, <1>1, <1>2, <1>3 DEF Fresh
  <2>. QED
    BY <2>2, <2>3, <1>2, <1>3
<1>. QED
  BY <1>1, <1>4, <1>5 DEF FlagInv, FlagType, Fresh, ParsedAsRead

\* Narg only fills in the positional arguments.
LEMMA NargKeeps ==
  ASSUME FlagInv, Narg
  PROVE  FlagInv'
<1>1. /\ UNCHANGED <<args, flags, parsed, exited, at>> /\ scanned' = TRUE
      /\ at = 0 /\ FlagType
  BY DEF Narg, Outside, FlagInv
<1>2. ParsedAsRead'
  <2>1. /\ \A r : \A j : RoleOf(r, j)' = RoleOf(r, j)
        /\ \A r, i : HasItsValue(r, i, Len(args) + 1)' <=> HasItsValue(r, i, Len(args) + 1)
        /\ \A r, name : GivenAt(r, name, Len(args) + 1)' = GivenAt(r, name, Len(args) + 1)
        /\ Roles' = Roles
    BY <1>1 DEF RoleOf, Taken, FlagEntry, HasItsValue, GivenAt, Given, Roles
  <2>. QED
    BY <2>1, <1>1 DEF ParsedAsRead, FlagInv
<1>. QED
  BY <1>1, <1>2 DEF FlagInv, FlagType, Fresh

LEMMA FlagStep == FlagInv /\ [FlagNext]_flagVars => FlagInv'
<1>. SUFFICES ASSUME FlagInv, [FlagNext]_flagVars PROVE FlagInv'
  OBVIOUS
<1>1. CASE ParseHelp
  BY <1>1, ExitKeeps DEF ParseHelp
<1>2. CASE ParseRefused
  BY <1>2, ExitKeeps DEF ParseRefused
<1>3. ASSUME NEW name, FlagGet(name) PROVE FlagInv'
  BY <1>3, ExitKeeps DEF FlagGet
<1>4. CASE UNCHANGED flagVars
  <2>1. UNCHANGED <<args, flags, positional, parsed, exited, scanned, at>>
    BY <1>4 DEF flagVars
  <2>2. /\ \A r, j : Taken(r, j)' <=> Taken(r, j)
        /\ \A r, j : RoleOf(r, j)' = RoleOf(r, j)
        /\ \A r, i, n : HasItsValue(r, i, n)' <=> HasItsValue(r, i, n)
        /\ \A r, name, n : GivenAt(r, name, n)' = GivenAt(r, name, n)
        /\ \A r, n : AreTheWords(r, n)' <=> AreTheWords(r, n)
        /\ Roles' = Roles
    BY <2>1 DEF RoleOf, Taken, FlagEntry, HasItsValue, GivenAt, Given, AreTheWords, Roles
  <2>3. \A r : ReadUpTo(r, at)' <=> ReadUpTo(r, at)
    BY <2>1, <2>2 DEF ReadUpTo
  <2>4. ParsedAsRead' <=> ParsedAsRead
    BY <2>1, <2>2 DEF ParsedAsRead
  <2>. QED
    BY <2>1, <2>2, <2>3, <2>4 DEF FlagInv, FlagType, Fresh
<1>. QED
  BY <1>1, <1>2, <1>3, <1>4, ParseKeeps, WordKeeps, FlagKeeps, DoneKeeps, AddKeeps, NargKeeps
  DEF FlagNext

\* What Parse accepts it reads as a reader divides it, for every command line
\* and all declarations: which arguments are values of the flag before them,
\* which flags are given and which of several is the last, and what is left as
\* positional arguments; a required flag was given.
THEOREM FlagParsedAsRead == FlagSpec => []ParsedAsRead
<1>1. FlagInit => FlagInv
  <2>. SUFFICES ASSUME FlagInit PROVE FlagInv
    OBVIOUS
  <2>1. args \in Seq(Arguments)
    BY MaxArgsAssumption DEF FlagInit
  <2>. QED
    BY <2>1 DEF FlagInit, FlagInv, FlagType, Fresh, ParsedAsRead
<1>2. FlagInv => ParsedAsRead
  BY DEF FlagInv
<1>. QED
  BY <1>1, <1>2, FlagStep, PTL DEF FlagSpec

=============================================================================
