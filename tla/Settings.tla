------------------------------ MODULE Settings ------------------------------
(***************************************************************************)
(* bre::Ini (src/breutil/ini.hpp) and bre::Settings (settings.hpp): an INI *)
(* file in memory, and the reader that looks into the file and then into   *)
(* defaults.                                                               *)
(*                                                                         *)
(* Texts are sequences of characters, and the file is one text.  Each      *)
(* member of Ini holds the mutex of Ini and is one step.  The getters of   *)
(* Settings hold the mutex of Settings around two such steps, while        *)
(* Reload, RemoveKey and RemoveSection do not take it.                     *)
(***************************************************************************)
EXTENDS Text

LOCAL SQ == INSTANCE SequencesExt

CONSTANTS
  Cells,        \* pairs of a section and a key that clients use
  FileValues,   \* values given to Set
  DefaultCells, \* cells given to SetDefault
  DefaultValue, \* the value given to it
  ArgDefault,   \* the def argument of a getter
  Files         \* texts that others write into the file

VARIABLES
  file,     \* the text on disk, as a set that is empty when there is no file
  made,     \* whether Ini::Instance has an entry for the path
  config,   \* _config_map
  defaults, \* _default_config, by cells
  section,  \* _current_section
  reader,   \* where a thread in Settings::GetStr is
  asked,    \* the cell it asks for
  result,   \* its result
  during    \* history: what the layers held for that cell during the call

iniVars == <<file, made, config, defaults, section, reader, asked, result, during>>

NewLine == 10
Equals == 61
OpenBracket == 91
CloseBracket == 93
Escaping == 92
Quotes == {34, 39}
Comments == {59, 35}
IniBlanks == {Space, 9, NewLine, 13}
-----------------------------------------------------------------------------
(* Reading and writing the file. *)
trim(str) ==
  IF NotOf(str, IniBlanks) = {} THEN <<>>
  ELSE SubSeq(str, Least(NotOf(str, IniBlanks)), Greatest(NotOf(str, IniBlanks)))

Unescaped(c) == CASE c = 110 -> NewLine [] c = 116 -> 9 [] c = 114 -> 13 [] OTHER -> c

unescapeString(str) ==
  SQ!FoldLeft(LAMBDA st, c :
      IF st.escaped THEN [escaped |-> FALSE, out |-> Append(st.out, Unescaped(c))]
      ELSE IF c = Escaping THEN [st EXCEPT !.escaped = TRUE]
      ELSE [st EXCEPT !.out = Append(@, c)],
    [escaped |-> FALSE, out |-> <<>>], str).out

processQuotedString(raw) ==
  LET str == trim(raw)
  IN  IF str # <<>> /\ str[1] \in Quotes /\ str[Len(str)] = str[1]
      THEN unescapeString(SubSeq(str, 2, Len(str) - 1))
      ELSE str

WithoutComment(line) ==
  LET p == Least({i \in DOMAIN line : line[i] \in Comments})
  IN  IF p = NPos THEN line ELSE SubSeq(line, 1, p - 1)

\* _config_map[s]._section_datas[k] = v
Stored(map, s, k, v) ==
  LET old == IF s \in DOMAIN map THEN map[s] ELSE << >>
      new == [i \in DOMAIN old \cup {k} |-> IF i = k THEN v ELSE old[i]]
  IN  [t \in DOMAIN map \cup {s} |-> IF t = s THEN new ELSE map[t]]

\* One line of load; st has the current section and the map.
LoadLine(st, raw) ==
  LET line == trim(WithoutComment(raw))
      eq == Find(line, <<Equals>>, 1)
      key == trim(SubSeq(line, 1, eq - 1))
  IN  CASE line = <<>> -> st
        [] line # <<>> /\ line[1] = OpenBracket /\ line[Len(line)] = CloseBracket ->
             [st EXCEPT !.section = trim(SubSeq(line, 2, Len(line) - 1))]
        [] OTHER ->
             IF eq = NPos \/ key = <<>> \/ st.section = <<>> THEN st
             ELSE [st EXCEPT !.map = Stored(@, st.section, key,
                                            processQuotedString(Rest(line, eq + 1)))]

Parsed(text) ==
  SQ!FoldLeft(LoadLine, [section |-> <<>>, map |-> << >>], Split(text, <<NewLine>>)).map

\* Mutant: the line of a section is not ended.
SectionTextOpen(s, data) ==
  LET keys == SQ!SetToSeq(DOMAIN data)
  IN  <<OpenBracket>> \o s \o <<CloseBracket>>
        \o SQ!FlattenSeq([i \in DOMAIN keys |->
             keys[i] \o <<Equals>> \o data[keys[i]] \o <<NewLine>>])

SectionText(s, data) ==
  LET keys == SQ!SetToSeq(DOMAIN data)
  IN  <<OpenBracket>> \o s \o <<CloseBracket, NewLine>>
        \o SQ!FlattenSeq([i \in DOMAIN keys |->
             keys[i] \o <<Equals>> \o data[keys[i]] \o <<NewLine>>])
        \o <<NewLine>>

SaveText(map) ==
  LET names == SQ!SetToSeq(DOMAIN map)
  IN  SQ!FlattenSeq([i \in DOMAIN names |-> SectionText(names[i], map[names[i]])])
-----------------------------------------------------------------------------
(* The layers. *)
HasKeyIn(map, c) == c[1] \in DOMAIN map /\ c[2] \in DOMAIN map[c[1]]
GetStrIn(map, c, def) == IF HasKeyIn(map, c) THEN map[c[1]][c[2]] ELSE def

\* What the defaults and the argument give for a cell.
BelowFile(defs, c) == IF c \in DOMAIN defs THEN defs[c] ELSE ArgDefault
Layered(map, defs, c) == GetStrIn(map, c, BelowFile(defs, c))
Moment(map, defs, c) == [inFile |-> HasKeyIn(map, c), value |-> Layered(map, defs, c)]

\* Members of Ini run at any time; what the layers hold is noted for the reader.
Note(map, defs) ==
  during' = IF reader = "found" THEN during \cup {Moment(map, defs, asked)} ELSE during

Change(map) ==
  /\ made /\ config' = map
  /\ Note(map, defaults)
  /\ UNCHANGED <<file, made, defaults, section, reader, asked, result>>

DefaultSection == <<100, 101, 102, 97, 117, 108, 116>>     \* "default"

IniInit ==
  /\ file = {} /\ made = FALSE /\ config = << >>
  /\ defaults = << >> /\ section = DefaultSection
  /\ reader = "idle" /\ asked = <<>> /\ result = <<>> /\ during = {}

\* load clears the map before it knows that the file can be opened.
LoadedMap == IF file = {} THEN << >> ELSE Parsed(CHOOSE t \in file : TRUE)

\* Instance makes the entry before it loads: when load throws it stays, empty,
\* and the next call returns it.
Instance(nullIni) ==
  /\ ~made /\ made' = TRUE
  /\ config' = IF nullIni THEN << >> ELSE LoadedMap
  /\ UNCHANGED <<file, defaults, section, reader, asked, result, during>>

Reload == Change(LoadedMap)

Save ==
  /\ made
  /\ file' = {SaveText(config)}
  /\ UNCHANGED <<made, config, defaults, section, reader, asked, result, during>>

\* Another program, or the user, replaces or removes the file.
FileChanges ==
  /\ file' \in {{t} : t \in Files} \cup {{}}
  /\ UNCHANGED <<made, config, defaults, section, reader, asked, result, during>>

RemoveSection(s) == Change([t \in DOMAIN config \ {s} |-> config[t]])

RemoveKey(c) ==
  /\ c[1] \in DOMAIN config
  /\ Change([config EXCEPT ![c[1]] = [k \in DOMAIN @ \ {c[2]} |-> @[k]]])

\* operator[] makes a section that is not there.
SectionAt(s) ==
  Change([t \in DOMAIN config \cup {s} |-> IF t \in DOMAIN config THEN config[t] ELSE << >>])

\* Ini::Set; Settings::Set is the same under the mutex of Settings.
SetKey(c, v) == Change(Stored(config, c[1], c[2], v))

\* The mutex of Settings is free: no getter is between its two steps.
Unlocked == reader # "found"

SetDefault(c) ==
  /\ made /\ Unlocked
  /\ defaults' = [d \in DOMAIN defaults \cup {c} |-> DefaultValue]
  /\ UNCHANGED <<file, made, config, section, reader, asked, result, during>>

UseSection(s) ==
  /\ made /\ Unlocked /\ section' = s
  /\ UNCHANGED <<file, made, config, defaults, reader, asked, result, during>>

\* Mutant: a key with a default is not looked for in the file.
InFileNoDefault(c) == HasKeyIn(config, c) /\ c \notin DOMAIN defaults

InFile(c) == HasKeyIn(config, c)

\* GetStr(key) passes _current_section by reference, so it is read under the
\* mutex.  First step: HasKey; a key that is not in the file is answered from
\* the defaults.
Ask(k) ==
  /\ made /\ reader = "idle"
  /\ asked' = <<section, k>>
  /\ during' = {Moment(config, defaults, <<section, k>>)}
  /\ IF InFile(<<section, k>>)
     THEN reader' = "found" /\ UNCHANGED result
     ELSE reader' = "done" /\ result' = BelowFile(defaults, <<section, k>>)
  /\ UNCHANGED <<file, made, config, defaults, section>>

\* Second step: _file_config.GetStr(section, key), whose own default is "".
ReadFile == GetStrIn(config, asked, <<>>)

Answer ==
  /\ reader = "found" /\ reader' = "done"
  /\ result' = ReadFile
  /\ UNCHANGED <<file, made, config, defaults, section, asked, during>>

Return ==
  /\ reader = "done" /\ reader' = "idle"
  /\ asked' = <<>> /\ result' = <<>> /\ during' = {}
  /\ UNCHANGED <<file, made, config, defaults, section>>

IniNext ==
  \/ \E nullIni \in BOOLEAN : Instance(nullIni)
  \/ Reload \/ Save \/ FileChanges \/ Answer \/ Return
  \/ \E c \in DefaultCells : SetDefault(c)
  \/ \E c \in Cells :
       \/ RemoveKey(c)
       \/ RemoveSection(c[1]) \/ SectionAt(c[1]) \/ UseSection(c[1])
       \/ Ask(c[2])
       \/ \E v \in FileValues : SetKey(c, v)
-----------------------------------------------------------------------------
(* Properties. *)

PlainText(text) ==
  /\ text = trim(text)
  /\ \A i \in DOMAIN text : text[i] \notin Comments \cup {Equals, OpenBracket, NewLine}

\* Values that stand in the file as they are.
Literal(v) == PlainText(v) /\ processQuotedString(v) = v

\* What Save writes, load reads back: with plain names, every plain value comes
\* back in its section, whatever the other values are (quoted, with comment
\* characters, escapes or blanks), as long as they hold no line break.
SavedIsReadBack ==
  LET again == Parsed(SaveText(config))
      tame == \A s \in DOMAIN config :
                /\ s # <<>> /\ PlainText(s)
                /\ \A k \in DOMAIN config[s] :
                     /\ k # <<>> /\ PlainText(k)
                     /\ \A i \in DOMAIN config[s][k] : config[s][k][i] # NewLine
  IN  tame =>
        /\ DOMAIN again = {s \in DOMAIN config : DOMAIN config[s] # {}}
        /\ \A s \in DOMAIN again :
             /\ DOMAIN again[s] = DOMAIN config[s]
             /\ \A k \in DOMAIN again[s] : Literal(config[s][k]) => again[s][k] = config[s][k]

\* A getter of Settings answers what the layers (the file, then the defaults,
\* then its argument) held at some moment of the call; only when the key left
\* the file between its two steps may it answer the empty text instead.
GetIsLayered ==
  reader = "done" =>
    \/ \E m \in during : result = m.value
    \/ result = <<>> /\ \E m, n \in during : m.inFile /\ ~n.inFile
=============================================================================
