-------------------------------- MODULE Conf --------------------------------
(***************************************************************************)
(* The configuration trees of chameleon/conf.c and the files they are      *)
(* written to and read from.  The programs and the repository server keep  *)
(* everything that outlives a process, the data files apart, in such files.*)
(*                                                                         *)
(* A tree is a sequence of groups, the first being its root, each with the *)
(* position of its parent; that gives the lists of a parent their order.   *)
(* A mode is a set of CONFIGMODE names.  A number, a time and a word of    *)
(* plain letters are one character each of the texts.                      *)
(***************************************************************************)
EXTENDS Text

CONSTANTS
  IntLimit,   \* an int is below it and not below -IntLimit
  ClockBack,  \* local time repeats an hour here; times count hours
  LineMax,    \* most characters one fgets takes from a file
  PathMax     \* longest path of a group that can be written

ASSUME LimitsAssumption ==
  {IntLimit, ClockBack, LineMax, PathMax} \subseteq Nat \ {0}

Group(parent, name) == [parent |-> parent, name |-> name, variables |-> <<>>]
Variable(name)      == [name |-> name, values |-> <<>>]
Config_new          == <<Group(0, <<>>)>>

AddGroup(cfg, g, name)    == Append(cfg, Group(g, name))
AddVariable(cfg, g, name) == [cfg EXCEPT ![g].variables = Append(@, Variable(name))]

Groups(cfg, g) == SelectSeq([i \in DOMAIN cfg |-> i], LAMBDA i : cfg[i].parent = g)

Upper(c) == IF c = "a" THEN "A" ELSE c
Config_Compare(s1, s2) ==
  Len(s1) = Len(s2) /\ \A i \in DOMAIN s1 : Upper(s1[i]) = Upper(s2[i])

First(S) == IF S = {} THEN 0 ELSE CHOOSE i \in S : \A j \in S : i <= j

FindGroup(cfg, g, name) ==
  First({i \in DOMAIN cfg : cfg[i].parent = g /\ Config_Compare(cfg[i].name, name)})

FindVariable(cfg, g, name) ==
  LET vars == cfg[g].variables
  IN First({i \in DOMAIN vars : Config_Compare(vars[i].name, name)})

RECURSIVE Split(_, _)
Split(s, c) ==
  LET i == FirstFrom(s, 1, LAMBDA x : x = c)
  IN IF i > Len(s) THEN <<s>>
     ELSE <<SubSeq(s, 1, i - 1)>> \o Split(SubSeq(s, i + 1, Len(s)), c)

\* The elements of a path; one slash in front and one at the end do not count.
Elements(path) ==
  LET parts == Split(path, "/")
      from  == IF Head(parts) = <<>> THEN 2 ELSE 1
      to    == IF Last(parts) = <<>> THEN Len(parts) - 1 ELSE Len(parts)
  IN SubSeq(parts, from, to)

(***************************************************************************)
(* Config__GetPath: the group or variable at the end of a path, which is   *)
(* made, with the groups on its way, unless the mode says otherwise.  The  *)
(* result has the place of the group and of the variable in it; no group   *)
(* means failure.                                                          *)
(***************************************************************************)
NotFound(cfg) == [cfg |-> cfg, group |-> 0, variable |-> 0]

RECURSIVE Descend(_, _, _, _)
Descend(cfg, g, elements, mode) ==
  LET name  == Head(elements)
      last  == Len(elements) = 1
      isVar == last /\ "VARIABLE" \in mode
      anew  == \/ "PATHCREATE" \in mode
               \/ isVar /\ "NAMECREATE_VARIABLE" \in mode
               \/ last /\ ~isVar /\ "NAMECREATE_GROUP" \in mode
      Fails(found) ==
        ~anew /\ (IF found = 0
                  THEN (IF last THEN "NAMEMUSTEXIST" ELSE "PATHMUSTEXIST")
                  ELSE (IF last THEN "NAMEMUSTNOTEXIST" ELSE "PATHMUSTNOTEXIST"))
                 \in mode
      Go(after, place) ==
        IF isVar THEN [cfg |-> after, group |-> g, variable |-> place]
        ELSE IF last THEN [cfg |-> after, group |-> place, variable |-> 0]
        ELSE Descend(after, place, Tail(elements), mode)
      Made(after) == Go(after, IF isVar THEN Len(after[g].variables) ELSE Len(after))
      Reached(found) ==
        IF Fails(found) THEN NotFound(cfg)
        ELSE IF found # 0 /\ ~anew THEN Go(cfg, found)
        ELSE Made(IF isVar THEN AddVariable(cfg, g, name) ELSE AddGroup(cfg, g, name))
  IN Reached(IF isVar THEN FindVariable(cfg, g, name) ELSE FindGroup(cfg, g, name))

GetPath(cfg, g, path, mode) ==
  LET To(elements) == IF elements = <<>> THEN NotFound(cfg)
                      ELSE Descend(cfg, g, elements, mode)
  IN To(Elements(path))

Config_GetGroup(cfg, g, path, mode) == GetPath(cfg, g, path, mode \ {"VARIABLE"})

-----------------------------------------------------------------------------
\* Values.
Config_GetValue(cfg, g, path, default, idx) ==
  LET ValueAt(at) ==
        IF at.group = 0 \/ idx > Len(cfg[at.group].variables[at.variable].values)
        THEN default
        ELSE cfg[at.group].variables[at.variable].values[idx]
  IN ValueAt(GetPath(cfg, g, path, {"PATHMUSTEXIST", "NAMEMUSTEXIST", "VARIABLE"}))

\* All values of a variable, as a loop over idx gets them.
GetValues(cfg, g, path) ==
  LET v == FindVariable(cfg, g, path)
  IN IF v = 0 THEN <<>> ELSE cfg[g].variables[v].values

Number(n) == <<ToString(n)>>
Ints      == (-IntLimit)..(IntLimit - 1)

Config_GetIntValue(cfg, g, path, default) ==
  LET IntOf(value) == IF \E n \in Ints : Number(n) = value
                      THEN CHOOSE n \in Ints : Number(n) = value
                      ELSE default
  IN IntOf(Config_GetValue(cfg, g, path, Null, 1))

\* localtime: the clock is set back by one hour at ClockBack.
Local(t)  == IF t < ClockBack THEN t ELSE t - 1
Stamp(t)  == <<"time", ToString(Local(t))>>
Times     == 0..(2 * ClockBack)

(***************************************************************************)
(* Config_GetTimeValue.  mktime is given tm_isdst=-1: which of two times   *)
(* with one local form it chooses is up to the C library ("later").        *)
(***************************************************************************)
Config_GetTimeValue(cfg, g, path, default, later) ==
  LET OneOf(times) ==
        IF times = {} THEN default
        ELSE CHOOSE t \in times : \A u \in times : IF later THEN u <= t ELSE t <= u
  IN OneOf({t \in Times : Stamp(t) = Config_GetValue(cfg, g, path, Null, 1)})

\* Called for one value after the other, which all go to the variable that has
\* the name.  With a mode that makes or empties it there is one value.
Config_SetValue(cfg, g, mode, path, values) ==
  LET SetAt(at) == [at.cfg EXCEPT ![at.group].variables[at.variable].values =
                      IF "OVERWRITE_VARS" \in mode THEN values ELSE @ \o values]
  IN IF values = <<>> THEN cfg
     ELSE SetAt(GetPath(cfg, g, path, mode \cup {"VARIABLE"}))

\* An int parameter keeps the low bits of what it is given.
ToInt(n) == ((n + IntLimit) % (2 * IntLimit)) - IntLimit

IntText(n) == Number(ToInt(n))

-----------------------------------------------------------------------------
\* Writing.

Joined(values) ==
  FlattenSeq([i \in DOMAIN values |->
    (IF i = 1 THEN <<>> ELSE <<",">>) \o <<"\"">> \o values[i] \o <<"\"">>])

Lines(variables) ==
  FlattenSeq([i \in DOMAIN variables |->
    variables[i].name \o <<"=">> \o Joined(variables[i].values) \o <<"\n">>])

\* Config__WriteGroup: what is written before a path is too long stays.
RECURSIVE WriteGroup(_, _, _, _)
WriteGroup(cfg, g, path, mode) ==
  LET Under(k)  == IF path = <<>> THEN cfg[k].name ELSE path \o <<"/">> \o cfg[k].name
      Header(k) == IF cfg[k].variables # <<>> \/ "EMPTY_GROUPS" \in mode
                   THEN <<"\n", "[">> \o Under(k) \o <<"]", "\n">> ELSE <<>>
      Write(done, k) ==
        IF ~done.ok \/ Len(path) + 1 + Len(cfg[k].name) > PathMax
        THEN [done EXCEPT !.ok = FALSE]
        ELSE LET below == WriteGroup(cfg, k, Under(k), mode)
             IN [text |-> done.text \o Header(k) \o below.text, ok |-> below.ok]
  IN FoldLeft(Write, [text |-> Lines(cfg[g].variables), ok |-> TRUE], Groups(cfg, g))

Config_WriteFile(cfg, mode) == WriteGroup(cfg, 1, <<>>, mode)

-----------------------------------------------------------------------------
\* Reading.

Blank(c)   == c \in {" ", "\t", "\n"}   \* below 33
Control(c) == c \in {"\t", "\n"}        \* below 32

Skip(s, i) == FirstFrom(s, i, LAMBDA c : ~Blank(c))

RECURSIVE WithoutTrailing(_)
WithoutTrailing(s) == IF s # <<>> /\ Blank(Last(s)) THEN WithoutTrailing(Front(s)) ELSE s

Unquoted(s, mode) ==
  LET t == IF "REMOVE_TRAILING_BLANKS" \in mode THEN WithoutTrailing(s) ELSE s
  IN IF /\ {"REMOVE_TRAILING_BLANKS", "REMOVE_QUOTES"} \subseteq mode
        /\ Len(t) > 1 /\ Head(t) = "\"" /\ Last(t) = "\""
     THEN SubSeq(t, 2, Len(t) - 1) ELSE t

SkipIn(s, i, mode) == IF "REMOVE_STARTING_BLANKS" \in mode THEN Skip(s, i) ELSE i

\* One value: a backslash takes the next character, quotes keep "#" and ",".
RECURSIVE ScanValue(_, _, _, _, _)
ScanValue(s, i, quotes, esc, value) ==
  LET Stop(at, q) == [at |-> at, quotes |-> q, value |-> value]
  IN IF i > Len(s) \/ (i <= Len(s) /\ Control(s[i])) THEN Stop(i, quotes)
     ELSE IF esc THEN ScanValue(s, i + 1, quotes, FALSE, Append(value, s[i]))
     ELSE IF s[i] = "\\" THEN ScanValue(s, i + 1, quotes, TRUE, value)
     ELSE IF s[i] = "\"" /\ quotes = 1 THEN Stop(i + 1, 2)
     ELSE IF s[i] = "\"" THEN ScanValue(s, i + 1, 1, FALSE, value)
     ELSE IF s[i] \in {"#", ","} /\ quotes = 0 THEN Stop(i, quotes)
     ELSE ScanValue(s, i + 1, quotes, FALSE, Append(value, s[i]))

\* The values separated by commas; Null for a missing or an unexpected one.
RECURSIVE ReadValues(_, _, _, _)
ReadValues(s, i, first, mode) ==
  LET a == SkipIn(s, i, mode)
      r == ScanValue(s, SkipIn(s, IF first THEN a ELSE a + 1, mode), 0, FALSE, <<>>)
  IN IF i > Len(s) \/ a > Len(s) \/ (i <= Len(s) /\ Control(s[i])) THEN <<>>
     ELSE IF (s[a] = ",") = first \/ r.quotes = 1 THEN Null
     ELSE LET value == IF r.quotes = 0 THEN Unquoted(r.value, mode) ELSE r.value
          IN IF r.at <= Len(s) /\ s[r.at] = "#" THEN <<value>>
             ELSE Before(value, ReadValues(s, r.at, FALSE, mode))

\* The group a "[path]" line selects; at is the place behind the bracket.
SelectGroup(cfg, s, at, mode) ==
  LET from == Skip(s, at)
      to   == FirstFrom(s, from, LAMBDA c : Control(c) \/ c \in {"]", "#"})
  IN IF to > Len(s) \/ s[to] # "]" \/ "ALLOW_GROUPS" \notin mode THEN NotFound(cfg)
     ELSE Config_GetGroup(cfg, 1, SubSeq(s, from, to - 1), mode)

\* Mutant of VariableFor: repeated lines of one name make variables of their own.
VariableForEach(cfg, g, name, mode) == Len(cfg[g].variables) + 1

\* The variable values go to: a new one, or the one that has the name.
VariableFor(cfg, g, name, mode) ==
  LET found == FindVariable(cfg, g, name)
  IN IF found = 0 \/ "NAMECREATE_VARIABLE" \in mode
     THEN Len(cfg[g].variables) + 1 ELSE found

\* Config_ParseLine: the tree and its current group, 0 for an error.
Config_ParseLine(cfg, g, s, mode) ==
  LET Selected(at) == [cfg |-> at.cfg, group |-> at.group]
      open == Skip(s, 1)
      from == SkipIn(s, 1, mode)
      to   == FirstFrom(s, from, LAMBDA c : Control(c) \/ c \in {"=", "#"})
      name == Unquoted(SubSeq(s, from, to - 1), mode)
      var  == VariableFor(cfg, g, name, mode)
      more == IF var > Len(cfg[g].variables) THEN AddVariable(cfg, g, name) ELSE cfg
      vals == ReadValues(s, to + 1, TRUE, mode)
  IN IF open <= Len(s) /\ s[open] = "["
     THEN Selected(SelectGroup(cfg, s, open + 1, mode))
     ELSE IF to > Len(s) \/ (to <= Len(s) /\ s[to] # "=")
     THEN [cfg |-> cfg, group |-> g]                      \* taken for an empty line
     ELSE IF name = <<>> \/ vals = Null
     THEN [cfg |-> cfg, group |-> 0]
     ELSE [cfg   |-> [more EXCEPT ![g].variables[var].values = @ \o vals],
           group |-> g]

\* The pieces fgets returns: up to the end of the line, or LineMax characters.
RECURSIVE Pieces(_)
Pieces(text) ==
  LET end == FirstFrom(text, 1, LAMBDA c : c = "\n")
      cut == Min({LineMax, end, Len(text)})
  IN IF text = <<>> THEN <<>>
     ELSE <<SubSeq(text, 1, cut)>> \o Pieces(SubSeq(text, cut + 1, Len(text)))

\* Config_ReadFile: Null for a file with an error.
Config_ReadFile(text, mode) ==
  LET Parse(read, line) ==
        IF read.group = 0 THEN read
        ELSE Config_ParseLine(read.cfg, read.group, line, mode)
      Result(read) == IF read.group = 0 THEN Null ELSE read.cfg
  IN Result(FoldLeft(Parse, [cfg |-> Config_new, group |-> 1], Pieces(text)))
=============================================================================
