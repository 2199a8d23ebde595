-------------------------------- MODULE Text --------------------------------
(***************************************************************************)
(* The text helpers of backup/misc.c and the string lists of               *)
(* chameleon/stringlist.c.  A text is a sequence of characters, each a     *)
(* string of its own; a word of letters no rule looks into may be one.     *)
(***************************************************************************)
EXTENDS Integers, Sequences, FiniteSets, SequencesExt, TLC

CONSTANT Null   \* the null pointer, which the helpers also return on errors

\* The characters that are no letters or digits, with their hex digits.
HexDigits ==
  " " :> <<"2", "0">> @@ "\"" :> <<"2", "2">> @@ "#" :> <<"2", "3">> @@
  "%" :> <<"2", "5">> @@ "*" :> <<"2", "A">> @@ "," :> <<"2", "C">> @@
  "." :> <<"2", "E">> @@ "/" :> <<"2", "F">> @@ "=" :> <<"3", "D">> @@
  "?" :> <<"3", "F">> @@ "\\" :> <<"5", "C">> @@ "\n" :> <<"0", "A">>

Alphanumeric(c) == c \notin DOMAIN HexDigits

Code(c) == IF Alphanumeric(c) THEN <<c>> ELSE <<"%">> \o HexDigits[c]

Text_Escape(src, maxsize) ==
  LET out == FlattenSeq([i \in DOMAIN src |-> Code(src[i])])
  IN IF Len(out) < maxsize THEN out ELSE Null

\* A sequence with one more element in front, unless the rest failed.
Before(c, rest) == IF rest = Null THEN Null ELSE <<c>> \o rest

RECURSIVE Unescaped(_)
Unescaped(src) ==
  IF src = <<>> THEN <<>>
  ELSE IF Alphanumeric(Head(src)) THEN Before(Head(src), Unescaped(Tail(src)))
  ELSE LET chars == {c \in DOMAIN HexDigits : IsPrefix(Code(c), src)}
       IN IF chars = {} THEN Null
          ELSE Before(CHOOSE c \in chars : TRUE,
                      Unescaped(SubSeq(src, 4, Len(src))))

Text_Unescape(src, maxsize) ==
  LET out == Unescaped(src)
  IN IF out = Null \/ Len(out) >= maxsize THEN Null ELSE out

\* Text_Compare takes a missing text and an empty one for the same.
Compared(s) == IF s = Null THEN <<>> ELSE s

\* The first place of s, from i on, that has a property; one past the end.
FirstFrom(s, i, Test(_)) ==
  CHOOSE j \in i..(Len(s) + 1) :
    /\ j > Len(s) \/ Test(s[j])
    /\ \A k \in i..(j - 1) : ~Test(s[k])

(***************************************************************************)
(* Text_GetWord with TEXT_FLAGS_NEED_DELIMITER and NULL_IS_DELIMITER, as   *)
(* its only caller sets them: the word up to a delimiter and what follows. *)
(***************************************************************************)
Text_GetWord(src, delims, maxsize) ==
  LET at == FirstFrom(src, 1, LAMBDA c : c \in delims)
  IN IF at > maxsize THEN Null
     ELSE [word |-> SubSeq(src, 1, at - 1), next |-> SubSeq(src, at, Len(src))]

(***************************************************************************)
(* Patterns: "?" stands for any character, "*" for any text.               *)
(***************************************************************************)

\* Text__cmpSegment: word and pattern side by side, up to the next "*".
RECURSIVE cmpSegment(_, _, _, _)
cmpSegment(w, i, p, j) ==
  IF i <= Len(w) /\ j <= Len(p) /\ p[j] # "*" /\ p[j] \in {w[i], "?"}
  THEN cmpSegment(w, i + 1, p, j + 1)
  ELSE [ok |-> IF j <= Len(p) THEN p[j] = "*" ELSE i > Len(w),
        w |-> i, p |-> j]

\* Mutant of findSegment: a segment that does not match at once is not found.
findSegmentHere(w, i, p, j) ==
  IF i <= Len(w) THEN cmpSegment(w, i, p, j) ELSE [ok |-> FALSE, w |-> i, p |-> j]

\* Text__findSegment: the first place of the word where the segment matches.
findSegment(w, i, p, j) ==
  LET starts == {k \in i..Len(w) : cmpSegment(w, k, p, j).ok}
  IN IF starts = {} THEN [ok |-> FALSE, w |-> Len(w), p |-> j]
     ELSE cmpSegment(w, CHOOSE k \in starts : \A l \in starts : k <= l, p, j)

RECURSIVE FollowPattern(_, _, _)
FollowPattern(w, p, at) ==
  /\ at.ok
  /\ \/ at.p >= Len(p)                       \* at the end, or at a final "*"
     \/ FollowPattern(w, p, findSegment(w, at.w, p, at.p + 1))

\* Text_ComparePattern returns something else than -1 (upper case matters).
Text_ComparePattern(w, p) == FollowPattern(w, p, cmpSegment(w, 1, p, 1))

AQBackup__FindInStringList(sl, s) ==
  \E i \in DOMAIN sl : Text_ComparePattern(s, sl[i])

\* StringList_AppendString with checkDouble set.
StringList_AppendString(sl, s) == IF Contains(sl, s) THEN sl ELSE Append(sl, s)

\* The entry that equals s, found and unlinked.
StringList_RemoveString(sl, s) == RemoveFirst(sl, s)
=============================================================================
