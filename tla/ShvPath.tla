------------------------------ MODULE ShvPath ------------------------------
(***************************************************************************)
(* Paths of the SHV tree (ShvPath) and the string functions they are built *)
(* on (shv::core::utils).  A string is a sequence of characters, a split   *)
(* path a sequence of strings.                                             *)
(***************************************************************************)
EXTENDS Integers, Sequences, SequencesExt, FiniteSetsExt

SHV_PATH_DELIM == "/"
SHV_PATH_QUOTE == "'"
NoQuote == ""
NPos == -1

(***************************************************************************)
(* shv::core::utils                                                        *)
(***************************************************************************)
Occurrences(s, c) == {i \in DOMAIN s : s[i] = c}

\* getToken(): up to the first delimiter that stands outside quotes.
TokenIgnoringQuotes(s, delim, quote) ==
  LET ends == {i \in DOMAIN s : s[i] = delim}
  IN IF ends = {} THEN s ELSE SubSeq(s, 1, Min(ends) - 1)
getToken(s, delim, quote) ==
  LET quotes == IF quote = NoQuote THEN {} ELSE Occurrences(s, quote)
      ends == {i \in Occurrences(s, delim) \ quotes :
                 Cardinality({q \in quotes : q < i}) % 2 = 0}
  IN IF ends = {} THEN s ELSE SubSeq(s, 1, Min(ends) - 1)

Unquoted(token, quote) ==
  IF Len(token) >= 2 /\ Head(token) = quote /\ Last(token) = quote
  THEN SubSeq(token, 2, Len(token) - 1) ELSE token

\* split(): the scan stops where a token reaches the end of the string, so a
\* delimiter at the end adds one empty part.
RECURSIVE SplitFrom(_, _, _, _, _)
SplitFrom(s, delim, quote, skipEmpty, removeQuotes) ==
  LET token == getToken(s, delim, quote)
      part == IF skipEmpty /\ token = <<>> THEN <<>>
              ELSE <<IF removeQuotes THEN Unquoted(token, quote) ELSE token>>
  IN IF Len(token) >= Len(s) THEN part
     ELSE part \o SplitFrom(SubSeq(s, Len(token) + 2, Len(s)), delim, quote, skipEmpty, removeQuotes)
split(s, delim, quote, skipEmpty, removeQuotes) ==
  IF s = <<>> THEN <<>> ELSE SplitFrom(s, delim, quote, skipEmpty, removeQuotes)

\* join(): the delimiter is left out while the result is still empty.
RECURSIVE join(_, _)
join(parts, delim) ==
  IF parts = <<>> THEN <<>>
  ELSE LET front == join(Front(parts), delim)
       IN (IF front = <<>> THEN <<>> ELSE Append(front, delim)) \o Last(parts)

RECURSIVE TrimLeft(_, _), TrimRight(_, _)
TrimLeft(s, c) == IF s # <<>> /\ Head(s) = c THEN TrimLeft(Tail(s), c) ELSE s
TrimRight(s, c) == IF s # <<>> /\ Last(s) = c THEN TrimRight(Front(s), c) ELSE s

joinPath(p1, p2) ==
  LET s1 == TrimRight(p1, "/")
      s2 == TrimLeft(p2, "/")
  IN IF s2 = <<>> THEN s1 ELSE IF s1 = <<>> THEN s2 ELSE s1 \o <<"/">> \o s2

\* slice(): a part without start characters at its start and, end being zero
\* or negative, -end characters at its end.
Clamp(n, lo, hi) == IF n < lo THEN lo ELSE IF n > hi THEN hi ELSE n
slice(s, start, end) ==
  LET from == Clamp(start, 0, Len(s))
      to == Max({Clamp(Len(s) + end, 0, Len(s)), from})
  IN SubSeq(s, from + 1, to)

\* simplifyPath() on split paths: "." and ".." are resolved, ".." at the root
\* goes nowhere.
RECURSIVE simplifyPath(_)
simplifyPath(dirs) ==
  IF dirs = <<>> THEN <<>>
  ELSE LET front == simplifyPath(Front(dirs))
       IN CASE Last(dirs) = <<".">> -> front
            [] Last(dirs) = <<".", ".">> -> IF front = <<>> THEN <<>> ELSE Front(front)
            [] OTHER -> Append(front, Last(dirs))

\* indexOf(), find_str(): the first place of needle in positions from..to-1.
Occurs(hay, pos, needle) == SubSeq(hay, pos + 1, pos + Len(needle)) = needle
find_str(hay, from, to, needle) ==
  IF needle = <<>> \/ from > Len(hay) \/ to > Len(hay) \/ from < 0 \/ Len(needle) > to - from THEN NPos
  ELSE LET at == {p \in from..(to - Len(needle)) : Occurs(hay, p, needle)}
       IN IF at = {} THEN NPos ELSE Min(at)

\* indexOfBrackets(): the first opening bracket and the closing one that
\* belongs to it.
RECURSIVE MatchBracket(_, _, _, _, _, _, _)
MatchBracket(hay, open0, open1, close1, nest, open, close) ==
  IF open1 = NPos \/ close1 = NPos THEN <<open0, close1>>
  ELSE LET next == find_str(hay, open1 + Len(open), close1, open)
       IN IF next # NPos THEN MatchBracket(hay, open0, next, close1, nest + 1, open, close)
          ELSE IF nest = 0 THEN <<open0, close1>>
          ELSE MatchBracket(hay, open0, close1, find_str(hay, close1 + Len(close), Len(hay), close),
                            nest - 1, open, close)
BracketsNotNested(hay, from, open, close) ==
  LET open0 == find_str(hay, from, Len(hay), open)
  IN <<open0, find_str(hay, open0, Len(hay), close)>>
indexOfBrackets(hay, from, open, close) ==
  IF from + Len(open) > Len(hay) THEN <<NPos, NPos>>
  ELSE LET open0 == find_str(hay, from, Len(hay), open)
       IN MatchBracket(hay, open0, open0, find_str(hay, open0, Len(hay), close), 0, open, close)

\* findLongestPrefix(): the longest of the keys that is the path or one of
\* the directories above it.
RECURSIVE findLongestPrefix(_, _)
findLongestPrefix(keys, value) ==
  IF value \in keys THEN value
  ELSE LET slashes == Occurrences(value, "/")
       IN IF slashes = {} THEN <<NPos>>
          ELSE findLongestPrefix(keys, SubSeq(value, 1, Max(slashes) - 1))

(***************************************************************************)
(* ShvPath                                                                 *)
(***************************************************************************)
startsWithString(s, path) == IsPrefix(path, s)
startsWithPath(s, path) ==
  \/ path = <<>>
  \/ /\ IsPrefix(path, s)
     /\ Len(s) = Len(path) \/ s[Len(path) + 1] = SHV_PATH_DELIM \/ Last(path) = SHV_PATH_DELIM

splitPath(s) == split(s, SHV_PATH_DELIM, SHV_PATH_QUOTE, TRUE, TRUE)

firstDir(s) == Unquoted(getToken(s, SHV_PATH_DELIM, SHV_PATH_QUOTE), SHV_PATH_QUOTE)
takeFirsDir(s) ==
  [dir |-> firstDir(s),
   rest |-> SubSeq(s, Len(getToken(s, SHV_PATH_DELIM, SHV_PATH_QUOTE)) + 2, Len(s))]

\* A directory with a slash in its name is quoted, unless it is already.
need_quotes(dir) ==
  /\ Occurrences(dir, SHV_PATH_DELIM) # {}
  /\ ~(Len(dir) >= 2 /\ Head(dir) = SHV_PATH_QUOTE /\ Last(dir) = SHV_PATH_QUOTE)
NeverQuoted(dir) == dir
Quoted(dir) ==
  IF need_quotes(dir) THEN <<SHV_PATH_QUOTE>> \o dir \o <<SHV_PATH_QUOTE>> ELSE dir
NonEmpty(dir) == dir # <<>>
RECURSIVE JoinQuoted(_)
JoinQuoted(dirs) ==
  IF dirs = <<>> THEN <<>>
  ELSE LET front == JoinQuoted(Front(dirs))
       IN (IF front = <<>> THEN <<>> ELSE Append(front, SHV_PATH_DELIM)) \o Quoted(Last(dirs))
joinDirs(dirs) == JoinQuoted(SelectSeq(dirs, NonEmpty))
appendDir(path, dir) ==
  LET base == TrimRight(path, "/")
  IN IF dir = <<>> THEN base
     ELSE IF base = <<>> THEN Quoted(dir)
     ELSE base \o <<SHV_PATH_DELIM>> \o Quoted(dir)

\* forEachDirAndSubdirsDeleteIf(): the keys of a map below a directory.
DirAndSubdirs(keys, root) == {k \in keys : k = root \/ IsPrefix(Append(root, SHV_PATH_DELIM), k)}

(***************************************************************************)
(* matchWild(): "**" is followed to the first segment that equals the one  *)
(* after it in the pattern, and there is no way back.                      *)
(***************************************************************************)
AnySegment == <<"*">>
AnyPath == <<"*", "*">>
RECURSIVE matchFrom(_, _, _, _)
matchFrom(path, pattern, ph, pt) ==
  IF pt > Len(pattern) THEN ph > Len(path)
  ELSE IF ph > Len(path) THEN pt = Len(pattern) /\ pattern[pt] = AnyPath
  ELSE IF pattern[pt] = AnyPath
    THEN \/ pt = Len(pattern)
         \/ LET same == {i \in ph..Len(path) : path[i] = pattern[pt + 1]}
            IN same # {} /\ matchFrom(path, pattern, Min(same) + 1, pt + 2)
  ELSE (pattern[pt] = AnySegment \/ path[ph] = pattern[pt]) /\ matchFrom(path, pattern, ph + 1, pt + 1)
matchWild(path, pattern) == matchFrom(path, pattern, 1, 1)
=============================================================================
