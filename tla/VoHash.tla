-------------------------------- MODULE VoHash --------------------------------
(***************************************************************************)
(* source_sha256 of scripts/ci_vo_hash.py against the Rocq lexer: what the *)
(* hash forgets of a .v source, and what the compiler would have seen.     *)
(* A sha256 is as good as the normalised text it is taken of, so that text *)
(* stands for it.  Sources grow one character at a time; an edit puts in,  *)
(* takes out or replaces one character anywhere.                           *)
(***************************************************************************)
EXTENDS Naturals, Sequences

CONSTANTS
  Alphabet,   \* the characters of the instance
  MaxLen,     \* bound: the length of a source
  MaxSolid    \* bound: the length of a source without blanks

ASSUME AlphabetAssumption ==
  Alphabet \subseteq {"(", "*", ")", "quote", "space", "newline", "x"}

ASSUME MaxLenAssumption == MaxLen \in Nat /\ MaxSolid \in Nat

VARIABLE source   \* the content of a .v file

Pair(t, i, a, b) == i < Len(t) /\ t[i] = a /\ t[i + 1] = b

Blank(c) == c \in {"space", "newline"}

-----------------------------------------------------------------------------
(* The regex of source_sha256: \(\*.*?\*\), DOTALL, scanned left to right. *)

\* Bug: the greedy form of the regex closes at the last "*)".
Closes_Greedy(t, i) ==
  Pair(t, i, "*", ")") /\ \A j \in (i + 1)..Len(t) : ~ Pair(t, j, "*", ")")

Closes(t, i) == Pair(t, i, "*", ")")

\* A match starts at i only if some "*)" comes later.
Opens(t, i) ==
  Pair(t, i, "(", "*") /\ \E j \in (i + 2)..Len(t) : Closes(t, j)

\* After i characters: inside a match?  Is the next character the second half
\* of a delimiter?  Was character i part of a match?
Outside == [in |-> FALSE, half |-> FALSE, gone |-> FALSE]

Scan(t, i, p) ==
  LET starts == ~ p.half /\ ~ p.in /\ Opens(t, i)
      stops == ~ p.half /\ p.in /\ Closes(t, i)
  IN  [in   |-> (p.in \/ starts) /\ ~ stops,
       half |-> starts \/ stops,
       gone |-> p.in \/ p.half \/ starts]

Matching(t) ==
  LET m[i \in 0..Len(t)] == IF i = 0 THEN Outside ELSE Scan(t, i, m[i - 1])
  IN m

\* The positions the regex leaves in.
Kept(t) == LET m == Matching(t) IN {i \in 1..Len(t) : ~ m[i].gone}

\* The positions of S in order, as a text.
Select(t, S) ==
  LET sel[i \in 0..Len(t)] ==
        IF i = 0 THEN <<>>
        ELSE IF i \in S THEN Append(sel[i - 1], t[i]) ELSE sel[i - 1]
  IN sel[Len(t)]

\* Bug: whitespace is removed, not normalised.
Normal_NoBlanks(s) == Select(s, {i \in 1..Len(s) : ~ Blank(s[i])})

\* rstrip every line, drop the blank ones, join with newlines.
Normal(s) ==
  LET solid == {i \in 1..Len(s) : ~ Blank(s[i])}
      \* no newline from i up to j
      sameLine(i, j) == \A k \in i..j : s[k] # "newline"
      inner == {i \in 1..Len(s) : s[i] = "space" /\
                   \E j \in solid : i < j /\ sameLine(i, j)}
      breaks == {i \in 1..Len(s) : s[i] = "newline" /\
                   /\ \E j \in solid : j < i /\ sameLine(j, i - 1)
                   /\ \E j \in solid : i < j}
  IN Select(s, solid \cup inner \cup breaks)

\* The text the hash is taken of.
source_sha256(t) == Normal(Select(t, Kept(t)))

-----------------------------------------------------------------------------
(* The Rocq lexer: comments nest, and a string literal hides delimiters,   *)
(* inside a comment too.                                                   *)

Toplevel == [depth |-> 0, str |-> FALSE, half |-> FALSE, code |-> FALSE]

Lex(t, i, p) ==
  LET free == ~ p.half /\ ~ p.str
      deeper == free /\ Pair(t, i, "(", "*")
      up == free /\ p.depth > 0 /\ Pair(t, i, "*", ")")
      flip == ~ p.half /\ t[i] = "quote"
  IN  [depth |-> IF deeper THEN p.depth + 1
                 ELSE IF up THEN p.depth - 1 ELSE p.depth,
       str   |-> IF flip THEN ~ p.str ELSE p.str,
       half  |-> deeper \/ up,
       code  |-> p.depth = 0 /\ ~ p.half /\ ~ deeper]

Lexing(t) ==
  LET l[i \in 0..Len(t)] == IF i = 0 THEN Toplevel ELSE Lex(t, i, l[i - 1])
  IN l

WellFormed(t) ==
  LET l == Lexing(t) IN l[Len(t)].depth = 0 /\ ~ l[Len(t)].str

\* No comment ends that has not begun: "*)" in code is two tokens, which no
\* source of the corpus has side by side.
Balanced(t) ==
  LET l == Lexing(t)
  IN /\ WellFormed(t)
     /\ \A i \in 1..Len(t) :
          Pair(t, i, "*", ")") => l[i - 1].half \/ l[i - 1].str \/ l[i - 1].depth > 0

\* The positions of characters the compiler reads.
CodeAt(t) ==
  LET l == Lexing(t)
  IN {i \in 1..Len(t) : l[i].code /\ (l[i - 1].str \/ ~ Blank(t[i]))}

\* The code: its characters, with a mark where whitespace or a comment parts
\* two of them.  A source that is not well formed does not compile.
Code(t) ==
  IF ~ WellFormed(t) THEN <<"error">>
  ELSE LET at == CodeAt(t)
           code[i \in 0..Len(t)] ==
             IF i = 0 THEN <<>>
             ELSE IF i \notin at THEN code[i - 1]
             ELSE IF i - 1 \notin at /\ code[i - 1] # <<>>
                  THEN code[i - 1] \o <<"gap", t[i]>>
                  ELSE Append(code[i - 1], t[i])
       IN code[Len(t)]

-----------------------------------------------------------------------------
Init == source = <<>>

Bound(t) == IF \E i \in 1..Len(t) : Blank(t[i]) THEN MaxLen ELSE MaxSolid

Type(c) ==
  /\ source' = Append(source, c)
  /\ Len(source') <= Bound(source')

Next == \E c \in Alphabet : Type(c)

Spec == Init /\ [][Next]_source

Put(t, i, c) == [t EXCEPT ![i] = c]
Insert(t, i, c) == SubSeq(t, 1, i) \o <<c>> \o SubSeq(t, i + 1, Len(t))
Delete(t, i) == SubSeq(t, 1, i - 1) \o SubSeq(t, i + 1, Len(t))

Edits(t) ==
  {Put(t, i, c) : i \in 1..Len(t), c \in Alphabet}
    \cup {Delete(t, i) : i \in 1..Len(t)}
    \cup {Insert(t, i, c) : i \in 0..Len(t), c \in Alphabet}

\* The edits the invalidator takes for no edit: it ages the file.
UnseenEdits(t) ==
  LET recorded == source_sha256(t)
  IN {u \in Edits(t) : source_sha256(u) = recorded}

-----------------------------------------------------------------------------
(* Properties.                                                             *)

\* "non-greedy: never eats code" (ci_vo_hash.py): no character the compiler
\* reads of a well-formed source is inside a match of the regex.
NeverEatsCode == WellFormed(source) => CodeAt(source) \subseteq Kept(source)

\* The premise of the cache (DigestAssumption of CorpusCache): an edit of a
\* balanced source into a balanced one that the compiler can tell changes the
\* hash.
EditIsSeen ==
  Balanced(source) =>
     \A u \in UnseenEdits(source) : Balanced(u) => Code(u) = Code(source)

\* "under-stripping (e.g. around nested comments) only ever causes an extra
\* (safe) rebuild, never a skipped one" (ci_vo_hash.py): whatever a well-formed
\* source is edited into, equal hashes mean equal code.
NeverASkippedRebuild ==
  WellFormed(source) => \A u \in UnseenEdits(source) : Code(u) = Code(source)
===============================================================================
