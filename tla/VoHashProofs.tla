---------------------------- MODULE VoHashProofs ----------------------------
(***************************************************************************)
(* What source_sha256 forgets of a source without string literals, however *)
(* long it is: what its regex removes, and which edits it does not see.    *)
(***************************************************************************)
EXTENDS VoHash, Recursion, SequenceTheorems

-----------------------------------------------------------------------------
(* The two scans *)

MatchState == [in : BOOLEAN, half : BOOLEAN, gone : BOOLEAN]
LexState == [depth : Nat, str : BOOLEAN, half : BOOLEAN, code : BOOLEAN]

\* The regex, and the lexer, take one character after the other.
LEMMA MatchingScans ==
  ASSUME NEW t, Len(t) \in Nat
  PROVE  /\ Matching(t)[0] = Outside
         /\ \A i \in 1..Len(t) : Matching(t)[i] = Scan(t, i, Matching(t)[i - 1])
<1> DEFINE n == Len(t)
           D(m) == [i \in 0..n |-> IF i = 0 THEN Outside ELSE Scan(t, i, m[i - 1])]
           step == [i \in 1..n |-> [p \in MatchState |-> Scan(t, i, p)]]
<1>1. Outside \in MatchState
  BY DEF Outside, MatchState
<1>2. ASSUME NEW i \in 1..n, NEW p \in MatchState PROVE Scan(t, i, p) \in MatchState
  BY DEF Scan, MatchState
<1>3. step \in [1..n -> [MatchState -> MatchState]]
  BY <1>2
<1>4. PICK g \in [0..n -> MatchState] : Follows(g, Outside, step, n)
  <2> HIDE DEF step
  <2> QED
    BY <1>1, <1>3, IntervalRecursion
<1>5. ASSUME NEW i \in 1..n PROVE g[i] = Scan(t, i, g[i - 1])
  <2>1. g[i - 1] \in MatchState
    OBVIOUS
  <2> QED
    BY <1>4, <2>1 DEF Follows
<1>6. g = D(g)
  BY <1>4, <1>5 DEF Follows
<1>7. Matching(t) = CHOOSE m : m = D(m)
  BY DEF Matching
<1>8. Matching(t) = D(Matching(t))
  <2> HIDE DEF D
  <2> QED
    BY <1>6, <1>7
<1>9. Matching(t)[0] = Outside
  BY <1>8
<1>10. \A i \in 1..n : Matching(t)[i] = Scan(t, i, Matching(t)[i - 1])
  BY <1>8
<1> QED
  BY <1>9, <1>10

LEMMA LexIsTyped ==
  ASSUME NEW t, NEW i, NEW p \in LexState
  PROVE  Lex(t, i, p) \in LexState
<1> DEFINE free == ~ p.half /\ ~ p.str
           deeper == free /\ Pair(t, i, "(", "*")
           up == free /\ p.depth > 0 /\ Pair(t, i, "*", ")")
           flip == ~ p.half /\ t[i] = "quote"
           depth == IF deeper THEN p.depth + 1
                    ELSE IF up THEN p.depth - 1 ELSE p.depth
           str == IF flip THEN ~ p.str ELSE p.str
<1>1. p.depth \in Nat /\ p.str \in BOOLEAN
  BY DEF LexState
<1>2. depth \in Nat
  <2> HIDE DEF deeper
  <2> QED
    BY <1>1
<1>3. str \in BOOLEAN
  <2> HIDE DEF flip
  <2> QED
    BY <1>1
<1>4. Lex(t, i, p) = [depth |-> depth, str |-> str, half |-> deeper \/ up,
                      code |-> p.depth = 0 /\ ~ p.half /\ ~ deeper]
  BY DEF Lex
<1> HIDE DEF depth, str, deeper, up
<1> QED
  BY <1>2, <1>3, <1>4 DEF LexState

LEMMA LexingScans ==
  ASSUME NEW t, Len(t) \in Nat
  PROVE  /\ Lexing(t)[0] = Toplevel
         /\ \A i \in 1..Len(t) : Lexing(t)[i] = Lex(t, i, Lexing(t)[i - 1])
<1> DEFINE n == Len(t)
           D(l) == [i \in 0..n |-> IF i = 0 THEN Toplevel ELSE Lex(t, i, l[i - 1])]
           step == [i \in 1..n |-> [p \in LexState |-> Lex(t, i, p)]]
<1>1. Toplevel \in LexState
  BY DEF Toplevel, LexState
<1>2. ASSUME NEW i \in 1..n, NEW p \in LexState PROVE Lex(t, i, p) \in LexState
  BY LexIsTyped
<1>3. step \in [1..n -> [LexState -> LexState]]
  BY <1>2
<1>4. PICK g \in [0..n -> LexState] : Follows(g, Toplevel, step, n)
  <2> HIDE DEF step
  <2> QED
    BY <1>1, <1>3, IntervalRecursion
<1>5. ASSUME NEW i \in 1..n PROVE g[i] = Lex(t, i, g[i - 1])
  <2>1. g[i - 1] \in LexState
    OBVIOUS
  <2> QED
    BY <1>4, <2>1 DEF Follows
<1>6. g = D(g)
  BY <1>4, <1>5 DEF Follows
<1>7. Lexing(t) = CHOOSE l : l = D(l)
  BY DEF Lexing
<1>8. Lexing(t) = D(Lexing(t))
  <2> HIDE DEF D
  <2> QED
    BY <1>6, <1>7
<1>9. Lexing(t)[0] = Toplevel
  BY <1>8
<1>10. \A i \in 1..n : Lexing(t)[i] = Lex(t, i, Lexing(t)[i - 1])
  BY <1>8
<1> QED
  BY <1>9, <1>10

-----------------------------------------------------------------------------
(* The regex inside a match is the lexer inside a comment *)

\* After i characters, with the regex in state m and the lexer in state l.
\* The regex may leave a nested comment early, and not later than the lexer.
Coupled(t, i, m, l) ==
  /\ m \in MatchState /\ l \in LexState
  /\ ~ l.str
  /\ m.in => l.depth >= 1
  /\ m.half => l.half \/ l.depth >= 1
  /\ m.in /\ m.half => l.half
  /\ l.half => t[i + 1] \in {"*", ")"}

LEMMA CoupledAtStart ==
  ASSUME NEW t
  PROVE  Coupled(t, 0, Outside, Toplevel)
BY DEF Coupled, Outside, Toplevel, MatchState, LexState

LEMMA CoupledStep ==
  ASSUME NEW t, Len(t) \in Nat, NEW i \in 1..Len(t), t[i] # "quote",
         NEW m, NEW l, Coupled(t, i - 1, m, l)
  PROVE  /\ Coupled(t, i, Scan(t, i, m), Lex(t, i, l))
         /\ Scan(t, i, m).gone => ~ Lex(t, i, l).code
<1> DEFINE starts == ~ m.half /\ ~ m.in /\ Opens(t, i)
           stops == ~ m.half /\ m.in /\ Closes(t, i)
           deeper == ~ l.half /\ Pair(t, i, "(", "*")
           up == ~ l.half /\ l.depth > 0 /\ Pair(t, i, "*", ")")
<1>1. /\ m.in \in BOOLEAN /\ m.half \in BOOLEAN
      /\ l.depth \in Nat /\ l.half \in BOOLEAN /\ ~ l.str
      /\ m.in => l.depth >= 1
      /\ m.half => l.half \/ l.depth >= 1
      /\ m.in /\ m.half => l.half
      /\ l.half => t[i] \in {"*", ")"}
  BY DEF Coupled, MatchState, LexState
<1>2. LET s == Scan(t, i, m)
      IN /\ s \in MatchState
         /\ s.in = ((m.in \/ starts) /\ ~ stops)
         /\ s.half = (starts \/ stops)
         /\ s.gone = (m.in \/ m.half \/ starts)
  BY DEF Scan, MatchState
<1>3. LET s == Lex(t, i, l)
      IN /\ s \in LexState
         /\ ~ s.str
         /\ s.half = (deeper \/ up)
         /\ s.code = (l.depth = 0 /\ ~ l.half /\ ~ deeper)
         /\ s.depth = IF deeper THEN l.depth + 1
                      ELSE IF up THEN l.depth - 1 ELSE l.depth
  <2>1. l \in LexState
    BY DEF Coupled
  <2>2. Lex(t, i, l) \in LexState
    BY <2>1, LexIsTyped
  <2>3. ~ Lex(t, i, l).str
    BY <1>1 DEF Lex
  <2>4. Lex(t, i, l).half = (deeper \/ up)
    BY <1>1 DEF Lex
  <2>5. Lex(t, i, l).code = (l.depth = 0 /\ ~ l.half /\ ~ deeper)
    BY <1>1 DEF Lex
  <2>6. Lex(t, i, l).depth = IF deeper THEN l.depth + 1
                             ELSE IF up THEN l.depth - 1 ELSE l.depth
    BY <1>1 DEF Lex
  <2> QED
    BY <2>2, <2>3, <2>4, <2>5, <2>6
<1>4. starts => deeper
  BY <1>1 DEF Opens, Pair
<1>5. up /\ m.in => stops
  BY <1>1 DEF Closes
<1>6. stops => l.depth >= 1
  BY <1>1
<1>7. (deeper \/ up) => t[i + 1] \in {"*", ")"}
  BY DEF Pair
<1>8. ~ (deeper /\ up)
  BY DEF Pair
<1> DEFINE mm == Scan(t, i, m)
           ll == Lex(t, i, l)
<1>9. /\ mm \in MatchState /\ ll \in LexState /\ ~ ll.str
      /\ mm.in <=> (m.in \/ starts) /\ ~ stops
      /\ mm.half <=> (starts \/ stops)
      /\ mm.gone <=> (m.in \/ m.half \/ starts)
      /\ ll.half <=> (deeper \/ up)
      /\ ll.code <=> (l.depth = 0 /\ ~ l.half /\ ~ deeper)
      /\ deeper => ll.depth = l.depth + 1
      /\ ~ deeper /\ up => ll.depth = l.depth - 1
      /\ ~ deeper /\ ~ up => ll.depth = l.depth
      /\ ll.depth \in Nat
  BY <1>2, <1>3 DEF LexState
<1> HIDE DEF starts, stops, deeper, up, mm, ll
<1>10. mm.in => ll.depth >= 1
  BY <1>1, <1>4, <1>5, <1>9
<1>11. mm.half => ll.half \/ ll.depth >= 1
  BY <1>1, <1>4, <1>6, <1>9
<1>12. mm.in /\ mm.half => ll.half
  BY <1>4, <1>9
<1>13. mm.gone => ~ ll.code
  BY <1>1, <1>4, <1>9
<1>14. Coupled(t, i, mm, ll)
  BY <1>7, <1>9, <1>10, <1>11, <1>12 DEF Coupled
<1> QED
  BY <1>13, <1>14 DEF mm, ll

\* However long the source is.
LEMMA MatchesAreComments ==
  ASSUME NEW t, Len(t) \in Nat, \A i \in 1..Len(t) : t[i] # "quote"
  PROVE  /\ \A i \in 0..Len(t) : Coupled(t, i, Matching(t)[i], Lexing(t)[i])
         /\ \A i \in 1..Len(t) : Matching(t)[i].gone => ~ Lexing(t)[i].code
<1> DEFINE S == {i \in 0..Len(t) : Coupled(t, i, Matching(t)[i], Lexing(t)[i])}
<1>1. 0 \in S
  BY CoupledAtStart, MatchingScans, LexingScans
<1>2. ASSUME NEW k \in 1..Len(t), k - 1 \in S
      PROVE  k \in S /\ (Matching(t)[k].gone => ~ Lexing(t)[k].code)
  <2>1. Coupled(t, k - 1, Matching(t)[k - 1], Lexing(t)[k - 1])
    BY <1>2
  <2>2. /\ Matching(t)[k] = Scan(t, k, Matching(t)[k - 1])
        /\ Lexing(t)[k] = Lex(t, k, Lexing(t)[k - 1])
    BY MatchingScans, LexingScans
  <2> QED
    BY <2>1, <2>2, CoupledStep
<1>3. \A k \in 0..Len(t) : k \in S
  <2> HIDE DEF S
  <2> QED
    BY <1>1, <1>2, IntervalInduction
<1>4. \A k \in 0..Len(t) : Coupled(t, k, Matching(t)[k], Lexing(t)[k])
  BY <1>3
<1>5. \A k \in 1..Len(t) : Matching(t)[k].gone => ~ Lexing(t)[k].code
  BY <1>2, <1>3
<1> QED
  BY <1>4, <1>5

-----------------------------------------------------------------------------
(* The lexer on a balanced source, step by step *)

\* A balanced source without string literals.
Plain(t) ==
  Len(t) \in Nat /\ (\A i \in 1..Len(t) : t[i] # "quote") /\ Balanced(t)

\* The state of the lexer, at rest before the first character and after the last.
Depth(t, i) == IF i \in 1..Len(t) THEN Lexing(t)[i].depth ELSE 0
Half(t, i) == i \in 1..Len(t) /\ Lexing(t)[i].half
Live(t, i) == i \in 1..Len(t) /\ Lexing(t)[i].code

Down(t, i) == ~ Half(t, i - 1) /\ Pair(t, i, "(", "*")
Up(t, i) == ~ Half(t, i - 1) /\ Pair(t, i, "*", ")")

\* The lexer is never inside a string literal.
LEMMA LexTypes ==
  ASSUME NEW t, Plain(t), NEW i \in 0..Len(t)
  PROVE  Lexing(t)[i] \in LexState /\ ~ Lexing(t)[i].str
BY MatchesAreComments DEF Plain, Coupled

LEMMA LexSets ==
  ASSUME NEW t, NEW i, NEW p
  PROVE  LET free == ~ p.half /\ ~ p.str
             deeper == free /\ Pair(t, i, "(", "*")
             up == free /\ p.depth > 0 /\ Pair(t, i, "*", ")")
         IN /\ Lex(t, i, p).half <=> deeper \/ up
            /\ Lex(t, i, p).code <=> p.depth = 0 /\ ~ p.half /\ ~ deeper
<1> DEFINE free == ~ p.half /\ ~ p.str
           deeper == free /\ Pair(t, i, "(", "*")
           up == free /\ p.depth > 0 /\ Pair(t, i, "*", ")")
<1>1. Lex(t, i, p).half = (deeper \/ up)
  BY DEF Lex
<1>2. Lex(t, i, p).code = (p.depth = 0 /\ ~ p.half /\ ~ deeper)
  BY DEF Lex
<1> QED
  BY <1>1, <1>2

\* It starts and ends outside comments.
LEMMA AtRest ==
  ASSUME NEW t, Plain(t)
  PROVE  /\ Depth(t, 0) = 0 /\ ~ Half(t, 0)
         /\ \A i \in Nat : i >= Len(t) => Depth(t, i) = 0 /\ ~ Half(t, i)
<1> DEFINE n == Len(t)
<1>1. n \in Nat
  BY DEF Plain
<1>2. ~ (0 \in 1..n)
  BY <1>1
<1>3. Depth(t, 0) = 0 /\ ~ Half(t, 0)
  BY <1>2 DEF Depth, Half
<1>4. n > 0 => Lexing(t)[n].depth = 0
  BY DEF Plain, Balanced, WellFormed
<1>5. n > 0 => ~ Lexing(t)[n].half
  <2> SUFFICES ASSUME n > 0 PROVE ~ Lexing(t)[n].half
    OBVIOUS
  <2>1. n \in 1..n
    BY <1>1
  <2>2. Lexing(t)[n] = Lex(t, n, Lexing(t)[n - 1])
    BY <1>1, <2>1, LexingScans
  <2>3. ~ (n < Len(t))
    BY <1>1
  <2> QED
    <3>1. ~ Pair(t, n, "(", "*") /\ ~ Pair(t, n, "*", ")")
      BY <2>3 DEF Pair
    <3> QED
      BY <2>2, <3>1, LexSets
<1>6. ASSUME NEW i \in Nat, i >= n PROVE Depth(t, i) = 0 /\ ~ Half(t, i)
  <2>1. CASE i = n
    BY <1>1, <1>4, <1>5, <2>1 DEF Depth, Half
  <2>2. CASE i > n
    BY <1>1, <2>2 DEF Depth, Half
  <2> QED
    BY <1>1, <1>6, <2>1, <2>2
<1> QED
  BY <1>3, <1>6

\* What character i does.
Step(t, i) ==
  /\ Depth(t, i - 1) \in Nat /\ Depth(t, i) \in Nat
  /\ Half(t, i) <=> Down(t, i) \/ Up(t, i)
  /\ Down(t, i) => Depth(t, i) = Depth(t, i - 1) + 1
  /\ Up(t, i) => Depth(t, i) = Depth(t, i - 1) - 1
  /\ ~ Down(t, i) /\ ~ Up(t, i) => Depth(t, i) = Depth(t, i - 1)
  /\ Live(t, i) <=>
       i <= Len(t) /\ Depth(t, i - 1) = 0 /\ ~ Half(t, i - 1) /\ ~ Down(t, i)

\* A balanced source has no "*)" outside comments, so that every one closes one.
LEMMA Stepwise ==
  ASSUME NEW t, Plain(t), NEW i \in Nat \ {0}
  PROVE  Step(t, i)
<1> DEFINE n == Len(t)
           l == Lexing(t)[i - 1]
<1>1. n \in Nat
  BY DEF Plain
<1>2. CASE i > n
  <2>1. Depth(t, i - 1) = 0 /\ Depth(t, i) = 0 /\ ~ Half(t, i)
    BY <1>1, <1>2, AtRest
  <2>2. ~ Pair(t, i, "(", "*") /\ ~ Pair(t, i, "*", ")") /\ ~ (i \in 1..n)
    BY <1>1, <1>2 DEF Pair
  <2> QED
    BY <1>1, <1>2, <2>1, <2>2 DEF Down, Up, Live, Step
<1>3. CASE i \in 1..n
  <2>1. /\ Depth(t, i - 1) = l.depth
        /\ Half(t, i - 1) <=> l.half
    <3>1. CASE i = 1
      <4>1. l = Toplevel
        BY <1>1, <3>1, LexingScans
      <4> QED
        BY <3>1, <4>1, AtRest DEF Toplevel
    <3>2. CASE i # 1
      <4>1. i - 1 \in 1..n
        BY <1>3, <3>2
      <4> QED
        BY <4>1 DEF Depth, Half
    <3> QED
      BY <3>1, <3>2
  <2>2. i - 1 \in 0..n
    BY <1>3
  <2>3. l \in LexState /\ ~ l.str
    BY <2>2, LexTypes
  <2>4. l.depth \in Nat /\ l.half \in BOOLEAN
    BY <2>3 DEF LexState
  <2>5. Lexing(t)[i] = Lex(t, i, l)
    BY <1>1, <1>3, LexingScans
  <2>6. Pair(t, i, "*", ")") => l.half \/ l.depth > 0
    BY <1>3, <2>3 DEF Plain, Balanced
  <2>7. Down(t, i) <=> ~ l.half /\ Pair(t, i, "(", "*")
    BY <2>1 DEF Down
  <2>8. Up(t, i) <=> ~ l.half /\ l.depth > 0 /\ Pair(t, i, "*", ")")
    BY <2>1, <2>4, <2>6 DEF Up
  <2> HIDE DEF l
  <2>9. /\ Lexing(t)[i].half <=> Down(t, i) \/ Up(t, i)
        /\ Lexing(t)[i].code <=> l.depth = 0 /\ ~ l.half /\ ~ Down(t, i)
        /\ Lexing(t)[i].depth = IF Down(t, i) THEN l.depth + 1
                                ELSE IF Up(t, i) THEN l.depth - 1 ELSE l.depth
    <3>1. Down(t, i) <=> (~ l.half /\ ~ l.str) /\ Pair(t, i, "(", "*")
      BY <2>3, <2>7
    <3>2. Up(t, i) <=> (~ l.half /\ ~ l.str) /\ l.depth > 0 /\ Pair(t, i, "*", ")")
      BY <2>3, <2>8
    <3> HIDE DEF Down, Up
    <3>3. Lexing(t)[i].half <=> Down(t, i) \/ Up(t, i)
      BY <2>5, <3>1, <3>2, LexSets
    <3>4. Lexing(t)[i].code <=> l.depth = 0 /\ ~ l.half /\ ~ Down(t, i)
      BY <2>3, <2>5, <3>1, LexSets
    <3>5. Lexing(t)[i].depth = IF Down(t, i) THEN l.depth + 1
                               ELSE IF Up(t, i) THEN l.depth - 1 ELSE l.depth
      BY <2>5, <3>1, <3>2 DEF Lex
    <3> QED
      BY <3>3, <3>4, <3>5
  <2>10. ~ (Down(t, i) /\ Up(t, i))
    BY DEF Down, Up, Pair
  <2>11. Up(t, i) => l.depth - 1 \in Nat
    BY <2>4, <2>8
  <2>12. Depth(t, i) = Lexing(t)[i].depth /\ (Half(t, i) <=> Lexing(t)[i].half)
         /\ (Live(t, i) <=> Lexing(t)[i].code)
    BY <1>3 DEF Depth, Half, Live
  <2> HIDE DEF n
  <2>13. i <= Len(t)
    BY <1>3 DEF n
  <2>14. Live(t, i) <=> i <= Len(t) /\ Depth(t, i - 1) = 0 /\ ~ Half(t, i - 1) /\ ~ Down(t, i)
    BY <2>1, <2>9, <2>12, <2>13
  <2> QED
    BY <2>1, <2>4, <2>9, <2>10, <2>11, <2>12, <2>14 DEF Step
<1> QED
  BY <1>1, <1>2, <1>3

LEMMA DepthIsNat ==
  ASSUME NEW t, Plain(t), NEW i \in Nat
  PROVE  Depth(t, i) \in Nat
<1>1. i + 1 \in Nat \ {0} /\ (i + 1) - 1 = i
  OBVIOUS
<1>2. Step(t, i + 1)
  BY <1>1, Stepwise
<1> QED
  BY <1>1, <1>2 DEF Step

\* Two sources are read alike as long as they agree,
LEMMA SamePrefix ==
  ASSUME NEW t, Plain(t), NEW u, Plain(u), NEW m \in Nat, m <= Len(t), m <= Len(u),
         \A k \in 1..m : t[k] = u[k]
  PROVE  \A i \in Nat : i < m => /\ Depth(t, i) = Depth(u, i)
                                 /\ Half(t, i) <=> Half(u, i)
<1> DEFINE Same(i) == Depth(t, i) = Depth(u, i) /\ (Half(t, i) <=> Half(u, i))
           S == {i \in Nat : i < m => Same(i)}
<1>1. 0 \in S
  BY AtRest
<1>2. ASSUME NEW i \in Nat, i \in S PROVE i + 1 \in S
  <2> SUFFICES ASSUME i + 1 < m PROVE Same(i + 1)
    OBVIOUS
  <2>1. Same(i)
    BY <1>2
  <2>2. \A a, b : Pair(t, i + 1, a, b) <=> Pair(u, i + 1, a, b)
    BY DEF Pair, Plain
  <2>3. (i + 1) - 1 = i /\ i + 1 \in Nat \ {0}
    OBVIOUS
  <2>4. (Down(t, i + 1) <=> Down(u, i + 1)) /\ (Up(t, i + 1) <=> Up(u, i + 1))
    BY <2>1, <2>2, <2>3 DEF Down, Up
  <2>5. Step(t, i + 1) /\ Step(u, i + 1)
    BY <2>3, Stepwise
  <2> QED
    BY <2>1, <2>3, <2>4, <2>5 DEF Step
<1>3. \A i \in Nat : i \in S
  <2> HIDE DEF S
  <2> QED
    BY <1>1, <1>2, SetInduction
<1> QED
  BY <1>3

\* and, once they are read alike again, up to the end.
LEMMA SameSuffix ==
  ASSUME NEW t, Plain(t), NEW u, Plain(u), NEW e \in {0, 1}, Len(t) = Len(u) + e,
         NEW j \in Nat, j >= e, \A k \in (j + 1)..Len(t) : t[k] = u[k - e],
         Half(t, j) <=> Half(u, j - e)
  PROVE  \A k \in Nat : k >= j => /\ Depth(t, k) = Depth(u, k - e)
                                  /\ Half(t, k) <=> Half(u, k - e)
<1> DEFINE Off(k) == Depth(t, k) - Depth(u, k - e)
           Same(k) == (Half(t, k) <=> Half(u, k - e)) /\ Off(k) = Off(j)
           S == {x \in Nat : Same(j + x)}
<1>1. 0 \in S
  <2>1. j + 0 = j
    OBVIOUS
  <2> QED
    BY <2>1
<1>2. ASSUME NEW x \in Nat, x \in S PROVE x + 1 \in S
  <2> DEFINE k == j + x + 1
  <2>1. Same(k - 1)
    <3>1. k - 1 = j + x
      OBVIOUS
    <3> QED
      BY <1>2, <3>1
  <2>2. k \in Nat \ {0} /\ k - e \in Nat \ {0} /\ (k - 1) - e = (k - e) - 1
    OBVIOUS
  <2>3. \A a, b : Pair(t, k, a, b) <=> Pair(u, k - e, a, b)
    <3>1. k < Len(t) <=> k - e < Len(u)
      BY DEF Plain
    <3>2. k < Len(t) => t[k] = u[k - e] /\ t[k + 1] = u[(k + 1) - e] /\ (k + 1) - e = (k - e) + 1
      BY DEF Plain
    <3> QED
      BY <3>1, <3>2 DEF Pair
  <2> HIDE DEF k
  <2>4. (Down(t, k) <=> Down(u, k - e)) /\ (Up(t, k) <=> Up(u, k - e))
    BY <2>1, <2>2, <2>3 DEF Down, Up
  <2> DEFINE k2 == k - e
  <2>0. Step(t, k) /\ Step(u, k2)
    BY <2>2, Stepwise
  <2>5. Half(t, k) <=> Half(u, k - e)
    BY <2>0, <2>4 DEF Step
  <2>6. Off(k) = Off(k - 1)
    <3>1. Off(k - 1) = Depth(t, k - 1) - Depth(u, k2 - 1)
      BY <2>2
    <3>2. Off(k) = Depth(t, k) - Depth(u, k2)
      OBVIOUS
    <3>3. (Down(t, k) <=> Down(u, k2)) /\ (Up(t, k) <=> Up(u, k2))
      BY <2>4
    <3> HIDE DEF k2, Off
    <3> QED
      BY <2>0, <3>1, <3>2, <3>3 DEF Step
  <2>7. j + (x + 1) = k
    BY DEF k
  <2> QED
    BY <2>1, <2>5, <2>6, <2>7
<1>3. \A x \in Nat : x \in S
  <2> HIDE DEF S
  <2> QED
    BY <1>1, <1>2, SetInduction
<1>4. \A k \in Nat : k >= j => Same(k)
  <2> SUFFICES ASSUME NEW k \in Nat, k >= j PROVE Same(k)
    OBVIOUS
  <2>1. k - j \in Nat /\ j + (k - j) = k
    OBVIOUS
  <2>2. k - j \in S
    BY <1>3, <2>1
  <2>3. Same(j + (k - j))
    BY <2>2
  <2> HIDE DEF Same
  <2> QED
    BY <2>1, <2>3
<1>6. Off(j) = 0
  <2> DEFINE k == j + Len(t)
  <2>1. Len(t) \in Nat /\ Len(u) \in Nat
    BY DEF Plain
  <2>2. k \in Nat /\ k >= j /\ k >= Len(t) /\ k - e \in Nat /\ k - e >= Len(u)
    BY <2>1
  <2> HIDE DEF k
  <2>3. Depth(t, k) = 0 /\ Depth(u, k - e) = 0
    BY <2>2, AtRest
  <2>4. Off(k) = Off(j)
    BY <1>4, <2>2
  <2> QED
    BY <2>3, <2>4
<1>7. ASSUME NEW k \in Nat, k >= j PROVE Depth(t, k) = Depth(u, k - e)
  <2>1. Off(k) = 0
    BY <1>4, <1>6, <1>7
  <2>2. Depth(t, k) \in Nat /\ Depth(u, k - e) \in Nat
    <3>1. k - e \in Nat
      BY <1>7
    <3> QED
      BY <3>1, DepthIsNat
  <2> QED
    BY <2>1, <2>2
<1> QED
  BY <1>4, <1>7

-----------------------------------------------------------------------------
(* What an edit of one character does to the lexer *)

\* u is t with another character at q, without the one at q.
PutAt(t, u, q) ==
  /\ Len(u) = Len(t) /\ q \in 1..Len(t)
  /\ \A k \in 1..Len(t) : k # q => u[k] = t[k]
  /\ t[q] # u[q]

DeleteAt(t, u, q) ==
  /\ Len(t) = Len(u) + 1 /\ q \in 1..Len(t)
  /\ \A k \in 1..(q - 1) : u[k] = t[k]
  /\ \A k \in (q + 1)..Len(t) : u[k - 1] = t[k]

\* A comment starts, or ends, one character earlier: "((*" and "(**", "**)" and "*))".
OpensEarlier(t, u, q) ==
  /\ q > 1 /\ q < Len(t)
  /\ t[q - 1] = "(" /\ t[q] = "(" /\ t[q + 1] = "*" /\ u[q] = "*"

ClosesEarlier(t, u, q) ==
  /\ q > 1 /\ q < Len(t)
  /\ t[q - 1] = "*" /\ t[q] = "*" /\ t[q + 1] = ")" /\ u[q] = ")"

\* What character i does, told from the states around it.
Move(t, i) ==
  /\ Depth(t, i - 1) \in Nat /\ Depth(t, i) \in Nat
  /\ Half(t, i - 1) => ~ Half(t, i)
  /\ ~ Half(t, i) => Depth(t, i) = Depth(t, i - 1)
  /\ Half(t, i) =>
       /\ i < Len(t)
       /\ \/ t[i] = "(" /\ t[i + 1] = "*" /\ Depth(t, i) = Depth(t, i - 1) + 1
          \/ t[i] = "*" /\ t[i + 1] = ")" /\ Depth(t, i) = Depth(t, i - 1) - 1
  /\ i < Len(t) /\ ~ Half(t, i - 1) /\ ~ Half(t, i) =>
       ~ (t[i] = "(" /\ t[i + 1] = "*") /\ ~ (t[i] = "*" /\ t[i + 1] = ")")
  /\ Live(t, i) <=> /\ i <= Len(t) /\ ~ Half(t, i - 1)
                    /\ Depth(t, i - 1) = 0 /\ Depth(t, i) = 0

LEMMA Moves ==
  ASSUME NEW t, Plain(t), NEW i \in Nat \ {0}
  PROVE  Move(t, i)
<1>1. Step(t, i)
  BY Stepwise
<1>2. Len(t) \in Nat
  BY DEF Plain
<1>3. Down(t, i) <=> ~ Half(t, i - 1) /\ i < Len(t) /\ t[i] = "(" /\ t[i + 1] = "*"
  BY DEF Down, Pair
<1>4. Up(t, i) <=> ~ Half(t, i - 1) /\ i < Len(t) /\ t[i] = "*" /\ t[i + 1] = ")"
  BY DEF Up, Pair
<1>5. ~ (Down(t, i) /\ Up(t, i))
  BY <1>3, <1>4
<1>6. Live(t, i) <=> /\ i <= Len(t) /\ ~ Half(t, i - 1)
                     /\ Depth(t, i - 1) = 0 /\ Depth(t, i) = 0
  BY <1>1, <1>2 DEF Step
<1>7. ~ Half(t, i) => Depth(t, i) = Depth(t, i - 1)
  BY <1>1 DEF Step
<1>8. Half(t, i) =>
        /\ i < Len(t) /\ ~ Half(t, i - 1)
        /\ \/ t[i] = "(" /\ t[i + 1] = "*" /\ Depth(t, i) = Depth(t, i - 1) + 1
           \/ t[i] = "*" /\ t[i + 1] = ")" /\ Depth(t, i) = Depth(t, i - 1) - 1
  BY <1>1, <1>3, <1>4 DEF Step
<1>9. i < Len(t) /\ ~ Half(t, i - 1) /\ ~ Half(t, i) =>
        ~ (t[i] = "(" /\ t[i + 1] = "*") /\ ~ (t[i] = "*" /\ t[i + 1] = ")")
  BY <1>1, <1>3, <1>4 DEF Step
<1> QED
  BY <1>1, <1>6, <1>7, <1>8, <1>9 DEF Move, Step

\* Read alike once behind the edit, two sources are read alike to the end.
LEMMA PutAlikeFrom ==
  ASSUME NEW t, Plain(t), NEW u, Plain(u), NEW q, PutAt(t, u, q),
         NEW j \in Nat, j >= q, Half(t, j) <=> Half(u, j)
  PROVE  \A k \in Nat : k >= j => Depth(t, k) = Depth(u, k) /\ (Half(t, k) <=> Half(u, k))
<1>1. q \in Nat /\ Len(t) \in Nat /\ Len(t) = Len(u) + 0
  BY DEF PutAt, Plain
<1>2. \A k \in (j + 1)..Len(t) : t[k] = u[k - 0]
  BY <1>1 DEF PutAt
<1>3. j - 0 = j /\ j >= 0 /\ 0 \in {0, 1}
  OBVIOUS
<1>4. \A k \in Nat : k >= j => Depth(t, k) = Depth(u, k - 0) /\ (Half(t, k) <=> Half(u, k - 0))
  BY <1>1, <1>2, <1>3, SameSuffix
<1>5. \A k \in Nat : k - 0 = k
  OBVIOUS
<1> QED
  BY <1>4, <1>5

LEMMA PutReversed ==
  ASSUME NEW t, NEW u, NEW q, PutAt(t, u, q)
  PROVE  PutAt(u, t, q)
BY DEF PutAt

\* The moves around an edit, and the characters behind it.
Window(t, u, q) ==
  /\ q \in Nat \ {0} /\ q <= Len(t) /\ Len(t) \in Nat /\ Len(u) = Len(t)
  /\ q + 1 \in Nat \ {0} /\ q + 2 \in Nat \ {0}
  /\ (q + 2) - 1 = q + 1 /\ (q + 1) - 1 = q
  /\ (q + 1) + 1 = q + 2 /\ (q + 2) + 1 = q + 3
  /\ Move(t, q) /\ Move(t, q + 1) /\ Move(t, q + 2)
  /\ Move(u, q) /\ Move(u, q + 1) /\ Move(u, q + 2)
  /\ q + 1 <= Len(t) => t[q + 1] = u[q + 1]
  /\ q + 2 <= Len(t) => t[q + 2] = u[q + 2]
  /\ q + 3 <= Len(t) => t[q + 3] = u[q + 3]

LEMMA Windows ==
  ASSUME NEW t, Plain(t), NEW u, Plain(u), NEW q, PutAt(t, u, q)
  PROVE  Window(t, u, q)
<1>1. /\ q \in Nat \ {0} /\ q <= Len(t) /\ Len(t) \in Nat /\ Len(u) = Len(t)
      /\ q + 1 \in Nat \ {0} /\ q + 2 \in Nat \ {0}
      /\ (q + 2) - 1 = q + 1 /\ (q + 1) - 1 = q
      /\ (q + 1) + 1 = q + 2 /\ (q + 2) + 1 = q + 3
  BY DEF PutAt, Plain
<1>2. /\ Move(t, q) /\ Move(t, q + 1) /\ Move(t, q + 2)
      /\ Move(u, q) /\ Move(u, q + 1) /\ Move(u, q + 2)
  BY <1>1, Moves
<1>3. /\ q + 1 <= Len(t) => t[q + 1] = u[q + 1]
      /\ q + 2 <= Len(t) => t[q + 2] = u[q + 2]
      /\ q + 3 <= Len(t) => t[q + 3] = u[q + 3]
  BY <1>1 DEF PutAt
<1> QED
  BY <1>1, <1>2, <1>3 DEF Window

\* Two characters behind the edit no source is halfway through a delimiter
\* that the other does not have.
LEMMA HalfAgain ==
  ASSUME NEW t, Plain(t), NEW u, Plain(u), NEW q, PutAt(t, u, q),
         Half(t, q + 2)
  PROVE  Half(u, q + 2)
<1> SUFFICES ASSUME ~ Half(u, q + 2) PROVE FALSE
  OBVIOUS
<1>1. Window(t, u, q)
  BY Windows
<1>2. /\ ~ Half(t, q + 1) /\ q + 2 < Len(t) /\ t[q + 2] \in {"(", "*"}
      /\ (t[q + 2] = "(" /\ t[q + 3] = "*") \/ (t[q + 2] = "*" /\ t[q + 3] = ")")
  BY <1>1 DEF Window, Move
<1>3. Half(u, q + 1)
  BY <1>1, <1>2 DEF Window, Move
<1>4. u[q + 1] = "(" /\ ~ Half(u, q)
  BY <1>1, <1>2, <1>3 DEF Window, Move
<1>5. Half(t, q)
  BY <1>1, <1>2, <1>3 DEF Window, Move
<1> QED
  BY <1>1, <1>2, <1>4, <1>5 DEF Window, Move

LEMMA PutAgainAlike ==
  ASSUME NEW t, Plain(t), NEW u, Plain(u), NEW q, PutAt(t, u, q)
  PROVE  \A k \in Nat : k >= q + 2 => Depth(t, k) = Depth(u, k) /\ (Half(t, k) <=> Half(u, k))
<1>1. PutAt(u, t, q)
  BY PutReversed
<1>2. Half(t, q + 2) <=> Half(u, q + 2)
  BY <1>1, HalfAgain
<1>3. q + 2 \in Nat /\ q + 2 >= q
  BY DEF PutAt
<1> QED
  BY <1>2, <1>3, PutAlikeFrom

\* Come to alike, the edited character is the first half of a delimiter in
\* both sources or in none.
LEMMA HalfAtPut ==
  ASSUME NEW t, Plain(t), NEW u, Plain(u), NEW q, PutAt(t, u, q),
         Depth(t, q - 1) = Depth(u, q - 1), Half(t, q - 1) <=> Half(u, q - 1),
         Half(t, q)
  PROVE  Half(u, q)
<1> SUFFICES ASSUME ~ Half(u, q) PROVE FALSE
  OBVIOUS
<1>1. Window(t, u, q)
  BY Windows
<1>2. Depth(t, q) # Depth(u, q) /\ ~ Half(t, q + 1) /\ t[q + 1] \in {"*", ")"}
      /\ Depth(t, q + 1) = Depth(t, q) /\ q < Len(t)
  BY <1>1 DEF Window, Move
<1>3. CASE ~ Half(u, q + 1)
  <2>1. Depth(u, q + 1) = Depth(u, q)
    BY <1>1, <1>3 DEF Window, Move
  <2>2. q + 1 \in Nat /\ q + 1 >= q
    BY <1>1 DEF Window
  <2>3. Depth(t, q + 1) = Depth(u, q + 1)
    BY <1>2, <1>3, <2>2, PutAlikeFrom
  <2> QED
    BY <1>2, <2>1, <2>3
<1>4. CASE Half(u, q + 1)
  <2>1. /\ t[q] = "(" /\ t[q + 1] = "*" /\ Depth(t, q) = Depth(t, q - 1) + 1
        /\ q + 2 <= Len(t) /\ t[q + 2] = ")" /\ Depth(u, q + 1) = Depth(u, q) - 1
        /\ Depth(u, q) = Depth(u, q - 1)
    BY <1>1, <1>2, <1>4 DEF Window, Move
  <2>2. Depth(t, q + 2) = Depth(t, q + 1) /\ Depth(u, q + 2) = Depth(u, q + 1)
    BY <1>1, <1>2, <1>4, <2>1 DEF Window, Move
  <2>3. q + 2 \in Nat /\ q + 2 >= q + 2
    BY <1>1 DEF Window
  <2>4. Depth(t, q + 2) = Depth(u, q + 2)
    BY <2>3, PutAgainAlike
  <2> QED
    BY <1>1, <1>2, <2>1, <2>2, <2>4 DEF Window, Move
<1> QED
  BY <1>3, <1>4

\* The character before it is, too, unless a comment starts or ends earlier.
LEMMA HalfBeforePut ==
  ASSUME NEW t, Plain(t), NEW u, Plain(u), NEW q, PutAt(t, u, q), q > 1,
         Depth(t, q - 2) = Depth(u, q - 2), Half(t, q - 2) <=> Half(u, q - 2),
         ~ OpensEarlier(u, t, q), ~ ClosesEarlier(u, t, q),
         Half(t, q - 1)
  PROVE  Half(u, q - 1)
<1> SUFFICES ASSUME ~ Half(u, q - 1) PROVE FALSE
  OBVIOUS
<1>1. Window(t, u, q)
  BY Windows
<1>2. /\ q - 1 \in Nat \ {0} /\ (q - 1) - 1 = q - 2 /\ (q - 1) + 1 = q
      /\ t[q - 1] = u[q - 1] /\ t[q] # u[q]
  BY <1>1 DEF Window, PutAt
<1>3. Move(t, q - 1) /\ Move(u, q - 1)
  BY <1>2, Moves
<1>4. /\ ~ Half(t, q) /\ Depth(t, q) = Depth(t, q - 1)
      /\ Depth(u, q - 1) = Depth(u, q - 2)
      /\ Depth(t, q - 1) # Depth(t, q - 2)
  BY <1>1, <1>2, <1>3 DEF Window, Move
<1>5. q \in Nat /\ q >= q /\ q + 1 \in Nat /\ q + 1 >= q /\ q + 2 \in Nat /\ q + 2 >= q + 2
  BY <1>1 DEF Window
<1>6. CASE ~ Half(u, q)
  <2>1. Depth(u, q) = Depth(u, q - 1)
    BY <1>1, <1>6 DEF Window, Move
  <2>2. Depth(t, q) = Depth(u, q)
    BY <1>4, <1>5, <1>6, PutAlikeFrom
  <2> QED
    BY <1>4, <2>1, <2>2
<1>7. CASE Half(u, q)
  <2>1. q < Len(u) /\ t[q + 1] = u[q + 1] /\ ~ Half(u, q + 1) /\ Depth(u, q + 1) = Depth(u, q)
    BY <1>1, <1>7 DEF Window, Move
  <2>2. CASE t[q - 1] = "("
    <3>1. t[q] = "*"
      BY <1>2, <1>3, <2>2 DEF Move
    <3>2. u[q] = "(" /\ u[q + 1] = "*"
      BY <1>1, <1>2, <1>7, <3>1 DEF Window, Move
    <3> QED
      BY <1>1, <1>2, <2>1, <2>2, <3>1, <3>2 DEF Window, OpensEarlier
  <2>3. CASE t[q - 1] # "("
    <3>1. t[q - 1] = "*" /\ t[q] = ")" /\ Depth(t, q - 1) = Depth(t, q - 2) - 1
      BY <1>2, <1>3, <2>3 DEF Move
    <3>2. u[q] = "(" /\ u[q + 1] = "*" /\ Depth(u, q) = Depth(u, q - 1) + 1
      BY <1>1, <1>2, <1>7, <2>1, <3>1 DEF Window, Move, ClosesEarlier
    <3>3. CASE ~ Half(t, q + 1)
      <4>1. Depth(t, q + 1) = Depth(u, q + 1)
        BY <1>5, <2>1, <3>3, PutAlikeFrom
      <4>2. Depth(t, q + 1) = Depth(t, q)
        BY <1>1, <3>3 DEF Window, Move
      <4> QED
        BY <1>1, <1>3, <1>4, <2>1, <3>1, <3>2, <4>1, <4>2 DEF Window, Move
    <3>4. CASE Half(t, q + 1)
      <4>1. q + 2 <= Len(t) /\ t[q + 2] = ")" /\ Depth(t, q + 1) = Depth(t, q) - 1
            /\ u[q + 2] = ")"
        BY <1>1, <2>1, <3>2, <3>4 DEF Window, Move
      <4>2. Depth(t, q + 2) = Depth(t, q + 1) /\ Depth(u, q + 2) = Depth(u, q + 1)
        BY <1>1, <2>1, <3>4, <4>1 DEF Window, Move
      <4>3. Depth(t, q + 2) = Depth(u, q + 2)
        BY <1>5, PutAgainAlike
      <4> QED
        BY <1>1, <1>3, <1>4, <2>1, <3>1, <3>2, <4>1, <4>2, <4>3 DEF Window, Move
    <3> QED
      BY <3>3, <3>4
  <2> QED
    BY <2>2, <2>3
<1> QED
  BY <1>6, <1>7

\* Unless a comment starts or ends earlier, the lexer does the same all along.
LEMMA PutReadsAlike ==
  ASSUME NEW t, Plain(t), NEW u, Plain(u), NEW q, PutAt(t, u, q),
         ~ OpensEarlier(t, u, q), ~ OpensEarlier(u, t, q),
         ~ ClosesEarlier(t, u, q), ~ ClosesEarlier(u, t, q)
  PROVE  \A k \in Nat : Depth(t, k) = Depth(u, k) /\ (Half(t, k) <=> Half(u, k))
<1> DEFINE Alike(k) == Depth(t, k) = Depth(u, k) /\ (Half(t, k) <=> Half(u, k))
<1>1. Window(t, u, q) /\ PutAt(u, t, q)
  BY Windows, PutReversed
<1>2. q \in Nat \ {0} /\ Len(u) = Len(t) /\ Len(t) \in Nat /\ q <= Len(t) /\ t[q] # u[q]
  BY <1>1 DEF Window, PutAt
<1>3. \A k \in Nat : k < q - 1 => Alike(k)
  <2>1. \A j \in 1..(q - 1) : t[j] = u[j]
    BY <1>2 DEF PutAt
  <2>2. q - 1 \in Nat /\ q - 1 <= Len(t) /\ q - 1 <= Len(u)
    BY <1>2
  <2> QED
    BY <2>1, <2>2, SamePrefix
<1>4. Alike(q - 1)
  <2>1. CASE q = 1
    <3>1. q - 1 = 0
      BY <2>1
    <3> QED
      BY <3>1, AtRest
  <2>2. CASE q > 1
    <3>1. /\ q - 2 \in Nat /\ q - 2 < q - 1 /\ q - 1 \in Nat \ {0}
          /\ (q - 1) - 1 = q - 2 /\ t[q - 1] = u[q - 1]
      BY <1>2, <2>2 DEF PutAt
    <3>2. Alike(q - 2)
      BY <1>3, <3>1
    <3>3. Half(t, q - 1) <=> Half(u, q - 1)
      BY <1>1, <2>2, <3>2, HalfBeforePut
    <3>4. Move(t, q - 1) /\ Move(u, q - 1)
      BY <3>1, Moves
    <3>5. Depth(t, q - 1) = Depth(u, q - 1)
      BY <3>1, <3>2, <3>3, <3>4 DEF Move
    <3> QED
      BY <3>3, <3>5
  <2> QED
    BY <1>2, <2>1, <2>2
<1>5. Alike(q)
  <2>1. Half(t, q) <=> Half(u, q)
    BY <1>1, <1>4, HalfAtPut
  <2>2. Depth(t, q) = Depth(u, q)
    BY <1>1, <1>4, <2>1 DEF Window, Move
  <2> QED
    BY <2>1, <2>2
<1>6. \A k \in Nat : k >= q => Alike(k)
  BY <1>2, <1>5, PutAlikeFrom
<1>7. \A k \in Nat : k < q - 1 \/ k = q - 1 \/ k >= q
  BY <1>2
<1> QED
  BY <1>3, <1>4, <1>6, <1>7

\* Then both have the same code.
LEMMA LiveFromStates ==
  ASSUME NEW t, Plain(t), NEW u, Plain(u), Len(u) = Len(t), NEW k \in Nat \ {0},
         Depth(t, k - 1) = Depth(u, k - 1), Half(t, k - 1) <=> Half(u, k - 1),
         Depth(t, k) = Depth(u, k)
  PROVE  Live(t, k) <=> Live(u, k)
BY Moves DEF Move

\* Which character of a run of equal ones is taken out makes no difference:
\* of "(" the first, of the others the last.
LastOfRun(t, q) ==
  IF t[q] = "(" THEN q = 1 \/ t[q - 1] # "(" ELSE q = Len(t) \/ t[q + 1] # t[q]

\* The moves around a deletion, and the characters behind it.
Gap(t, u, q) ==
  /\ q \in Nat \ {0} /\ q <= Len(t) /\ Len(t) \in Nat /\ Len(t) = Len(u) + 1 /\ Len(u) \in Nat
  /\ q + 1 \in Nat \ {0} /\ q + 2 \in Nat \ {0}
  /\ (q + 2) - 1 = q + 1 /\ (q + 1) - 1 = q
  /\ (q + 1) + 1 = q + 2 /\ (q + 2) + 1 = q + 3
  /\ (q - 1) + 1 = q /\ q - 1 \in Nat
  /\ Move(t, q) /\ Move(t, q + 1) /\ Move(t, q + 2)
  /\ Move(u, q) /\ Move(u, q + 1)
  /\ q + 1 <= Len(t) => t[q + 1] = u[q]
  /\ q + 2 <= Len(t) => t[q + 2] = u[q + 1]
  /\ q + 3 <= Len(t) => t[q + 3] = u[q + 2]

LEMMA Gaps ==
  ASSUME NEW t, Plain(t), NEW u, Plain(u), NEW q, DeleteAt(t, u, q)
  PROVE  Gap(t, u, q)
<1>1. /\ q \in Nat \ {0} /\ q <= Len(t) /\ Len(t) \in Nat /\ Len(t) = Len(u) + 1 /\ Len(u) \in Nat
      /\ q + 1 \in Nat \ {0} /\ q + 2 \in Nat \ {0}
      /\ (q + 2) - 1 = q + 1 /\ (q + 1) - 1 = q
      /\ (q + 1) + 1 = q + 2 /\ (q + 2) + 1 = q + 3
      /\ (q - 1) + 1 = q /\ q - 1 \in Nat
  BY DEF DeleteAt, Plain
<1>2. /\ Move(t, q) /\ Move(t, q + 1) /\ Move(t, q + 2)
      /\ Move(u, q) /\ Move(u, q + 1)
  BY <1>1, Moves
<1>3. /\ q + 1 <= Len(t) => t[q + 1] = u[(q + 1) - 1]
      /\ q + 2 <= Len(t) => t[q + 2] = u[(q + 2) - 1]
      /\ q + 3 <= Len(t) => t[q + 3] = u[(q + 3) - 1]
  BY <1>1 DEF DeleteAt
<1>4. (q + 3) - 1 = q + 2
  BY <1>1
<1> QED
  BY <1>1, <1>2, <1>3, <1>4 DEF Gap

LEMMA DeleteAlikeFrom ==
  ASSUME NEW t, Plain(t), NEW u, Plain(u), NEW q, DeleteAt(t, u, q),
         NEW j \in Nat, j >= q, Half(t, j) <=> Half(u, j - 1)
  PROVE  \A k \in Nat : k >= j =>
           Depth(t, k) = Depth(u, k - 1) /\ (Half(t, k) <=> Half(u, k - 1))
<1>1. q \in Nat \ {0} /\ Len(t) \in Nat /\ Len(t) = Len(u) + 1
  BY DEF DeleteAt, Plain
<1>2. \A k \in (j + 1)..Len(t) : t[k] = u[k - 1]
  BY <1>1 DEF DeleteAt
<1>3. j >= 1 /\ 1 \in {0, 1}
  BY <1>1
<1> QED
  BY <1>1, <1>2, <1>3, SameSuffix

LEMMA DeletePrefix ==
  ASSUME NEW t, Plain(t), NEW u, Plain(u), NEW q, DeleteAt(t, u, q)
  PROVE  \A k \in Nat : k < q - 1 => Depth(t, k) = Depth(u, k) /\ (Half(t, k) <=> Half(u, k))
<1>1. \A j \in 1..(q - 1) : t[j] = u[j]
  BY DEF DeleteAt
<1>2. q - 1 \in Nat /\ q - 1 <= Len(t) /\ q - 1 <= Len(u)
  BY DEF DeleteAt, Plain
<1> QED
  BY <1>1, <1>2, SamePrefix

\* The character taken out was not the first half of a delimiter, or the one
\* before it is now.
LEMMA HalfTakenOut ==
  ASSUME NEW t, Plain(t), NEW u, Plain(u), NEW q, DeleteAt(t, u, q), Half(t, q)
  PROVE  Half(u, q - 1)
<1> SUFFICES ASSUME ~ Half(u, q - 1) PROVE FALSE
  OBVIOUS
<1>1. Gap(t, u, q)
  BY Gaps
<1>2. /\ ~ Half(t, q - 1) /\ ~ Half(t, q + 1) /\ Depth(t, q + 1) = Depth(t, q) /\ q < Len(t)
      /\ Depth(t, q) # Depth(t, q - 1)
  BY <1>1 DEF Gap, Move
<1>3. Depth(t, q - 1) = Depth(u, q - 1)
  <2>1. CASE q = 1
    <3>1. q - 1 = 0
      BY <2>1
    <3> QED
      BY <3>1, AtRest
  <2>2. CASE q > 1
    <3>1. q - 2 \in Nat /\ q - 2 < q - 1 /\ q - 1 \in Nat \ {0} /\ (q - 1) - 1 = q - 2
      BY <1>1, <2>2 DEF Gap
    <3>2. Move(t, q - 1) /\ Move(u, q - 1)
      BY <3>1, Moves
    <3>3. Depth(t, q - 2) = Depth(u, q - 2)
      BY <3>1, DeletePrefix
    <3> QED
      BY <1>2, <3>1, <3>2, <3>3 DEF Move
  <2> QED
    BY <1>1, <2>1, <2>2 DEF Gap
<1>4. /\ q + 1 \in Nat /\ q + 1 >= q /\ (q + 1) - 1 = q
      /\ q + 2 \in Nat /\ q + 2 >= q /\ (q + 2) - 1 = q + 1 /\ q + 2 >= q + 2
  BY <1>1 DEF Gap
<1>5. CASE ~ Half(u, q)
  <2>1. Depth(t, q + 1) = Depth(u, q)
    BY <1>2, <1>4, <1>5, DeleteAlikeFrom
  <2>2. Depth(u, q) = Depth(u, q - 1)
    BY <1>1, <1>5 DEF Gap, Move
  <2> QED
    BY <1>2, <1>3, <2>1, <2>2
<1>6. CASE Half(u, q)
  <2>1. /\ q < Len(u) /\ t[q + 1] = u[q] /\ t[q + 2] = u[q + 1]
        /\ ~ Half(u, q + 1) /\ Depth(u, q + 1) = Depth(u, q)
    BY <1>1, <1>6 DEF Gap, Move
  <2>2. /\ t[q] = "(" /\ t[q + 1] = "*" /\ Depth(t, q) = Depth(t, q - 1) + 1
        /\ t[q + 2] = ")" /\ Depth(u, q) = Depth(u, q - 1) - 1
    BY <1>1, <1>6, <2>1 DEF Gap, Move
  <2>3. ~ Half(t, q + 2) /\ Depth(t, q + 2) = Depth(t, q + 1)
    BY <1>1, <1>2, <2>2 DEF Gap, Move
  <2>4. Depth(t, q + 2) = Depth(u, q + 1)
    BY <1>4, <2>1, <2>3, DeleteAlikeFrom
  <2> QED
    BY <1>1, <1>2, <1>3, <2>1, <2>2, <2>3, <2>4 DEF Gap, Move
<1> QED
  BY <1>5, <1>6

LEMMA HalfMovedUp ==
  ASSUME NEW t, Plain(t), NEW u, Plain(u), NEW q, DeleteAt(t, u, q), LastOfRun(t, q),
         Half(u, q - 1)
  PROVE  Half(t, q)
<1> SUFFICES ASSUME ~ Half(t, q) PROVE FALSE
  OBVIOUS
<1>1. Gap(t, u, q)
  BY Gaps
<1>2. q > 1
  <2>1. ~ Half(u, 0)
    BY AtRest
  <2>2. q = 1 => q - 1 = 0
    OBVIOUS
  <2> QED
    BY <1>1, <2>1, <2>2 DEF Gap
<1>3. /\ q - 2 \in Nat /\ q - 2 < q - 1 /\ q - 1 \in Nat \ {0} /\ (q - 1) - 1 = q - 2
      /\ (q - 1) + 1 = q /\ t[q - 1] = u[q - 1]
  BY <1>1, <1>2 DEF Gap, DeleteAt
<1>4. Move(t, q - 1) /\ Move(u, q - 1)
  BY <1>3, Moves
<1>5. Depth(t, q - 2) = Depth(u, q - 2) /\ (Half(t, q - 2) <=> Half(u, q - 2))
  BY <1>3, DeletePrefix
<1>6. /\ q - 1 < Len(u) /\ q < Len(t) /\ t[q + 1] = u[q]
      /\ ~ Half(u, q) /\ Depth(u, q) = Depth(u, q - 1)
      /\ Depth(u, q - 1) # Depth(u, q - 2) /\ ~ Half(t, q - 2)
      /\ \/ t[q - 1] = "(" /\ t[q + 1] = "*" /\ Depth(u, q - 1) = Depth(u, q - 2) + 1
         \/ t[q - 1] = "*" /\ t[q + 1] = ")" /\ Depth(u, q - 1) = Depth(u, q - 2) - 1
  <2>1. /\ q - 1 < Len(u) /\ ~ Half(u, q - 2)
        /\ \/ u[q - 1] = "(" /\ u[q] = "*" /\ Depth(u, q - 1) = Depth(u, q - 2) + 1
           \/ u[q - 1] = "*" /\ u[q] = ")" /\ Depth(u, q - 1) = Depth(u, q - 2) - 1
    BY <1>3, <1>4 DEF Move
  <2>2. Depth(u, q - 2) \in Nat
    BY <1>3, <1>4 DEF Move
  <2>3. q < Len(t) /\ t[q + 1] = u[q]
    BY <1>1, <2>1 DEF Gap
  <2>4. ~ Half(u, q) /\ Depth(u, q) = Depth(u, q - 1)
    BY <1>1 DEF Gap, Move
  <2> QED
    BY <1>3, <1>5, <2>1, <2>2, <2>3, <2>4
<1>7. ~ Half(t, q - 1)
  <2> SUFFICES ASSUME Half(t, q - 1) PROVE FALSE
    OBVIOUS
  <2>1. \/ t[q - 1] = "(" /\ t[q] = "*"
        \/ t[q - 1] = "*" /\ t[q] = ")"
    BY <1>3, <1>4 DEF Move
  <2>2. t[q] # "(" /\ t[q] = t[q + 1]
    BY <1>6, <2>1
  <2>3. q # Len(t)
    BY <1>1, <1>6 DEF Gap
  <2> QED
    BY <2>2, <2>3 DEF LastOfRun
<1>8. Depth(t, q - 1) = Depth(t, q - 2) /\ Depth(t, q) = Depth(t, q - 1)
  BY <1>1, <1>3, <1>4, <1>7 DEF Move, Gap
<1>9. /\ q + 1 \in Nat /\ q + 1 >= q /\ (q + 1) - 1 = q
      /\ q + 2 \in Nat /\ q + 2 >= q /\ (q + 2) - 1 = q + 1 /\ q + 2 >= q + 2
  BY <1>1 DEF Gap
<1>10. CASE ~ Half(t, q + 1)
  <2>1. Depth(t, q + 1) = Depth(u, q)
    BY <1>6, <1>9, <1>10, DeleteAlikeFrom
  <2>2. Depth(t, q + 1) = Depth(t, q)
    BY <1>1, <1>10 DEF Gap, Move
  <2> QED
    BY <1>5, <1>6, <1>8, <2>1, <2>2
<1>11. CASE Half(t, q + 1)
  <2>1. /\ t[q + 1] = "*" /\ q + 1 < Len(t) /\ t[q + 2] = ")"
        /\ Depth(t, q + 1) = Depth(t, q) - 1 /\ ~ Half(t, q + 2) /\ Depth(t, q + 2) = Depth(t, q + 1)
        /\ t[q - 1] = "(" /\ Depth(u, q - 1) = Depth(u, q - 2) + 1
    BY <1>1, <1>6, <1>11 DEF Gap, Move
  <2>2. ~ Half(u, q + 1) /\ Depth(u, q + 1) = Depth(u, q)
    BY <1>1, <1>6, <2>1 DEF Gap, Move
  <2>3. Depth(t, q + 2) = Depth(u, q + 1)
    BY <1>9, <2>1, <2>2, DeleteAlikeFrom
  <2> QED
    BY <1>1, <1>4, <1>5, <1>6, <1>8, <2>1, <2>2, <2>3 DEF Move, Gap
<1> QED
  BY <1>10, <1>11

\* A deletion leaves the lexer in the state it would have been in.
LEMMA DeleteReadsAlike ==
  ASSUME NEW t, Plain(t), NEW u, Plain(u), NEW q, DeleteAt(t, u, q), LastOfRun(t, q)
  PROVE  /\ \A k \in Nat : k < q - 1 => Depth(t, k) = Depth(u, k) /\ (Half(t, k) <=> Half(u, k))
         /\ \A k \in Nat : k >= q =>
              Depth(t, k) = Depth(u, k - 1) /\ (Half(t, k) <=> Half(u, k - 1))
<1>1. Half(t, q) <=> Half(u, q - 1)
  BY HalfTakenOut, HalfMovedUp
<1>2. q \in Nat /\ q >= q
  BY DEF DeleteAt
<1> QED
  BY <1>1, <1>2, DeletePrefix, DeleteAlikeFrom

\* The other characters are code when they were.
LEMMA DeleteLeavesLive ==
  ASSUME NEW t, Plain(t), NEW u, Plain(u), NEW q, DeleteAt(t, u, q), LastOfRun(t, q)
  PROVE  /\ \A k \in 1..(q - 1) : Live(t, k) <=> Live(u, k)
         /\ \A k \in (q + 1)..Len(t) : Live(t, k) <=> Live(u, k - 1)
<1>1. Gap(t, u, q)
  BY Gaps
<1>2. ASSUME NEW k \in (q + 1)..Len(t) PROVE Live(t, k) <=> Live(u, k - 1)
  <2>1. /\ k \in Nat \ {0} /\ k - 1 \in Nat \ {0} /\ k >= q /\ k - 1 >= q
        /\ k <= Len(t) /\ k - 1 <= Len(u)
    BY <1>1 DEF Gap
  <2>2. Move(t, k) /\ Move(u, k - 1)
    BY <2>1, Moves
  <2>3. /\ Depth(t, k) = Depth(u, k - 1)
        /\ Depth(t, k - 1) = Depth(u, (k - 1) - 1)
        /\ Half(t, k - 1) <=> Half(u, (k - 1) - 1)
    BY <2>1, DeleteReadsAlike
  <2> QED
    BY <2>1, <2>2, <2>3 DEF Move
<1>3. ASSUME NEW k \in 1..(q - 1) PROVE Live(t, k) <=> Live(u, k)
  <2>1. k \in Nat \ {0} /\ k - 1 \in Nat /\ k - 1 < q - 1 /\ k <= Len(t) /\ k <= Len(u)
    BY <1>1 DEF Gap
  <2>2. Move(t, k) /\ Move(u, k)
    BY <2>1, Moves
  <2>3. Depth(t, k - 1) = Depth(u, k - 1) /\ (Half(t, k - 1) <=> Half(u, k - 1))
    BY <2>1, DeletePrefix
  <2>4. CASE k < q - 1
    <3>1. Depth(t, k) = Depth(u, k)
      BY <2>1, <2>4, DeletePrefix
    <3> QED
      BY <2>1, <2>2, <2>3, <3>1 DEF Move
  <2>5. CASE k = q - 1
    <3>1. Depth(t, q) = Depth(u, q - 1) /\ (Half(t, q) <=> Half(u, q - 1))
      <4>1. q \in Nat /\ q >= q
        BY <1>1 DEF Gap
      <4> QED
        BY <4>1, DeleteReadsAlike
    <3>2. /\ Move(t, q) /\ k + 1 = q /\ t[k] = u[k] /\ q - 1 = k
          /\ q < Len(t) => t[q + 1] = u[q]
      BY <1>1, <2>5 DEF Gap, DeleteAt
    <3>3. CASE Half(t, k) /\ t[k] = "("
      \* It opened a comment: the one after it does in its place.
      <4>1. t[q] = "*" /\ Depth(t, k) = Depth(t, k - 1) + 1 /\ ~ Half(t, q) /\ Depth(t, q) = Depth(t, k)
        BY <2>2, <3>2, <3>3 DEF Move
      <4>2. Depth(u, k) = Depth(u, k - 1) + 1
        BY <2>3, <3>1, <3>2, <4>1
      <4>3. Depth(t, k - 1) \in Nat
        BY <2>2 DEF Move
      <4> QED
        BY <2>2, <2>3, <4>1, <4>2, <4>3 DEF Move
    <3>4. CASE ~ (Half(t, k) /\ t[k] = "(")
      <4>1. ASSUME Half(u, k), u[k] = "(" PROVE FALSE
        <5>1. u[q] = "*" /\ Depth(u, k) = Depth(u, k - 1) + 1 /\ k < Len(u) /\ Depth(u, k - 1) \in Nat
          BY <2>2, <3>2, <4>1 DEF Move
        <5>2. q < Len(t) /\ t[q + 1] = "*"
          BY <1>1, <3>2, <5>1 DEF Gap
        <5>3. t[q] # "*" /\ t[q] # "("
          BY <1>1, <3>2, <4>1, <5>2 DEF LastOfRun, Gap
        <5>4. ~ Half(t, k) /\ Depth(t, k) = Depth(t, k - 1)
          BY <2>2, <3>2, <3>4, <4>1 DEF Move
        <5>5. ~ Half(t, q) /\ Depth(t, q) = Depth(t, k)
          BY <3>2, <5>3 DEF Move
        <5> QED
          BY <2>3, <3>1, <3>2, <5>1, <5>4, <5>5
      <4>2. Depth(u, k - 1) = 0 => Depth(u, k) = 0
        BY <2>2, <4>1 DEF Move
      <4>3. Depth(t, k - 1) = 0 => Depth(t, k) = 0
        BY <2>2, <3>4 DEF Move
      <4>4. (Live(t, k) <=> ~ Half(t, k - 1) /\ Depth(t, k - 1) = 0)
            /\ (Live(u, k) <=> ~ Half(u, k - 1) /\ Depth(u, k - 1) = 0)
        BY <2>1, <2>2, <4>2, <4>3 DEF Move
      <4> QED
        BY <2>3, <4>4
    <3> QED
      BY <3>3, <3>4
  <2> QED
    BY <1>1, <2>1, <2>4, <2>5 DEF Gap
<1> QED
  BY <1>2, <1>3

-----------------------------------------------------------------------------
(* The regex on a balanced source, step by step *)

\* Inside a match, halfway through a delimiter of one, part of one.
In(t, i) == i \in 1..Len(t) /\ Matching(t)[i].in
Mid(t, i) == i \in 1..Len(t) /\ Matching(t)[i].half
Gone(t, i) == i \in 1..Len(t) /\ Matching(t)[i].gone

\* What is opened is closed,
LEMMA DepthFalls ==
  ASSUME NEW t, Plain(t), NEW i \in Nat, Depth(t, i) >= 1
  PROVE  \E k \in 1..Len(t) : k > i /\ Half(t, k) /\ t[k] = "*"
<1> SUFFICES ASSUME \A k \in 1..Len(t) : k > i /\ Half(t, k) => t[k] # "*"
             PROVE  FALSE
  OBVIOUS
<1> DEFINE S == {x \in Nat : Depth(t, i + x) >= 1}
<1>1. 0 \in S
  <2>1. i + 0 = i
    OBVIOUS
  <2> QED
    BY <2>1
<1>2. ASSUME NEW x \in Nat, x \in S PROVE x + 1 \in S
  <2> DEFINE k == i + (x + 1)
  <2>1. k \in Nat \ {0} /\ k - 1 = i + x /\ k > i
    OBVIOUS
  <2>2. Depth(t, k - 1) >= 1
    BY <1>2, <2>1
  <2> HIDE DEF k
  <2>3. Move(t, k)
    BY <2>1, Moves
  <2>4. Half(t, k) => t[k] # "*"
    <3>1. Half(t, k) => k \in 1..Len(t)
      BY DEF Half
    <3> QED
      BY <2>1, <3>1
  <2>5. Depth(t, k) >= 1
    BY <2>2, <2>3, <2>4 DEF Move
  <2> QED
    BY <2>5 DEF k
<1>3. \A x \in Nat : x \in S
  <2> HIDE DEF S
  <2> QED
    BY <1>1, <1>2, SetInduction
<1>4. Len(t) \in Nat /\ i + Len(t) \in Nat /\ i + Len(t) >= Len(t)
  BY DEF Plain
<1>5. Depth(t, i + Len(t)) = 0
  BY <1>4, AtRest
<1>6. Depth(t, i + Len(t)) >= 1
  BY <1>3, <1>4
<1> QED
  BY <1>5, <1>6

\* so that the regex, too, goes by two characters.
LEMMA OpensHere ==
  ASSUME NEW t, Plain(t), NEW i \in 1..Len(t), ~ Half(t, i - 1)
  PROVE  Opens(t, i) <=> Pair(t, i, "(", "*")
<1> SUFFICES ASSUME Pair(t, i, "(", "*") PROVE \E j \in (i + 2)..Len(t) : Closes(t, j)
  BY DEF Opens
<1>1. i \in Nat \ {0} /\ i + 1 \in Nat \ {0} /\ (i + 1) - 1 = i /\ Len(t) \in Nat
  BY DEF Plain
<1>2. Move(t, i) /\ Move(t, i + 1)
  BY <1>1, Moves
<1>3. t[i] = "(" /\ Half(t, i)
  BY <1>1, <1>2 DEF Pair, Move
<1>4. Depth(t, i) >= 1 /\ ~ Half(t, i + 1)
  BY <1>1, <1>2, <1>3 DEF Move
<1>5. PICK k \in 1..Len(t) : k > i /\ Half(t, k) /\ t[k] = "*"
  BY <1>1, <1>4, DepthFalls
<1>6. k \in (i + 2)..Len(t) /\ k \in Nat \ {0}
  BY <1>1, <1>4, <1>5
<1>7. Move(t, k)
  BY <1>6, Moves
<1>8. Closes(t, k)
  BY <1>5, <1>7 DEF Move, Closes, Pair
<1> QED
  BY <1>6, <1>8

\* What the regex does with character i.
Match(t, i) ==
  LET outside == ~ In(t, i - 1) /\ ~ Mid(t, i - 1)
      inside == In(t, i - 1) /\ ~ Mid(t, i - 1)
      starts == outside /\ i < Len(t) /\ t[i] = "(" /\ t[i + 1] = "*"
      stops == inside /\ i < Len(t) /\ t[i] = "*" /\ t[i + 1] = ")"
  IN  /\ In(t, i) <=> (In(t, i - 1) \/ starts) /\ ~ stops
      /\ Mid(t, i) <=> starts \/ stops
      /\ Gone(t, i) <=> In(t, i - 1) \/ Mid(t, i - 1) \/ In(t, i)
      \* Inside a match is inside a comment.
      /\ In(t, i) => Depth(t, i) >= 1
      /\ Mid(t, i) => Half(t, i) \/ Depth(t, i) >= 1
      /\ In(t, i) /\ Mid(t, i) => Half(t, i)

LEMMA MatchSets ==
  ASSUME NEW t, NEW i, NEW p
  PROVE  LET starts == ~ p.half /\ ~ p.in /\ Opens(t, i)
             stops == ~ p.half /\ p.in /\ Closes(t, i)
         IN /\ Scan(t, i, p).in <=> (p.in \/ starts) /\ ~ stops
            /\ Scan(t, i, p).half <=> starts \/ stops
            /\ Scan(t, i, p).gone <=> p.in \/ p.half \/ starts
<1> DEFINE starts == ~ p.half /\ ~ p.in /\ Opens(t, i)
           stops == ~ p.half /\ p.in /\ Closes(t, i)
<1>1. Scan(t, i, p).in = ((p.in \/ starts) /\ ~ stops)
  BY DEF Scan
<1>2. Scan(t, i, p).half = (starts \/ stops)
  BY DEF Scan
<1>3. Scan(t, i, p).gone = (p.in \/ p.half \/ starts)
  BY DEF Scan
<1> QED
  BY <1>1, <1>2, <1>3

\* On a balanced source a match starts at every "(*" that none contains.
LEMMA Matches ==
  ASSUME NEW t, Plain(t), NEW i \in 1..Len(t)
  PROVE  Match(t, i)
<1> DEFINE n == Len(t)
           m == Matching(t)[i - 1]
           outside == ~ In(t, i - 1) /\ ~ Mid(t, i - 1)
           inside == In(t, i - 1) /\ ~ Mid(t, i - 1)
           starts == outside /\ i < Len(t) /\ t[i] = "(" /\ t[i + 1] = "*"
           stops == inside /\ i < Len(t) /\ t[i] = "*" /\ t[i + 1] = ")"
<1>1. n \in Nat /\ i - 1 \in 0..n /\ i \in 0..n
  BY DEF Plain
<1>2. (In(t, i - 1) <=> m.in) /\ (Mid(t, i - 1) <=> m.half)
  <2>1. CASE i = 1
    <3>1. m = Outside
      BY <1>1, <2>1, MatchingScans
    <3>2. ~ (i - 1 \in 1..n)
      BY <1>1, <2>1
    <3> QED
      BY <3>1, <3>2 DEF Outside, In, Mid
  <2>2. CASE i # 1
    <3>1. i - 1 \in 1..n
      BY <1>1, <2>2
    <3> QED
      BY <3>1 DEF In, Mid
  <2> QED
    BY <2>1, <2>2
<1>3. Matching(t)[i] = Scan(t, i, m)
  BY <1>1, MatchingScans
<1>4. /\ Coupled(t, i - 1, m, Lexing(t)[i - 1])
      /\ Coupled(t, i, Matching(t)[i], Lexing(t)[i])
  BY <1>1, MatchesAreComments DEF Plain
<1>5. starts <=> ~ m.half /\ ~ m.in /\ Opens(t, i)
  <2>1. Half(t, i - 1) => t[i] # "("
    <3>1. Half(t, i - 1) => Lexing(t)[i - 1].half
      BY DEF Half
    <3>2. (i - 1) + 1 = i
      OBVIOUS
    <3> QED
      BY <1>4, <3>1, <3>2 DEF Coupled
  <2>2. ~ Half(t, i - 1) => (Opens(t, i) <=> Pair(t, i, "(", "*"))
    BY OpensHere
  <2>3. Opens(t, i) => Pair(t, i, "(", "*")
    BY DEF Opens
  <2>4. Pair(t, i, "(", "*") <=> i < Len(t) /\ t[i] = "(" /\ t[i + 1] = "*"
    BY DEF Pair
  <2> QED
    BY <1>2, <2>1, <2>2, <2>3, <2>4
<1>6. stops <=> ~ m.half /\ m.in /\ Closes(t, i)
  BY <1>2 DEF Closes, Pair
<1> HIDE DEF starts, stops, m
<1>7. /\ In(t, i) <=> (m.in \/ starts) /\ ~ stops
      /\ Mid(t, i) <=> starts \/ stops
      /\ Gone(t, i) <=> m.in \/ m.half \/ starts
  <2>1. /\ In(t, i) <=> Scan(t, i, m).in
        /\ Mid(t, i) <=> Scan(t, i, m).half
        /\ Gone(t, i) <=> Scan(t, i, m).gone
    BY <1>3 DEF In, Mid, Gone
  <2> QED
    BY <1>5, <1>6, <2>1, MatchSets
<1>8. ~ (starts /\ stops)
  BY DEF starts, stops
<1>9. (Depth(t, i) = Lexing(t)[i].depth) /\ (Half(t, i) <=> Lexing(t)[i].half)
  BY DEF Depth, Half
<1>10. (In(t, i) <=> Matching(t)[i].in) /\ (Mid(t, i) <=> Matching(t)[i].half)
  BY DEF In, Mid
<1>11. /\ In(t, i) => Depth(t, i) >= 1
       /\ Mid(t, i) => Half(t, i) \/ Depth(t, i) >= 1
       /\ In(t, i) /\ Mid(t, i) => Half(t, i)
  BY <1>4, <1>9, <1>10 DEF Coupled
<1>12. Gone(t, i) <=> In(t, i - 1) \/ Mid(t, i - 1) \/ In(t, i)
  BY <1>2, <1>7, <1>8 DEF stops
<1> QED
  BY <1>2, <1>7, <1>11, <1>12 DEF Match, starts, stops

LEMMA NoMatchAtRest ==
  ASSUME NEW t, Plain(t), NEW i \in Nat, Depth(t, i) = 0, ~ Half(t, i)
  PROVE  ~ In(t, i) /\ ~ Mid(t, i)
<1>1. CASE i \in 1..Len(t)
  BY <1>1, Matches DEF Match
<1>2. CASE ~ (i \in 1..Len(t))
  BY <1>2 DEF In, Mid
<1> QED
  BY <1>1, <1>2

\* Two sources are matched alike as long as they are read alike,
LEMMA MatchPrefix ==
  ASSUME NEW t, Plain(t), NEW u, Plain(u), NEW m \in Nat, m <= Len(t), m <= Len(u),
         \A k \in 1..m : t[k] = u[k]
  PROVE  \A i \in Nat : i < m => (In(t, i) <=> In(u, i)) /\ (Mid(t, i) <=> Mid(u, i))
<1> DEFINE Same(i) == (In(t, i) <=> In(u, i)) /\ (Mid(t, i) <=> Mid(u, i))
           S == {i \in Nat : i < m => Same(i)}
<1>1. 0 \in S
  BY DEF In, Mid
<1>2. ASSUME NEW i \in Nat, i \in S PROVE i + 1 \in S
  <2> SUFFICES ASSUME i + 1 < m PROVE Same(i + 1)
    OBVIOUS
  <2> DEFINE k == i + 1
  <2>1. /\ Same(i) /\ k - 1 = i /\ k \in 1..Len(t) /\ k \in 1..Len(u)
        /\ k < Len(t) /\ k < Len(u) /\ t[k] = u[k] /\ t[k + 1] = u[k + 1]
    BY <1>2 DEF Plain
  <2> HIDE DEF k
  <2>2. Match(t, k) /\ Match(u, k)
    BY <2>1, Matches
  <2>3. Same(k)
    BY <2>1, <2>2 DEF Match
  <2> QED
    BY <2>3 DEF k
<1>3. \A i \in Nat : i \in S
  <2> HIDE DEF S
  <2> QED
    BY <1>1, <1>2, SetInduction
<1> QED
  BY <1>3

\* and, once they are matched alike again, up to the end.
LEMMA MatchSuffix ==
  ASSUME NEW t, Plain(t), NEW u, Plain(u), NEW e \in {0, 1}, Len(t) = Len(u) + e,
         NEW j \in Nat, j >= e, \A k \in (j + 1)..Len(t) : t[k] = u[k - e],
         In(t, j) <=> In(u, j - e), Mid(t, j) <=> Mid(u, j - e)
  PROVE  \A k \in (j + 1)..Len(t) : Gone(t, k) <=> Gone(u, k - e)
<1> DEFINE Same(k) == (In(t, k) <=> In(u, k - e)) /\ (Mid(t, k) <=> Mid(u, k - e))
           S == {x \in Nat : j + x <= Len(t) => Same(j + x)}
<1>0. Len(t) \in Nat /\ Len(u) \in Nat
  BY DEF Plain
<1>1. 0 \in S
  <2>1. j + 0 = j
    OBVIOUS
  <2> QED
    BY <2>1
<1>2. ASSUME NEW k \in (j + 1)..Len(t), Same(k - 1)
      PROVE  Same(k) /\ (Gone(t, k) <=> Gone(u, k - e))
  <2>1. /\ k \in 1..Len(t) /\ k - e \in 1..Len(u) /\ (k - 1) - e = (k - e) - 1
        /\ t[k] = u[k - e] /\ (k < Len(t) <=> k - e < Len(u))
    BY <1>0
  <2>2. k < Len(t) => t[k + 1] = u[(k - e) + 1]
    <3>1. (k + 1) - e = (k - e) + 1
      OBVIOUS
    <3>2. k < Len(t) => t[k + 1] = u[(k + 1) - e]
      BY <1>0
    <3> QED
      BY <3>1, <3>2
  <2> DEFINE k2 == k - e
  <2>3. Match(t, k) /\ Match(u, k2)
    BY <2>1, Matches
  <2>4. (In(t, k - 1) <=> In(u, k2 - 1)) /\ (Mid(t, k - 1) <=> Mid(u, k2 - 1))
    BY <1>2, <2>1
  <2>5. t[k] = u[k2] /\ (k < Len(t) <=> k2 < Len(u)) /\ (k < Len(t) => t[k + 1] = u[k2 + 1])
    BY <2>1, <2>2
  <2>6. Same(k) <=> (In(t, k) <=> In(u, k2)) /\ (Mid(t, k) <=> Mid(u, k2))
    OBVIOUS
  <2> HIDE DEF k2, Same
  <2>7. (In(t, k) <=> In(u, k2)) /\ (Mid(t, k) <=> Mid(u, k2))
    BY <2>3, <2>4, <2>5 DEF Match
  <2>8. Gone(t, k) <=> Gone(u, k2)
    BY <2>3, <2>4, <2>7 DEF Match
  <2> QED
    BY <2>6, <2>7, <2>8 DEF k2
<1>3. ASSUME NEW x \in Nat, x \in S PROVE x + 1 \in S
  <2> SUFFICES ASSUME j + (x + 1) <= Len(t) PROVE Same(j + (x + 1))
    OBVIOUS
  <2> DEFINE k == j + (x + 1)
  <2>1. k \in (j + 1)..Len(t) /\ k - 1 = j + x /\ j + x <= Len(t)
    BY <1>0
  <2>2. Same(j + x)
    BY <1>3, <2>1
  <2>3. Same(k - 1)
    BY <2>1, <2>2
  <2> HIDE DEF k, Same
  <2>4. Same(k)
    BY <1>2, <2>1, <2>3
  <2> QED
    BY <2>4 DEF k
<1>4. \A x \in Nat : x \in S
  <2> HIDE DEF S
  <2> QED
    BY <1>1, <1>3, SetInduction
<1>5. ASSUME NEW k \in (j + 1)..Len(t) PROVE Gone(t, k) <=> Gone(u, k - e)
  <2> DEFINE x == (k - 1) - j
  <2>1. x \in Nat /\ j + x = k - 1 /\ j + x <= Len(t)
    BY <1>0
  <2>2. x \in S
    BY <1>4, <2>1
  <2>3. Same(j + x)
    BY <2>1, <2>2
  <2>4. Same(k - 1)
    BY <2>1, <2>3
  <2> HIDE DEF x, Same
  <2> QED
    BY <1>2, <2>4
<1> QED
  BY <1>5

-----------------------------------------------------------------------------
(* What an edit does to the matches *)

\* Between two characters of code.
Rest(t, i) == Depth(t, i) = 0 /\ ~ Half(t, i)

LEMMA GonePrefix ==
  ASSUME NEW t, Plain(t), NEW u, Plain(u), NEW m \in Nat, m <= Len(t), m <= Len(u),
         \A k \in 1..m : t[k] = u[k]
  PROVE  \A k \in 1..(m - 1) : Gone(t, k) <=> Gone(u, k)
<1> SUFFICES ASSUME NEW k \in 1..(m - 1) PROVE Gone(t, k) <=> Gone(u, k)
  OBVIOUS
<1>1. k \in 1..Len(t) /\ k \in 1..Len(u) /\ k \in Nat /\ k < m /\ k - 1 \in Nat /\ k - 1 < m
  BY DEF Plain
<1>2. \A i \in Nat : i < m => (In(t, i) <=> In(u, i)) /\ (Mid(t, i) <=> Mid(u, i))
  BY MatchPrefix
<1> QED
  BY <1>1, <1>2, Matches DEF Match

\* An edit of the code changes no match.
LEMMA MatchesElsewhere ==
  ASSUME NEW t, Plain(t), NEW u, Plain(u), NEW e \in {0, 1}, Len(t) = Len(u) + e,
         NEW q \in 1..Len(t),
         \A k \in 1..(q - 1) : t[k] = u[k], \A k \in (q + 1)..Len(t) : t[k] = u[k - e],
         Rest(t, q - 1), Rest(t, q), Rest(u, q - 1), Rest(u, q - e)
  PROVE  /\ \A k \in 1..(q - 1) : Gone(t, k) <=> Gone(u, k)
         /\ ~ Gone(t, q) /\ (e = 0 => ~ Gone(u, q))
         /\ \A k \in (q + 1)..Len(t) : Gone(t, k) <=> Gone(u, k - e)
<1>1. Len(t) \in Nat /\ Len(u) \in Nat /\ q - 1 \in Nat /\ q - e \in Nat /\ q \in Nat /\ q >= e
  BY DEF Plain
<1>2. /\ ~ In(t, q - 1) /\ ~ Mid(t, q - 1) /\ ~ In(t, q) /\ ~ Mid(t, q)
      /\ ~ In(u, q - 1) /\ ~ Mid(u, q - 1) /\ ~ In(u, q - e) /\ ~ Mid(u, q - e)
  BY <1>1, NoMatchAtRest DEF Rest
<1>3. \A k \in (q + 1)..Len(t) : Gone(t, k) <=> Gone(u, k - e)
  BY <1>1, <1>2, MatchSuffix
<1>4. ~ Gone(t, q)
  BY <1>2, Matches DEF Match
<1>5. e = 0 => ~ Gone(u, q)
  <2> SUFFICES ASSUME e = 0 PROVE ~ Gone(u, q)
    OBVIOUS
  <2>1. q \in 1..Len(u) /\ q - e = q
    OBVIOUS
  <2> QED
    BY <1>2, <2>1, Matches DEF Match
<1>6. q - 1 <= Len(t) /\ q - 1 <= Len(u)
  BY <1>1
<1>7. \A i \in Nat : i < q - 1 => (In(t, i) <=> In(u, i)) /\ (Mid(t, i) <=> Mid(u, i))
  BY <1>1, <1>6, MatchPrefix
<1>8. ASSUME NEW k \in 1..(q - 1) PROVE Gone(t, k) <=> Gone(u, k)
  <2>1. k \in 1..Len(t) /\ k \in 1..Len(u) /\ k - 1 \in Nat /\ k - 1 < q - 1 /\ k \in Nat
    BY <1>1, <1>6
  <2>2. Match(t, k) /\ Match(u, k)
    BY <2>1, Matches
  <2>3. In(t, k) <=> In(u, k)
    <3>1. k < q - 1 \/ k = q - 1
      BY <1>1
    <3> QED
      BY <1>2, <1>7, <2>1, <3>1
  <2> QED
    BY <1>7, <2>1, <2>2, <2>3 DEF Match
<1> QED
  BY <1>3, <1>4, <1>5, <1>8

\* The three characters in the middle of which a comment opens or closes earlier.
LEMMA Threes ==
  ASSUME NEW t, Plain(t), NEW u, Plain(u), NEW q, PutAt(t, u, q), q > 1, q < Len(t)
  PROVE  /\ Window(t, u, q)
         /\ q - 1 \in Nat \ {0} /\ q - 2 \in Nat /\ q - 2 < q - 1 /\ q - 1 <= Len(t)
         /\ (q - 1) - 1 = q - 2 /\ (q - 1) + 1 = q /\ q - 1 < Len(t)
         /\ t[q - 1] = u[q - 1] /\ t[q + 1] = u[q + 1]
         /\ Move(t, q - 1) /\ Move(u, q - 1)
         /\ Depth(t, q - 2) = Depth(u, q - 2) /\ (Half(t, q - 2) <=> Half(u, q - 2))
         /\ In(t, q - 2) <=> In(u, q - 2)
         /\ Mid(t, q - 2) <=> Mid(u, q - 2)
         /\ Match(t, q - 1) /\ Match(u, q - 1) /\ Match(t, q) /\ Match(u, q)
         /\ Match(t, q + 1) /\ Match(u, q + 1)
         /\ \A k \in 1..(q - 2) : Gone(t, k) <=> Gone(u, k)
<1>1. Window(t, u, q)
  BY Windows
<1>2. /\ q - 1 \in Nat \ {0} /\ q - 2 \in Nat /\ q - 2 < q - 1 /\ q - 1 <= Len(t)
      /\ (q - 1) - 1 = q - 2 /\ (q - 1) + 1 = q /\ q - 1 < Len(t) /\ q - 1 <= Len(u)
      /\ Len(u) = Len(t) /\ Len(t) \in Nat
      /\ q - 1 \in 1..Len(t) /\ q \in 1..Len(t) /\ q + 1 \in 1..Len(t)
  BY <1>1 DEF Window
<1>3. t[q - 1] = u[q - 1] /\ t[q + 1] = u[q + 1]
  BY <1>2 DEF PutAt
<1>4. Move(t, q - 1) /\ Move(u, q - 1)
  BY <1>2, Moves
<1>5. \A j \in 1..(q - 1) : t[j] = u[j]
  BY <1>2 DEF PutAt
<1>6. Depth(t, q - 2) = Depth(u, q - 2) /\ (Half(t, q - 2) <=> Half(u, q - 2))
  <2>1. q - 1 \in Nat /\ q - 1 <= Len(u)
    BY <1>2
  <2>2. \A i \in Nat : i < q - 1 => Depth(t, i) = Depth(u, i) /\ (Half(t, i) <=> Half(u, i))
    BY <1>2, <1>5, <2>1, SamePrefix
  <2> QED
    BY <1>2, <2>2
<1>7. (In(t, q - 2) <=> In(u, q - 2)) /\ (Mid(t, q - 2) <=> Mid(u, q - 2))
  BY <1>2, <1>5, MatchPrefix
<1>8. \A k \in 1..(q - 2) : Gone(t, k) <=> Gone(u, k)
  BY <1>2, <1>5, GonePrefix
<1>9. /\ Match(t, q - 1) /\ Match(u, q - 1) /\ Match(t, q) /\ Match(u, q)
      /\ Match(t, q + 1) /\ Match(u, q + 1)
  BY <1>2, Matches
<1> QED
  BY <1>1, <1>2, <1>3, <1>4, <1>6, <1>7, <1>8, <1>9

\* Where both sources are read alike before and behind three characters, the
\* code is the same if none of the three is code.
LEMMA LiveOutside ==
  ASSUME NEW t, Plain(t), NEW u, Plain(u), NEW q, PutAt(t, u, q), q > 1, q < Len(t),
         Half(t, q + 1) <=> Half(u, q + 1),
         NEW k \in 1..Len(t), k \notin (q - 1)..(q + 1)
  PROVE  Live(t, k) <=> Live(u, k)
<1>1. Window(t, u, q)
  BY Windows
<1>2. /\ k \in Nat \ {0} /\ k - 1 \in Nat /\ Len(u) = Len(t) /\ q - 1 <= Len(t) /\ q - 1 \in Nat
      /\ (k - 1 < q - 1 /\ k < q - 1) \/ (k - 1 >= q + 1 /\ k >= q + 1)
      /\ q + 1 \in Nat /\ q + 1 >= q
  BY <1>1 DEF Window
<1>3. \A j \in Nat : j >= q + 1 => Depth(t, j) = Depth(u, j) /\ (Half(t, j) <=> Half(u, j))
  BY <1>2, PutAlikeFrom
<1>4. \A j \in 1..(q - 1) : t[j] = u[j]
  BY <1>2 DEF PutAt
<1>5. \A j \in Nat : j < q - 1 => Depth(t, j) = Depth(u, j) /\ (Half(t, j) <=> Half(u, j))
  BY <1>2, <1>4, SamePrefix
<1>6. /\ Depth(t, k - 1) = Depth(u, k - 1) /\ (Half(t, k - 1) <=> Half(u, k - 1))
      /\ Depth(t, k) = Depth(u, k)
  BY <1>2, <1>3, <1>5
<1> QED
  BY <1>2, <1>6, LiveFromStates

\* A comment that opens one character earlier takes that character with it.
LEMMA OpensEarlierCases ==
  ASSUME NEW t, Plain(t), NEW u, Plain(u), NEW q, PutAt(t, u, q), OpensEarlier(t, u, q)
  PROVE  \/ \A k \in 1..Len(t) : (Live(t, k) <=> Live(u, k)) /\ (k = q => ~ Live(t, k))
         \/ /\ ~ Gone(t, q - 1) /\ Gone(u, q - 1) /\ Gone(t, q) /\ Gone(u, q)
            /\ \A k \in 1..Len(t) : k # q - 1 => (Gone(t, k) <=> Gone(u, k))
<1>1. q > 1 /\ q < Len(t) /\ t[q - 1] = "(" /\ t[q] = "(" /\ t[q + 1] = "*" /\ u[q] = "*"
  BY DEF OpensEarlier
<1>2. /\ Window(t, u, q)
      /\ q - 1 \in Nat \ {0} /\ q - 2 \in Nat /\ q - 2 < q - 1 /\ q - 1 <= Len(t)
      /\ (q - 1) - 1 = q - 2 /\ (q - 1) + 1 = q /\ q - 1 < Len(t)
      /\ t[q - 1] = u[q - 1] /\ t[q + 1] = u[q + 1]
      /\ Move(t, q - 1) /\ Move(u, q - 1)
      /\ Depth(t, q - 2) = Depth(u, q - 2) /\ (Half(t, q - 2) <=> Half(u, q - 2))
      /\ Match(t, q - 1) /\ Match(u, q - 1) /\ Match(t, q) /\ Match(u, q)
      /\ Match(t, q + 1) /\ Match(u, q + 1)
      /\ \A k \in 1..(q - 2) : Gone(t, k) <=> Gone(u, k)
  BY <1>1, Threes
<1>3. ~ Half(t, q - 2)
  <2> SUFFICES ASSUME Half(t, q - 2) PROVE FALSE
    OBVIOUS
  <2>1. q - 2 \in Nat \ {0} /\ (q - 2) + 1 = q - 1
    BY <1>2 DEF Half
  <2>2. Move(t, q - 2)
    BY <2>1, Moves
  <2> QED
    BY <1>1, <2>1, <2>2 DEF Move
<1>4. /\ ~ Half(t, q - 1) /\ Depth(t, q - 1) = Depth(t, q - 2)
      /\ Half(u, q - 1) /\ Depth(u, q - 1) = Depth(t, q - 2) + 1
  <2>1. ~ Half(t, q - 1) /\ Depth(t, q - 1) = Depth(t, q - 2)
    BY <1>1, <1>2 DEF Move
  <2>2. Half(u, q - 1) /\ u[q - 1] = "("
    BY <1>1, <1>2, <1>3 DEF Move, Window
  <2>3. Depth(u, q - 1) = Depth(u, q - 2) + 1
    BY <1>2, <2>2 DEF Move
  <2> QED
    BY <1>2, <2>1, <2>3, <2>2
<1>5. /\ Half(t, q) /\ Depth(t, q) = Depth(t, q - 2) + 1
      /\ ~ Half(u, q) /\ Depth(u, q) = Depth(t, q - 2) + 1
  BY <1>1, <1>2, <1>4 DEF Move, Window
<1>6. ~ Half(t, q + 1) /\ Depth(t, q + 1) = Depth(t, q - 2) + 1
  BY <1>2, <1>5 DEF Move, Window
<1>7. /\ Depth(t, q - 2) \in Nat
      /\ q + 2 \in Nat /\ q + 2 >= q + 2 /\ q + 1 >= q /\ q + 1 \in Nat
  BY <1>2 DEF Window, Move
<1>8. ~ Half(u, q + 1)
  <2> SUFFICES ASSUME Half(u, q + 1) PROVE FALSE
    OBVIOUS
  <2>1. Depth(u, q + 1) = Depth(u, q) - 1 /\ u[q + 2] = ")" /\ q + 2 <= Len(t)
        /\ ~ Half(u, q + 2) /\ Depth(u, q + 2) = Depth(u, q + 1)
    <3>1. Move(u, q + 1) /\ Move(u, q + 2) /\ (q + 2) - 1 = q + 1 /\ (q + 1) - 1 = q /\ (q + 1) + 1 = q + 2
      BY <1>2 DEF Window
    <3>2. u[q + 1] = "*" /\ Len(u) = Len(t) /\ q \in Nat /\ Len(t) \in Nat
      BY <1>1, <1>2 DEF Window
    <3>3. q + 1 < Len(u) /\ u[q + 2] = ")" /\ Depth(u, q + 1) = Depth(u, q) - 1
      BY <3>1, <3>2 DEF Move
    <3>4. ~ Half(u, q + 2) /\ Depth(u, q + 2) = Depth(u, q + 1)
      BY <3>1 DEF Move
    <3> QED
      BY <3>2, <3>3, <3>4
  <2>2. t[q + 2] = ")"
    BY <1>2, <2>1 DEF Window
  <2>3. Depth(t, q + 2) = Depth(t, q + 1)
    BY <1>2, <2>2 DEF Window, Move
  <2>4. Depth(t, q + 2) = Depth(u, q + 2)
    BY <1>7, PutAgainAlike
  <2> QED
    BY <1>5, <1>6, <1>7, <2>1, <2>3, <2>4
<1>9. CASE Depth(t, q - 2) # 0
  <2>1. /\ ~ Live(t, q - 1) /\ ~ Live(t, q) /\ ~ Live(t, q + 1)
        /\ ~ Live(u, q - 1) /\ ~ Live(u, q) /\ ~ Live(u, q + 1)
    BY <1>2, <1>4, <1>5, <1>6, <1>7, <1>9 DEF Window, Move
  <2>2. ASSUME NEW k \in 1..Len(t)
        PROVE  (Live(t, k) <=> Live(u, k)) /\ (k = q => ~ Live(t, k))
    <3>1. k \in (q - 1)..(q + 1) => k = q - 1 \/ k = q \/ k = q + 1
      BY <1>2 DEF Window
    <3> QED
      BY <1>1, <1>6, <1>8, <2>1, <3>1, LiveOutside
  <2> QED
    BY <2>2
<1>10. CASE Depth(t, q - 2) = 0
  <2>1. ~ In(t, q - 2) /\ ~ Mid(t, q - 2) /\ ~ In(u, q - 2) /\ ~ Mid(u, q - 2)
    BY <1>2, <1>3, <1>10, NoMatchAtRest
  <2>2. ~ In(t, q - 1) /\ ~ Mid(t, q - 1) /\ ~ Gone(t, q - 1)
    BY <1>1, <1>2, <2>1 DEF Match
  <2>3. In(t, q) /\ Mid(t, q) /\ Gone(t, q)
    BY <1>1, <1>2, <2>2 DEF Match, Window
  <2>4. In(t, q + 1) /\ ~ Mid(t, q + 1) /\ Gone(t, q + 1)
    BY <1>2, <2>3 DEF Match, Window
  <2>5. In(u, q - 1) /\ Mid(u, q - 1) /\ Gone(u, q - 1)
    <3>1. q - 1 < Len(u) /\ u[q - 1] = "(" /\ u[(q - 1) + 1] = "*"
      BY <1>1, <1>2 DEF Window
    <3>2. ~ In(u, (q - 1) - 1) /\ ~ Mid(u, (q - 1) - 1)
      BY <1>2, <2>1
    <3> QED
      BY <1>2, <3>1, <3>2 DEF Match
  <2>6. In(u, q) /\ ~ Mid(u, q) /\ Gone(u, q)
    BY <1>2, <2>5 DEF Match, Window
  <2>7. ~ (q + 1 < Len(u) /\ u[q + 1] = "*" /\ u[(q + 1) + 1] = ")")
    BY <1>2, <1>5, <1>8 DEF Move, Window
  <2>8. In(u, q + 1) /\ ~ Mid(u, q + 1) /\ Gone(u, q + 1)
    BY <1>2, <2>6, <2>7 DEF Match, Window
  <2>9. \A k \in (q + 2)..Len(t) : Gone(t, k) <=> Gone(u, k)
    <3>1. \A k \in (q + 2)..Len(t) : t[k] = u[k - 0]
      BY <1>2 DEF PutAt, Window
    <3>2. /\ q + 1 \in Nat /\ q + 1 >= 0 /\ (q + 1) - 0 = q + 1 /\ (q + 1) + 1 = q + 2
          /\ Len(t) = Len(u) + 0 /\ \A k \in (q + 2)..Len(t) : k - 0 = k
      BY <1>2 DEF Window
    <3>3. \A k \in (q + 2)..Len(t) : Gone(t, k) <=> Gone(u, k - 0)
      BY <2>4, <2>8, <3>1, <3>2, MatchSuffix
    <3> QED
      BY <3>2, <3>3
  <2>10. ASSUME NEW k \in 1..Len(t), k # q - 1 PROVE Gone(t, k) <=> Gone(u, k)
    <3>1. k \in 1..(q - 2) \/ k = q \/ k = q + 1 \/ k \in (q + 2)..Len(t)
      BY <1>2, <2>10 DEF Window
    <3> QED
      BY <1>2, <2>3, <2>4, <2>6, <2>8, <2>9, <3>1
  <2> QED
    BY <2>2, <2>3, <2>5, <2>6, <2>10
<1> QED
  BY <1>9, <1>10

\* A comment that closes one character earlier gives back a character, or is
\* one that the regex has left long before.
LEMMA ClosesEarlierCases ==
  ASSUME NEW t, Plain(t), NEW u, Plain(u), NEW q, PutAt(t, u, q), ClosesEarlier(t, u, q)
  PROVE  \/ \A k \in 1..Len(t) : (Live(t, k) <=> Live(u, k)) /\ (k = q => ~ Live(t, k))
         \/ /\ Gone(t, q + 1) /\ ~ Gone(u, q + 1) /\ Gone(t, q) /\ Gone(u, q)
            /\ \A k \in 1..Len(t) : k # q + 1 => (Gone(t, k) <=> Gone(u, k))
         \/ /\ ~ Gone(t, q)
            /\ \A k \in 1..Len(t) : Gone(t, k) <=> Gone(u, k)
<1>1. q > 1 /\ q < Len(t) /\ t[q - 1] = "*" /\ t[q] = "*" /\ t[q + 1] = ")" /\ u[q] = ")"
  BY DEF ClosesEarlier
<1>2. /\ Window(t, u, q)
      /\ q - 1 \in Nat \ {0} /\ q - 2 \in Nat /\ q - 2 < q - 1 /\ q - 1 <= Len(t)
      /\ (q - 1) - 1 = q - 2 /\ (q - 1) + 1 = q /\ q - 1 < Len(t)
      /\ t[q - 1] = u[q - 1] /\ t[q + 1] = u[q + 1]
      /\ Move(t, q - 1) /\ Move(u, q - 1)
      /\ Depth(t, q - 2) = Depth(u, q - 2) /\ (Half(t, q - 2) <=> Half(u, q - 2))
      /\ (In(t, q - 2) <=> In(u, q - 2)) /\ (Mid(t, q - 2) <=> Mid(u, q - 2))
      /\ Match(t, q - 1) /\ Match(u, q - 1) /\ Match(t, q) /\ Match(u, q)
      /\ Match(t, q + 1) /\ Match(u, q + 1)
      /\ \A k \in 1..(q - 2) : Gone(t, k) <=> Gone(u, k)
  BY <1>1, Threes
<1>3. /\ q + 1 \in Nat /\ q + 1 >= q /\ (q + 1) - 1 = q /\ (q + 1) + 1 = q + 2
      /\ q \in Nat /\ Len(t) \in Nat /\ Len(u) = Len(t)
      /\ Move(t, q) /\ Move(u, q) /\ Move(t, q + 1) /\ Move(u, q + 1)
      /\ Depth(t, q - 2) \in Nat
  BY <1>2 DEF Window, Move
<1>4. ~ Half(t, q + 1) /\ ~ Half(u, q + 1)
      /\ Depth(t, q + 1) = Depth(t, q) /\ Depth(u, q + 1) = Depth(u, q)
  <2>1. t[q + 1] = ")" /\ u[q + 1] = ")"
    BY <1>1, <1>2
  <2> QED
    BY <1>3, <2>1 DEF Move
<1>5. Depth(t, q + 1) = Depth(u, q + 1)
  BY <1>3, <1>4, PutAlikeFrom
<1>6. ~ Half(t, q - 1) /\ Depth(t, q - 1) = Depth(t, q - 2)
  BY <1>1, <1>2 DEF Move
<1>7. Half(t, q) /\ Depth(t, q) = Depth(t, q - 2) - 1 /\ Depth(t, q) \in Nat
  <2>1. Half(t, q) /\ Depth(t, q) \in Nat
    BY <1>1, <1>3, <1>6 DEF Move
  <2>2. Depth(t, q) = Depth(t, q - 1) - 1
    BY <1>1, <1>3, <2>1 DEF Move
  <2> QED
    BY <1>6, <2>1, <2>2
<1>8. ~ Half(u, q) /\ Depth(u, q) = Depth(u, q - 1)
  BY <1>1, <1>3 DEF Move
<1>9. Half(u, q - 1) /\ ~ Half(u, q - 2)
  <2>1. Depth(u, q - 1) # Depth(u, q - 2)
    BY <1>2, <1>3, <1>4, <1>5, <1>7, <1>8
  <2> QED
    BY <1>2, <2>1 DEF Move
<1>10. ~ Half(t, q - 2)
  BY <1>2, <1>9
<1>11. CASE Depth(t, q) # 0
  <2>1. Depth(t, q - 1) # 0 /\ Depth(t, q + 1) # 0 /\ Depth(u, q + 1) # 0 /\ Depth(u, q - 2) # 0
    BY <1>2, <1>3, <1>4, <1>5, <1>6, <1>7, <1>11
  <2>2. /\ ~ Live(t, q - 1) /\ ~ Live(t, q) /\ ~ Live(t, q + 1)
        /\ ~ Live(u, q - 1) /\ ~ Live(u, q) /\ ~ Live(u, q + 1)
    BY <1>2, <1>3, <1>6, <1>9, <2>1 DEF Move
  <2>3. ASSUME NEW k \in 1..Len(t)
        PROVE  (Live(t, k) <=> Live(u, k)) /\ (k = q => ~ Live(t, k))
    <3>1. k \in (q - 1)..(q + 1) => k = q - 1 \/ k = q \/ k = q + 1
      BY <1>3
    <3> QED
      BY <1>1, <1>4, <2>2, <3>1, LiveOutside
  <2> QED
    BY <2>3
<1>12. CASE Depth(t, q) = 0
  <2>1. ~ In(t, q + 1) /\ ~ Mid(t, q + 1) /\ ~ In(u, q + 1) /\ ~ Mid(u, q + 1)
    BY <1>3, <1>4, <1>5, <1>12, NoMatchAtRest
  <2>2. \A k \in (q + 2)..Len(t) : Gone(t, k) <=> Gone(u, k)
    <3>1. \A k \in (q + 2)..Len(t) : t[k] = u[k - 0]
      BY <1>3 DEF PutAt
    <3>2. /\ q + 1 >= 0 /\ (q + 1) - 0 = q + 1
          /\ Len(t) = Len(u) + 0 /\ \A k \in (q + 2)..Len(t) : k - 0 = k
      BY <1>3
    <3>3. \A k \in (q + 2)..Len(t) : Gone(t, k) <=> Gone(u, k - 0)
      BY <1>3, <2>1, <3>1, <3>2, MatchSuffix
    <3> QED
      BY <3>2, <3>3
  <2>3. ~ Mid(t, q - 2)
    <3> SUFFICES ASSUME Mid(t, q - 2) PROVE FALSE
      OBVIOUS
    <3>1. q - 2 \in 1..Len(t) /\ (q - 2) + 1 = q - 1
      BY <1>2, <1>3 DEF Mid
    <3>2. Match(t, q - 2)
      BY <3>1, Matches
    <3> QED
      BY <1>1, <1>10, <3>1, <3>2 DEF Match
  <2>4. ASSUME NEW k \in 1..Len(t)
        PROVE  k \in 1..(q - 2) \/ k = q - 1 \/ k = q \/ k = q + 1 \/ k \in (q + 2)..Len(t)
    BY <1>2, <1>3
  <2>5. ~ (t[q - 1] = "(") /\ ~ (u[q - 1] = "(")
    BY <1>1, <1>2
  <2>6. CASE In(t, q - 2)
    <3>1. Gone(t, q - 1) /\ Gone(u, q - 1)
      BY <1>2, <2>6 DEF Match
    <3>2. In(t, q - 1) /\ ~ Mid(t, q - 1)
      <4>1. ~ (t[q - 1] = "*" /\ t[(q - 1) + 1] = ")")
        BY <1>1, <1>2
      <4> QED
        BY <1>2, <2>5, <2>6, <4>1 DEF Match
    <3>3. Gone(t, q) /\ Mid(t, q)
      BY <1>1, <1>2, <1>3, <3>2 DEF Match
    <3>4. Gone(t, q + 1)
      BY <1>2, <1>3, <3>3 DEF Match
    <3>5. ~ In(u, q - 1) /\ Mid(u, q - 1)
      <4>1. q - 1 < Len(u) /\ u[q - 1] = "*" /\ u[(q - 1) + 1] = ")"
        BY <1>1, <1>2, <1>3
      <4>2. In(u, (q - 1) - 1) /\ ~ Mid(u, (q - 1) - 1)
        BY <1>2, <2>3, <2>6
      <4> QED
        BY <1>2, <4>1, <4>2 DEF Match
    <3>6. Gone(u, q) /\ ~ In(u, q) /\ ~ Mid(u, q)
      BY <1>1, <1>2, <1>3, <3>5 DEF Match
    <3>7. ~ Gone(u, q + 1)
      BY <1>2, <1>3, <2>1, <3>6 DEF Match
    <3>8. ASSUME NEW k \in 1..Len(t), k # q + 1 PROVE Gone(t, k) <=> Gone(u, k)
      BY <1>2, <2>2, <2>4, <3>1, <3>3, <3>6, <3>8
    <3> QED
      BY <3>3, <3>4, <3>6, <3>7, <3>8
  <2>7. CASE ~ In(t, q - 2)
    <3>1. /\ ~ In(t, q - 1) /\ ~ Mid(t, q - 1) /\ ~ Gone(t, q - 1)
          /\ ~ In(u, q - 1) /\ ~ Mid(u, q - 1) /\ ~ Gone(u, q - 1)
      <4>1. /\ ~ In(t, (q - 1) - 1) /\ ~ Mid(t, (q - 1) - 1)
            /\ ~ In(u, (q - 1) - 1) /\ ~ Mid(u, (q - 1) - 1)
        BY <1>2, <2>3, <2>7
      <4> QED
        BY <1>2, <2>5, <4>1 DEF Match
    <3>2. /\ ~ In(t, q) /\ ~ Mid(t, q) /\ ~ Gone(t, q)
          /\ ~ In(u, q) /\ ~ Mid(u, q) /\ ~ Gone(u, q)
      <4>1. t[q] # "(" /\ u[q] # "("
        BY <1>1
      <4> QED
        BY <1>2, <3>1, <4>1 DEF Match
    <3>3. ~ Gone(t, q + 1) /\ ~ Gone(u, q + 1)
      BY <1>2, <1>3, <2>1, <3>2 DEF Match
    <3>4. ASSUME NEW k \in 1..Len(t) PROVE Gone(t, k) <=> Gone(u, k)
      BY <1>2, <2>2, <2>4, <3>1, <3>2, <3>3
    <3> QED
      BY <3>2, <3>4
  <2> QED
    BY <2>6, <2>7
<1> QED
  BY <1>11, <1>12

-----------------------------------------------------------------------------
(* What an edit does to the code and to what the regex keeps *)

\* One character of code, other than a blank, more is kept of t than of u.
KeepsMore(t, u, q, p) ==
  /\ p \in 1..Len(t) /\ ~ Gone(t, p) /\ Gone(u, p) /\ ~ Blank(t[p])
  /\ Gone(t, q) /\ Gone(u, q)
  /\ \A k \in 1..Len(t) : k # p => (Gone(t, k) <=> Gone(u, k))

\* The compiler reads the same positions; the regex leaves in the same ones.
SameLive(t, u) == \A k \in 1..Len(t) : Live(t, k) <=> Live(u, k)

SameKept(t, u) == \A k \in 1..Len(t) : Gone(t, k) <=> Gone(u, k)

\* An edit that changes the code changes one character of what is kept, or
\* takes one out.
LEMMA PutCases ==
  ASSUME NEW t, Plain(t), NEW u, Plain(u), NEW q, PutAt(t, u, q)
  PROVE  \/ SameLive(t, u) /\ ~ Live(t, q)
         \/ SameKept(t, u) /\ ~ Gone(t, q)
              /\ (SameLive(t, u) \/ (~ Blank(t[q]) /\ ~ Blank(u[q])))
         \/ \E p \in 1..Len(t) : KeepsMore(t, u, q, p) \/ KeepsMore(u, t, q, p)
<1>1. /\ q \in 1..Len(t) /\ Len(u) = Len(t) /\ q \in Nat \ {0} /\ Len(t) \in Nat
      /\ PutAt(u, t, q) /\ t[q] # u[q]
  BY PutReversed DEF PutAt, Plain
<1>2. ASSUME NEW v, NEW w, Plain(v), Plain(w), PutAt(v, w, q), OpensEarlier(v, w, q)
      PROVE  \/ SameLive(v, w) /\ ~ Live(v, q) /\ ~ Live(w, q)
             \/ \E p \in 1..Len(v) : KeepsMore(v, w, q, p)
  <2>1. CASE \A k \in 1..Len(v) : (Live(v, k) <=> Live(w, k)) /\ (k = q => ~ Live(v, k))
    BY <1>2, <2>1 DEF SameLive, PutAt
  <2>2. CASE /\ ~ Gone(v, q - 1) /\ Gone(w, q - 1) /\ Gone(v, q) /\ Gone(w, q)
             /\ \A k \in 1..Len(v) : k # q - 1 => (Gone(v, k) <=> Gone(w, k))
    <3>1. q - 1 \in 1..Len(v) /\ ~ Blank(v[q - 1])
      BY <1>1, <1>2 DEF OpensEarlier, PutAt, Blank
    <3>2. KeepsMore(v, w, q, q - 1)
      BY <2>2, <3>1 DEF KeepsMore
    <3> QED
      BY <3>1, <3>2
  <2> QED
    BY <1>2, <2>1, <2>2, OpensEarlierCases
<1>3. ASSUME NEW v, NEW w, Plain(v), Plain(w), PutAt(v, w, q), ClosesEarlier(v, w, q)
      PROVE  \/ SameLive(v, w) /\ ~ Live(v, q) /\ ~ Live(w, q)
             \/ SameKept(v, w) /\ ~ Gone(v, q) /\ ~ Gone(w, q) /\ ~ Blank(v[q]) /\ ~ Blank(w[q])
             \/ \E p \in 1..Len(v) : KeepsMore(w, v, q, p)
  <2>1. CASE \A k \in 1..Len(v) : (Live(v, k) <=> Live(w, k)) /\ (k = q => ~ Live(v, k))
    BY <1>3, <2>1 DEF SameLive, PutAt
  <2>2. CASE /\ Gone(v, q + 1) /\ ~ Gone(w, q + 1) /\ Gone(v, q) /\ Gone(w, q)
             /\ \A k \in 1..Len(v) : k # q + 1 => (Gone(v, k) <=> Gone(w, k))
    <3>1. q + 1 \in 1..Len(v) /\ Len(w) = Len(v) /\ ~ Blank(w[q + 1])
      BY <1>1, <1>3 DEF ClosesEarlier, PutAt, Blank
    <3>2. KeepsMore(w, v, q, q + 1)
      BY <2>2, <3>1 DEF KeepsMore
    <3> QED
      BY <3>1, <3>2
  <2>3. CASE ~ Gone(v, q) /\ \A k \in 1..Len(v) : Gone(v, k) <=> Gone(w, k)
    <3>1. ~ Blank(v[q]) /\ ~ Blank(w[q]) /\ q \in 1..Len(v)
      BY <1>3 DEF ClosesEarlier, Blank, PutAt
    <3> QED
      BY <2>3, <3>1 DEF SameKept
  <2> QED
    BY <1>3, <2>1, <2>2, <2>3, ClosesEarlierCases
<1>4. (SameLive(u, t) <=> SameLive(t, u)) /\ (SameKept(u, t) <=> SameKept(t, u))
  BY <1>1 DEF SameLive, SameKept
<1>5. CASE OpensEarlier(t, u, q)
  BY <1>2, <1>5
<1>6. CASE OpensEarlier(u, t, q)
  BY <1>1, <1>2, <1>4, <1>6
<1>7. CASE ClosesEarlier(t, u, q)
  BY <1>3, <1>7
<1>8. CASE ClosesEarlier(u, t, q)
  BY <1>1, <1>3, <1>4, <1>8
<1>9. CASE ~ OpensEarlier(t, u, q) /\ ~ OpensEarlier(u, t, q)
           /\ ~ ClosesEarlier(t, u, q) /\ ~ ClosesEarlier(u, t, q)
  <2>1. \A k \in Nat : Depth(t, k) = Depth(u, k) /\ (Half(t, k) <=> Half(u, k))
    BY <1>9, PutReadsAlike
  <2>2. SameLive(t, u)
    <3> SUFFICES ASSUME NEW k \in 1..Len(t) PROVE Live(t, k) <=> Live(u, k)
      BY DEF SameLive
    <3>1. k \in Nat \ {0} /\ k - 1 \in Nat /\ k \in Nat
      OBVIOUS
    <3> QED
      BY <1>1, <2>1, <3>1, LiveFromStates
  <2>3. CASE Live(t, q)
    <3>1. q - 1 \in Nat /\ q \in Nat /\ q - 0 = q /\ Len(t) = Len(u) + 0
      BY <1>1
    <3>2. Move(t, q)
      BY <1>1, Moves
    <3>3. Depth(t, q) = 0 /\ Depth(t, q - 1) = 0 /\ ~ Half(t, q - 1) /\ ~ Half(t, q)
      BY <2>3, <3>2 DEF Move
    <3>4. Rest(t, q - 1) /\ Rest(t, q) /\ Rest(u, q - 1) /\ Rest(u, q - 0)
      BY <2>1, <3>1, <3>3 DEF Rest
    <3>5. /\ \A k \in 1..(q - 1) : t[k] = u[k]
          /\ \A k \in (q + 1)..Len(t) : t[k] = u[k - 0]
      BY <1>1 DEF PutAt
    <3>6. /\ \A k \in 1..(q - 1) : Gone(t, k) <=> Gone(u, k)
          /\ ~ Gone(t, q) /\ ~ Gone(u, q)
          /\ \A k \in (q + 1)..Len(t) : Gone(t, k) <=> Gone(u, k - 0)
      BY <1>1, <3>1, <3>4, <3>5, MatchesElsewhere
    <3>7. ASSUME NEW k \in 1..Len(t) PROVE Gone(t, k) <=> Gone(u, k)
      <4>1. k \in 1..(q - 1) \/ k = q \/ k \in (q + 1)..Len(t)
        BY <1>1
      <4>2. k - 0 = k
        OBVIOUS
      <4> QED
        BY <3>6, <4>1, <4>2
    <3> QED
      BY <2>2, <3>6, <3>7 DEF SameKept
  <2> QED
    BY <2>2, <2>3
<1> QED
  BY <1>5, <1>6, <1>7, <1>8, <1>9

\* A deletion that changes the code takes a character out of what is kept.
LEMMA DeleteCases ==
  ASSUME NEW t, Plain(t), NEW u, Plain(u), NEW q, DeleteAt(t, u, q), LastOfRun(t, q),
         Live(t, q)
  PROVE  /\ ~ Gone(t, q)
         /\ \A k \in 1..(q - 1) : Gone(t, k) <=> Gone(u, k)
         /\ \A k \in (q + 1)..Len(t) : Gone(t, k) <=> Gone(u, k - 1)
<1>1. q \in 1..Len(t) /\ q \in Nat \ {0} /\ q - 1 \in Nat /\ q >= q /\ Len(t) = Len(u) + 1
  BY DEF DeleteAt, Plain
<1>2. Move(t, q)
  BY <1>1, Moves
<1>3. Depth(t, q) = 0 /\ Depth(t, q - 1) = 0 /\ ~ Half(t, q - 1) /\ ~ Half(t, q)
  BY <1>2 DEF Move
<1>4. Depth(t, q) = Depth(u, q - 1) /\ (Half(t, q) <=> Half(u, q - 1))
  <2>1. q \in Nat
    BY <1>1
  <2> QED
    BY <1>1, <2>1, DeleteReadsAlike
<1>5. Rest(t, q - 1) /\ Rest(t, q) /\ Rest(u, q - 1)
  BY <1>3, <1>4 DEF Rest
<1>6. /\ \A k \in 1..(q - 1) : t[k] = u[k]
      /\ \A k \in (q + 1)..Len(t) : t[k] = u[k - 1]
  BY DEF DeleteAt
<1>7. 1 \in {0, 1}
  OBVIOUS
<1> QED
  BY <1>1, <1>5, <1>6, <1>7, MatchesElsewhere

-----------------------------------------------------------------------------
(* What is selected of a text, and what it is normalised to *)

\* No text, a character as a text, and what the proofs need of concatenation.
None == <<>>
One(c) == <<c>>
Join(r, s) == r \o s
FirstOf(s) == s[1]
LastOf(s) == s[Len(s)]

LEMMA Joins ==
  ASSUME NEW C, NEW r \in Seq(C), NEW s \in Seq(C)
  PROVE  Join(r, s) \in Seq(C) /\ Join(r, None) = r /\ (Join(r, s) = r => s = None)
<1>1. r \o s \in Seq(C)
  OBVIOUS
<1>2. r \o <<>> = r
  BY ConcatEmptySeq
<1>3. r \o s = r => s = <<>>
  BY ConcatEqualIffEmpty
<1> QED
  BY <1>1, <1>2, <1>3 DEF Join, None

LEMMA JoinAssociative ==
  ASSUME NEW C, NEW r \in Seq(C), NEW s \in Seq(C), NEW w \in Seq(C)
  PROVE  Join(Join(r, s), w) = Join(r, Join(s, w))
<1>1. (r \o s) \o w = r \o (s \o w)
  BY ConcatAssociative
<1> QED
  BY <1>1 DEF Join

LEMMA OneIsTyped ==
  ASSUME NEW C, NEW c \in C
  PROVE  One(c) \in Seq(C)
<1> QED
  BY DEF One

LEMMA JoinOne ==
  ASSUME NEW C, NEW s \in Seq(C), NEW c \in C, NEW v, v = Join(s, One(c))
  PROVE  /\ Append(s, c) = v /\ v \in Seq(C) /\ v # None
         /\ LastOf(v) = c
         /\ s = None => FirstOf(v) = c
         /\ s # None => FirstOf(v) = FirstOf(s)
         /\ Len(v) = Len(s) + 1
<1> DEFINE w == Append(s, c)
<1>1. w \in Seq(C) /\ Len(w) = Len(s) + 1
  OBVIOUS
<1>2. w[Len(s) + 1] = c
  OBVIOUS
<1>3. s # <<>> => w[1] = s[1]
  OBVIOUS
<1>4. s = <<>> => w[1] = c
  OBVIOUS
<1>5. w # <<>>
  BY AppendProperties
<1>6. w = s \o <<c>>
  BY AppendIsConcat
<1>8. w = v
  BY <1>6 DEF Join, One
<1> HIDE DEF w
<1>9. LastOf(w) = c /\ (IF s = None THEN FirstOf(w) = c ELSE FirstOf(w) = FirstOf(s)) /\ w # None
  BY <1>1, <1>2, <1>3, <1>4, <1>5 DEF FirstOf, LastOf, None
<1> QED
  BY <1>1, <1>8, <1>9 DEF w

\* What Select has of the first i characters, for every i.
Selection(t, S) ==
  LET sel[i \in 0..Len(t)] ==
        IF i = 0 THEN <<>>
        ELSE IF i \in S THEN Append(sel[i - 1], t[i]) ELSE sel[i - 1]
  IN sel

\* One position after the other is selected or left out.
Selects(g, t, S) ==
  /\ g[0] = None
  /\ \A i \in 1..Len(t) :
       /\ i \in S => g[i] = Join(g[i - 1], One(t[i]))
       /\ i \notin S => g[i] = g[i - 1]

Pick(t, S, i, s) == IF i \in S THEN Append(s, t[i]) ELSE s

LEMMA PickIsTyped ==
  ASSUME NEW C, NEW t \in Seq(C), NEW S, NEW i \in 1..Len(t), NEW s \in Seq(C)
  PROVE  Pick(t, S, i, s) \in Seq(C)
<1>1. t[i] \in C
  OBVIOUS
<1>2. Append(s, t[i]) \in Seq(C)
  BY <1>1
<1> QED
  BY <1>2 DEF Pick

LEMMA SelectScans ==
  ASSUME NEW C, NEW t \in Seq(C), NEW S
  PROVE  /\ Selection(t, S) \in [0..Len(t) -> Seq(C)]
         /\ Selects(Selection(t, S), t, S)
         /\ Select(t, S) = Selection(t, S)[Len(t)]
<1> DEFINE n == Len(t)
           R == Seq(C)
           D(g) == [i \in 0..n |-> IF i = 0 THEN None ELSE Pick(t, S, i, g[i - 1])]
           step == [i \in 1..n |-> [s \in R |-> Pick(t, S, i, s)]]
<1>0. n \in Nat
  OBVIOUS
<1>1. None \in R
  BY DEF None
<1>2. ASSUME NEW i \in 1..n, NEW s \in R PROVE Pick(t, S, i, s) \in R
  BY PickIsTyped
<1>3. Selection(t, S) = CHOOSE g : g = D(g)
  BY DEF Selection, Pick, None
<1>4. Select(t, S) = Selection(t, S)[n]
  BY DEF Select, Selection
<1> HIDE DEF R, n
<1>5. step \in [1..n -> [R -> R]]
  BY <1>2
<1>6. PICK g \in [0..n -> R] : Follows(g, None, step, n)
  <2> HIDE DEF step
  <2> QED
    BY <1>0, <1>1, <1>5, IntervalRecursion
<1>7. ASSUME NEW i \in 1..n PROVE g[i] = Pick(t, S, i, g[i - 1])
  <2>1. g[i - 1] \in R
    BY <1>0
  <2> QED
    BY <1>6, <2>1 DEF Follows
<1>8. g = D(g)
  BY <1>0, <1>6, <1>7 DEF Follows
<1> DEFINE sel == CHOOSE g2 : g2 = D(g2)
<1>9. sel = D(sel)
  <2> HIDE DEF D
  <2> QED
    BY <1>8
<1> HIDE DEF sel
<1>10. sel[0] = None /\ \A i \in 1..n : sel[i] = Pick(t, S, i, sel[i - 1])
  BY <1>0, <1>9
<1> DEFINE T == {k \in 0..n : sel[k] \in R}
<1>11. 0 \in T
  BY <1>0, <1>1, <1>10
<1>12. ASSUME NEW k \in 1..n, k - 1 \in T PROVE k \in T
  BY <1>0, <1>2, <1>10, <1>12
<1>13. \A k \in 0..n : k \in T
  <2> HIDE DEF T
  <2> QED
    BY <1>0, <1>11, <1>12, IntervalInduction
<1>14. sel \in [0..n -> R]
  BY <1>9, <1>13
<1>15. Selects(sel, t, S)
  <2>1. sel[0] = None
    BY <1>10
  <2>2. ASSUME NEW i \in 1..n
        PROVE  /\ i \in S => sel[i] = Join(sel[i - 1], One(t[i]))
               /\ i \notin S => sel[i] = sel[i - 1]
    <3>1. sel[i - 1] \in Seq(C) /\ t[i] \in C
      BY <1>0, <1>14 DEF R, n
    <3>2. Append(sel[i - 1], t[i]) = Join(sel[i - 1], One(t[i]))
      BY <3>1, AppendIsConcat DEF Join, One
    <3>3. Pick(t, S, i, sel[i - 1]) = IF i \in S THEN Join(sel[i - 1], One(t[i])) ELSE sel[i - 1]
      BY <3>2 DEF Pick
    <3> QED
      BY <1>10, <3>3
  <2> QED
    BY <2>1, <2>2 DEF Selects, n
<1>16. Selection(t, S) = sel
  BY <1>3 DEF sel
<1> QED
  BY <1>4, <1>14, <1>15, <1>16 DEF n, R

\* Texts of which the same is selected but for one character; e characters of
\* t are missing in u.
AlikeBut(t, S, u, V, q, e) ==
  /\ e \in {0, 1} /\ Len(t) = Len(u) + e /\ q \in 1..Len(t) /\ q \in S
  /\ \A k \in 1..(q - 1) : (k \in S <=> k \in V) /\ (k \in S => t[k] = u[k])
  /\ \A k \in (q + 1)..Len(t) :
       (k \in S <=> k - e \in V) /\ (k \in S => t[k] = u[k - e])

\* What is selected on either side is next to it.
Beside(X, Y, t, S, q) ==
  /\ q - 1 \in S /\ q > 1 => X # None /\ LastOf(X) = t[q - 1]
  /\ q + 1 \in S /\ q < Len(t) => Y # None /\ FirstOf(Y) = t[q + 1]

Replacing(u, V, q, e) == IF e = 0 /\ q \in V THEN One(u[q]) ELSE None

\* What is selected of both is the same on either side of that character.
LEMMA SelectEdit ==
  ASSUME NEW C, NEW t \in Seq(C), NEW u \in Seq(C), NEW S, NEW V, NEW q, NEW e,
         AlikeBut(t, S, u, V, q, e)
  PROVE  \E X \in Seq(C), Y \in Seq(C) :
              /\ Select(t, S) = Join(Join(X, One(t[q])), Y)
              /\ Select(u, V) = Join(Join(X, Replacing(u, V, q, e)), Y)
              /\ Beside(X, Y, t, S, q)
<1> DEFINE D == Replacing(u, V, q, e)
           n == Len(t)
<1>0. /\ n \in Nat /\ Len(u) \in Nat /\ q \in Nat \ {0} /\ q - 1 \in Nat /\ q <= n /\ Len(u) = n - e
      /\ e \in {0, 1} /\ q \in 1..n /\ q \in S
  BY DEF AlikeBut
<1> DEFINE g == Selection(t, S)
           h == Selection(u, V)
<1>1. g \in [0..Len(t) -> Seq(C)] /\ Selects(g, t, S) /\ Select(t, S) = g[Len(t)]
  BY SelectScans
<1>2. h \in [0..Len(u) -> Seq(C)] /\ Selects(h, u, V) /\ Select(u, V) = h[Len(u)]
  BY SelectScans
<1> HIDE DEF g, h
<1>3. \A k \in 0..(q - 1) : g[k] = h[k]
  <2> DEFINE T == {k \in 0..(q - 1) : g[k] = h[k]}
  <2>1. 0 \in T
    BY <1>0, <1>1, <1>2 DEF Selects
  <2>2. ASSUME NEW k \in 1..(q - 1), k - 1 \in T PROVE k \in T
    <3>1. k \in 1..Len(t) /\ k \in 1..Len(u)
      BY <1>0
    <3>2. g[k - 1] = h[k - 1]
      BY <2>2
    <3>3. (k \in S <=> k \in V) /\ (k \in S => t[k] = u[k])
      BY DEF AlikeBut
    <3>4. g[k] = h[k]
      BY <1>1, <1>2, <3>1, <3>2, <3>3 DEF Selects
    <3> QED
      BY <3>4
  <2>3. \A k \in 0..(q - 1) : k \in T
    <3> HIDE DEF T
    <3> QED
      BY <1>0, <2>1, <2>2, IntervalInduction
  <2> QED
    BY <2>3
<1> DEFINE X == g[q - 1]
<1>4. X \in Seq(C) /\ h[q - 1] = X /\ t[q] \in C /\ D \in Seq(C)
  <2>1. q - 1 \in 0..n /\ q - 1 \in 0..(q - 1)
    BY <1>0
  <2>2. (e = 0 => u[q] \in C) /\ t[q] \in C
    BY <1>0
  <2>3. D \in Seq(C)
    BY <2>2, OneIsTyped, EmptySeq DEF None, Replacing
  <2> QED
    BY <1>1, <1>3, <2>1, <2>2, <2>3
<1>5. g[q] = Join(X, One(t[q]))
  BY <1>0, <1>1 DEF Selects
<1>6. h[q - e] = Join(X, D)
  <2>1. CASE e = 1
    <3>1. D = None
      BY <2>1 DEF Replacing
    <3> QED
      BY <1>4, <2>1, <3>1, Joins
  <2>2. CASE e = 0 /\ q \notin V
    <3>1. q \in 1..Len(u) /\ q - e = q
      BY <1>0, <2>2
    <3>2. h[q] = X
      BY <1>2, <1>4, <2>2, <3>1 DEF Selects
    <3>3. D = None
      BY <2>2 DEF Replacing
    <3> QED
      BY <1>4, <3>1, <3>2, <3>3, Joins
  <2>3. CASE e = 0 /\ q \in V
    <3>1. q \in 1..Len(u) /\ q - e = q /\ u[q] \in C
      BY <1>0, <2>3
    <3>2. h[q] = Join(X, One(u[q]))
      BY <1>2, <1>4, <2>3, <3>1 DEF Selects
    <3>3. D = One(u[q])
      BY <2>3 DEF Replacing
    <3> QED
      BY <3>1, <3>2, <3>3
  <2> QED
    BY <1>0, <2>1, <2>2, <2>3
<1> HIDE DEF X, D
<1> DEFINE A == Join(X, One(t[q]))
           B == Join(X, D)
           Ends(x, Y) ==
             /\ g[q + x] = Join(A, Y)
             /\ h[(q - e) + x] = Join(B, Y)
             /\ x > 0 /\ q + 1 \in S => Y # None /\ FirstOf(Y) = t[q + 1]
           T == {x \in 0..(n - q) : \E Y \in Seq(C) : Ends(x, Y)}
<1>7. A \in Seq(C) /\ B \in Seq(C) /\ g[q] = A /\ h[q - e] = B
  <2>1. One(t[q]) \in Seq(C)
    BY <1>4, OneIsTyped
  <2> QED
    BY <1>4, <1>5, <1>6, <2>1, Joins
<1> HIDE DEF A, B
<1>8. 0 \in T
  <2>1. q + 0 = q /\ (q - e) + 0 = q - e /\ 0 \in 0..(n - q)
    BY <1>0
  <2>2. None \in Seq(C)
    BY EmptySeq DEF None
  <2>3. /\ Join(A, None) = A
        /\ Join(B, None) = B
    BY <1>7, Joins
  <2>4. g[q + 0] = Join(A, None) /\ h[(q - e) + 0] = Join(B, None)
    BY <1>7, <2>1, <2>3
  <2>5. Ends(0, None)
    BY <2>4
  <2> HIDE DEF Ends
  <2> QED
    BY <2>1, <2>2, <2>5
<1>9. ASSUME NEW x \in 1..(n - q), x - 1 \in T PROVE x \in T
  <2>1. PICK Y \in Seq(C) : Ends(x - 1, Y)
    BY <1>9
  <2> DEFINE k == q + x
             k2 == (q - e) + x
  <2>2. /\ k \in (q + 1)..Len(t) /\ k \in 1..Len(t) /\ k2 \in 1..Len(u) /\ k - e = k2
        /\ k - 1 = q + (x - 1) /\ k2 - 1 = (q - e) + (x - 1)
    BY <1>0
  <2> HIDE DEF k, k2
  <2>3. (k \in S <=> k2 \in V) /\ (k \in S => t[k] = u[k2])
    BY <2>2 DEF AlikeBut
  <2>4. g[k - 1] = Join(A, Y) /\ h[k2 - 1] = Join(B, Y)
    BY <2>1, <2>2
  <2>5. CASE k \in S
    <3> DEFINE c == t[k]
               Y2 == Join(Y, One(c))
    <3>1. c \in C /\ One(c) \in Seq(C)
      BY <2>2, OneIsTyped
    <3>2. g[k] = Join(g[k - 1], One(c)) /\ h[k2] = Join(h[k2 - 1], One(c))
      BY <1>1, <1>2, <2>2, <2>3, <2>5 DEF Selects
    <3>3. k = q + 1 => c = t[q + 1]
      OBVIOUS
    <3> HIDE DEF c
    <3>4. Join(A, Y) \in Seq(C) /\ Join(B, Y) \in Seq(C)
      BY <1>7, Joins
    <3>5. g[k] = Join(Join(A, Y), One(c)) /\ h[k2] = Join(Join(B, Y), One(c))
      BY <2>4, <3>2
    <3>6. /\ Join(Join(A, Y), One(c)) = Join(A, Y2)
          /\ Join(Join(B, Y), One(c)) = Join(B, Y2)
      BY <1>7, <3>1, JoinAssociative
    <3>7. /\ Y2 \in Seq(C) /\ Y2 # None
          /\ Y # None => FirstOf(Y2) = FirstOf(Y)
          /\ Y = None => FirstOf(Y2) = c
      BY <3>1, JoinOne
    <3> HIDE DEF Y2
    <3>8. q + 1 \in S => Y2 # None /\ FirstOf(Y2) = t[q + 1]
      <4>1. CASE x = 1
        <5>1. k = q + 1
          BY <4>1 DEF k
        <5>2. g[q] = Join(A, Y)
          BY <1>0, <2>4, <5>1
        <5>3. Y = None
          BY <1>7, <5>2, Joins
        <5> QED
          BY <3>3, <3>7, <5>1, <5>3
      <4>2. CASE x > 1
        <5>1. x - 1 > 0
          BY <4>2
        <5> QED
          BY <2>1, <3>7, <5>1
      <4> QED
        BY <4>1, <4>2
    <3>9. Ends(x, Y2)
      BY <3>5, <3>6, <3>8 DEF k, k2
    <3> HIDE DEF Ends
    <3>10. x \in 0..(n - q)
      BY <1>0
    <3> QED
      BY <3>7, <3>9, <3>10
  <2>6. CASE k \notin S
    <3>1. g[k] = g[k - 1] /\ h[k2] = h[k2 - 1]
      BY <1>1, <1>2, <2>2, <2>3, <2>6 DEF Selects
    <3>2. x > 0 /\ q + 1 \in S => x - 1 > 0
      BY <2>6 DEF k
    <3>3. Ends(x, Y)
      <4>1. g[q + x] = Join(A, Y) /\ h[(q - e) + x] = Join(B, Y)
        BY <2>4, <3>1 DEF k, k2
      <4> QED
        BY <2>1, <3>2, <4>1
    <3> HIDE DEF Ends
    <3> QED
      BY <1>0, <3>3
  <2> QED
    BY <2>5, <2>6
<1>10. n - q \in T
  <2> HIDE DEF T
  <2>1. n - q \in Nat /\ n - q \in 0..(n - q)
    BY <1>0
  <2>2. \A x \in 0..(n - q) : x \in T
    BY <1>8, <1>9, <2>1, IntervalInduction
  <2> QED
    BY <2>1, <2>2
<1>11. PICK Y \in Seq(C) : Ends(n - q, Y)
  BY <1>10
<1>12. q + (n - q) = Len(t) /\ (q - e) + (n - q) = Len(u)
  BY <1>0
<1>13. Select(t, S) = Join(Join(X, One(t[q])), Y) /\ Select(u, V) = Join(Join(X, D), Y)
  BY <1>1, <1>2, <1>11, <1>12 DEF A, B
<1>14. q + 1 \in S /\ q < Len(t) => Y # None /\ FirstOf(Y) = t[q + 1]
  <2>1. q < Len(t) => n - q > 0
    BY <1>0
  <2> QED
    BY <1>11, <2>1
<1>15. q - 1 \in S /\ q > 1 => X # None /\ LastOf(X) = t[q - 1]
  <2> SUFFICES ASSUME q - 1 \in S, q > 1 PROVE X # None /\ LastOf(X) = t[q - 1]
    OBVIOUS
  <2>1. q - 1 \in 1..Len(t) /\ (q - 1) - 1 \in 0..Len(t)
    BY <1>0
  <2>2. X = Join(g[(q - 1) - 1], One(t[q - 1]))
    BY <1>1, <2>1 DEF X, Selects
  <2>3. g[(q - 1) - 1] \in Seq(C) /\ t[q - 1] \in C
    BY <1>1, <2>1
  <2> DEFINE r == g[(q - 1) - 1]
             c == t[q - 1]
  <2> HIDE DEF r, c
  <2>4. r \in Seq(C) /\ c \in C /\ X = Join(r, One(c))
    BY <2>2, <2>3 DEF r, c
  <2>5. X # None /\ LastOf(X) = c
    BY ONLY <2>4, JoinOne
  <2> QED
    BY <2>5 DEF c
<1> QED
  <2>1. Beside(X, Y, t, S, q)
    BY <1>14, <1>15 DEF Beside
  <2> QED
    BY <1>4, <1>13, <2>1 DEF D

-----------------------------------------------------------------------------
(* What the normalised text tells apart *)

\* The length of what is selected is the number of positions selected.
Counts(n, t, S) ==
  /\ n \in [0..Len(t) -> Nat] /\ n[0] = 0
  /\ \A i \in 1..Len(t) : n[i] = IF i \in S THEN n[i - 1] + 1 ELSE n[i - 1]
  /\ Len(Select(t, S)) = n[Len(t)]

LEMMA SelectCounts ==
  ASSUME NEW C, NEW t \in Seq(C), NEW S
  PROVE  \E n : Counts(n, t, S)
<1> DEFINE g == Selection(t, S)
           n == [i \in 0..Len(t) |-> Len(g[i])]
<1>1. g \in [0..Len(t) -> Seq(C)] /\ Selects(g, t, S) /\ Select(t, S) = g[Len(t)]
  BY SelectScans
<1>2. Len(t) \in Nat
  OBVIOUS
<1> HIDE DEF g
<1>3. n \in [0..Len(t) -> Nat] /\ Len(Select(t, S)) = n[Len(t)]
  BY <1>1, <1>2
<1>4. n[0] = 0
  BY <1>1, <1>2 DEF Selects, None
<1>5. ASSUME NEW i \in 1..Len(t)
      PROVE  n[i] = IF i \in S THEN n[i - 1] + 1 ELSE n[i - 1]
  <2> DEFINE r == g[i - 1]
             c == t[i]
  <2>1. /\ i - 1 \in 0..Len(t) /\ i \in 0..Len(t)
        /\ r \in Seq(C) /\ c \in C
    BY <1>1, <1>2
  <2>2. /\ i \in S => g[i] = Join(r, One(c))
        /\ i \notin S => g[i] = r
    BY <1>1 DEF Selects
  <2> HIDE DEF r, c
  <2>3. i \in S => Len(g[i]) = Len(r) + 1
    BY ONLY <2>1, <2>2, JoinOne
  <2> QED
    BY <2>1, <2>2, <2>3 DEF r
<1> HIDE DEF n
<1> QED
  BY <1>3, <1>4, <1>5 DEF Counts

\* Where more positions are selected, the result is longer.
LEMMA SelectsLess ==
  ASSUME NEW C, NEW t \in Seq(C), NEW u \in Seq(C), NEW S, NEW V, NEW e \in {0, 1},
         Len(t) = Len(u) + e, NEW p \in 1..Len(t), p \in S, e = 0 => p \notin V,
         \A k \in 1..(p - 1) : k \in V => k \in S,
         \A k \in (p + 1)..Len(t) : k - e \in V => k \in S
  PROVE  Select(t, S) # Select(u, V)
<1>1. PICK n : Counts(n, t, S)
  BY SelectCounts
<1>2. PICK m : Counts(m, u, V)
  BY SelectCounts
<1>3. Len(t) \in Nat /\ Len(u) \in Nat /\ p - 1 \in Nat /\ Len(t) - p \in Nat
  OBVIOUS
<1>4. m[p - 1] <= n[p - 1]
  <2> DEFINE T == {k \in 0..(p - 1) : m[k] <= n[k]}
  <2>1. 0 \in T
    BY <1>1, <1>2, <1>3 DEF Counts
  <2>2. ASSUME NEW k \in 1..(p - 1), k - 1 \in T PROVE k \in T
    <3>1. k \in 1..Len(t) /\ k \in 1..Len(u) /\ k - 1 \in 0..Len(t) /\ k - 1 \in 0..Len(u)
      BY <1>3
    <3>2. m[k - 1] <= n[k - 1] /\ m[k - 1] \in Nat /\ n[k - 1] \in Nat
      BY <1>1, <1>2, <2>2, <3>1 DEF Counts
    <3>3. k \in V => k \in S
      OBVIOUS
    <3>4. /\ m[k] = IF k \in V THEN m[k - 1] + 1 ELSE m[k - 1]
          /\ n[k] = IF k \in S THEN n[k - 1] + 1 ELSE n[k - 1]
      BY <1>1, <1>2, <3>1 DEF Counts
    <3>5. m[k] <= n[k]
      BY <3>2, <3>3, <3>4
    <3> QED
      BY <3>5
  <2>3. \A k \in 0..(p - 1) : k \in T
    <3> HIDE DEF T
    <3> QED
      BY <1>3, <2>1, <2>2, IntervalInduction
  <2> QED
    BY <1>3, <2>3
<1>5. m[p - e] < n[p]
  <2>1. n[p] = n[p - 1] + 1 /\ n[p - 1] \in Nat
    BY <1>1, <1>3 DEF Counts
  <2>2. m[p - e] = m[p - 1] /\ m[p - 1] \in Nat
    <3>1. CASE e = 0
      <4>1. p \in 1..Len(u) /\ p - e = p /\ p - 1 \in 0..Len(u)
        BY <1>3, <3>1
      <4> QED
        BY <1>2, <3>1, <4>1 DEF Counts
    <3>2. CASE e = 1
      <4>1. p - e = p - 1 /\ p - 1 \in 0..Len(u)
        BY <1>3, <3>2
      <4> QED
        BY <1>2, <4>1 DEF Counts
    <3> QED
      BY <3>1, <3>2
  <2> QED
    BY <1>4, <2>1, <2>2
<1> DEFINE T == {x \in 0..(Len(t) - p) : m[(p - e) + x] < n[p + x]}
<1>6. 0 \in T
  BY <1>3, <1>5
<1>7. ASSUME NEW x \in 1..(Len(t) - p), x - 1 \in T PROVE x \in T
  <2> DEFINE k == p + x
             j == (p - e) + x
  <2>1. /\ k \in (p + 1)..Len(t) /\ k \in 1..Len(t) /\ j \in 1..Len(u) /\ k - e = j
        /\ k - 1 = p + (x - 1) /\ j - 1 = (p - e) + (x - 1)
        /\ k - 1 \in 0..Len(t) /\ j - 1 \in 0..Len(u)
    BY <1>3
  <2>2. m[j - 1] < n[k - 1]
    BY <1>7, <2>1
  <2> HIDE DEF k, j
  <2>3. j \in V => k \in S
    BY <2>1
  <2>4. /\ m[j] = IF j \in V THEN m[j - 1] + 1 ELSE m[j - 1]
        /\ n[k] = IF k \in S THEN n[k - 1] + 1 ELSE n[k - 1]
        /\ m[j - 1] \in Nat /\ n[k - 1] \in Nat
    BY <1>1, <1>2, <2>1 DEF Counts
  <2>5. m[j] < n[k]
    BY <2>2, <2>3, <2>4
  <2> QED
    BY <2>5 DEF k, j
<1>8. \A x \in 0..(Len(t) - p) : x \in T
  <2> HIDE DEF T
  <2> QED
    BY <1>3, <1>6, <1>7, IntervalInduction
<1>9. m[Len(u)] < n[Len(t)]
  <2>0. Len(t) - p \in 0..(Len(t) - p)
    BY <1>3
  <2>1. (p - e) + (Len(t) - p) = Len(u) /\ p + (Len(t) - p) = Len(t)
    BY <1>3
  <2> QED
    BY <1>8, <2>0, <2>1
<1>10. m[Len(u)] \in Nat /\ n[Len(t)] \in Nat
  BY <1>1, <1>2, <1>3 DEF Counts
<1> QED
  BY <1>1, <1>2, <1>9, <1>10 DEF Counts

\* What Normal keeps: characters, blanks within a line, one newline between lines.
SolidAt(s, i) == i \in 1..Len(s) /\ ~ Blank(s[i])
SameLine(s, i, j) == \A k \in i..j : s[k] # "newline"

InnerAt(s, i) ==
  /\ i \in 1..Len(s) /\ s[i] = "space"
  /\ \E j \in 1..Len(s) : SolidAt(s, j) /\ i < j /\ SameLine(s, i, j)

BreakAt(s, i) ==
  /\ i \in 1..Len(s) /\ s[i] = "newline"
  /\ \E j \in 1..Len(s) : SolidAt(s, j) /\ j < i /\ SameLine(s, j, i - 1)
  /\ \E j \in 1..Len(s) : SolidAt(s, j) /\ i < j

Significant(s) == {i \in 1..Len(s) : SolidAt(s, i) \/ InnerAt(s, i) \/ BreakAt(s, i)}

LEMMA NormalSelects ==
  ASSUME NEW s
  PROVE  Normal(s) = Select(s, Significant(s))
<1> DEFINE solid == {i \in 1..Len(s) : ~ Blank(s[i])}
           sameLine(i, j) == \A k \in i..j : s[k] # "newline"
           inner == {i \in 1..Len(s) : s[i] = "space" /\
                        \E j \in solid : i < j /\ sameLine(i, j)}
           breaks == {i \in 1..Len(s) : s[i] = "newline" /\
                        /\ \E j \in solid : j < i /\ sameLine(j, i - 1)
                        /\ \E j \in solid : i < j}
<1>1. Normal(s) = Select(s, solid \cup inner \cup breaks)
  BY DEF Normal
<1>2. ASSUME NEW i PROVE i \in solid <=> SolidAt(s, i)
  BY DEF SolidAt
<1>3. ASSUME NEW i PROVE i \in inner <=> InnerAt(s, i)
  BY <1>2 DEF InnerAt, SolidAt, SameLine
<1>4. ASSUME NEW i PROVE i \in breaks <=> BreakAt(s, i)
  BY <1>2 DEF BreakAt, SolidAt, SameLine
<1> HIDE DEF solid, inner, breaks
<1>5. ASSUME NEW i PROVE i \in solid \cup inner \cup breaks <=> i \in Significant(s)
  BY <1>2, <1>3, <1>4 DEF Significant, SolidAt, InnerAt, BreakAt
<1>6. solid \cup inner \cup breaks = Significant(s)
  BY <1>5
<1> QED
  BY <1>1, <1>6

\* One character is replaced by another, or has no counterpart.
LEMMA SelectPut ==
  ASSUME NEW C, NEW t \in Seq(C), NEW u \in Seq(C), NEW S, NEW V,
         Len(t) = Len(u), NEW q \in 1..Len(t), q \in S, q \in V,
         \A k \in 1..Len(t) : k # q => (k \in S <=> k \in V) /\ (k \in S => t[k] = u[k])
  PROVE  \E X \in Seq(C), Y \in Seq(C) :
              /\ Select(t, S) = Join(Join(X, One(t[q])), Y)
              /\ Select(u, V) = Join(Join(X, One(u[q])), Y)
<1> DEFINE e == 0
           D == Replacing(u, V, q, e)
<1>1. Len(t) \in Nat /\ Len(u) \in Nat
  OBVIOUS
<1>2. e \in {0, 1} /\ Len(t) = Len(u) + e
  BY <1>1
<1>3. D = One(u[q])
  BY DEF Replacing
<1>4. \A k \in 1..(q - 1) : (k \in S <=> k \in V) /\ (k \in S => t[k] = u[k])
  BY <1>1
<1>5. \A k \in (q + 1)..Len(t) : (k \in S <=> k - e \in V) /\ (k \in S => t[k] = u[k - e])
  BY <1>1
<1> HIDE DEF e
<1>6. \E X \in Seq(C), Y \in Seq(C) :
              /\ Select(t, S) = Join(Join(X, One(t[q])), Y)
              /\ Select(u, V) = Join(Join(X, D), Y)
  <2>1. AlikeBut(t, S, u, V, q, e)
    BY <1>2, <1>4, <1>5 DEF AlikeBut
  <2> QED
    BY <2>1, SelectEdit
<1> HIDE DEF D
<1> QED
  BY <1>3, <1>6

LEMMA SelectWithout ==
  ASSUME NEW C, NEW t \in Seq(C), NEW u \in Seq(C), NEW S, NEW V, NEW q, NEW e,
         AlikeBut(t, S, u, V, q, e), e = 1 \/ q \notin V
  PROVE  \E X \in Seq(C), Y \in Seq(C) :
              /\ Select(t, S) = Join(Join(X, One(t[q])), Y)
              /\ Select(u, V) = Join(X, Y)
              /\ Beside(X, Y, t, S, q)
<1>1. Replacing(u, V, q, e) = None
  BY DEF Replacing
<1>2. \A X \in Seq(C) : Join(X, Replacing(u, V, q, e)) = X
  BY <1>1, Joins, EmptySeq DEF None
<1>3. \E X \in Seq(C), Y \in Seq(C) :
              /\ Select(t, S) = Join(Join(X, One(t[q])), Y)
              /\ Select(u, V) = Join(Join(X, Replacing(u, V, q, e)), Y)
              /\ Beside(X, Y, t, S, q)
  BY SelectEdit
<1> QED
  BY <1>2, <1>3

\* Between the same texts one character is not another, nor none.
LEMMA JoinTellsMiddle ==
  ASSUME NEW C, NEW X \in Seq(C), NEW Y \in Seq(C), NEW a \in C, NEW b \in C,
         Join(Join(X, One(a)), Y) = Join(Join(X, One(b)), Y)
  PROVE  a = b
<1>1. Join(X, One(a)) = Join(X, One(b))
  <2>1. Join(X, One(a)) \in Seq(C) /\ Join(X, One(b)) \in Seq(C)
    BY OneIsTyped, Joins
  <2> DEFINE r == Join(X, One(a))
             s == Join(X, One(b))
  <2>2. r \in Seq(C) /\ s \in Seq(C) /\ r \o Y = s \o Y
    BY <2>1 DEF Join
  <2> HIDE DEF r, s
  <2>3. r = s
    BY <2>2, ConcatSimplifications
  <2> QED
    BY <2>3 DEF r, s
<1>2. LastOf(Join(X, One(a))) = a
  BY JoinOne
<1>3. LastOf(Join(X, One(b))) = b
  BY JoinOne
<1> QED
  BY <1>1, <1>2, <1>3

\* A character that is not whitespace, replaced by another.
LEMMA NormalPut ==
  ASSUME NEW C, NEW t \in Seq(C), NEW u \in Seq(C), NEW q, PutAt(t, u, q), ~ Blank(t[q])
  PROVE  Normal(t) # Normal(u)
<1> DEFINE S == Significant(t)
           V == Significant(u)
<1>1. Normal(t) = Select(t, S) /\ Normal(u) = Select(u, V)
  BY NormalSelects
<1>2. /\ Len(u) = Len(t) /\ q \in 1..Len(t) /\ t[q] # u[q]
      /\ \A k \in 1..Len(t) : k # q => u[k] = t[k]
  BY DEF PutAt
<1>3. Len(t) \in Nat /\ q \in Nat /\ q - 1 \in Nat /\ t[q] # "newline"
  BY <1>2 DEF Blank
<1>4. q \in S
  BY <1>2 DEF Significant, SolidAt
<1>5. ASSUME NEW k \in 1..Len(t), k # q, k \in V PROVE k \in S
  <2>1. k \in 1..Len(u) /\ u[k] = t[k]
    BY <1>2, <1>5
  <2>2. \A j \in 1..Len(t) : SolidAt(u, j) => SolidAt(t, j)
    BY <1>2 DEF SolidAt
  <2>3. \A i \in 1..Len(t), j \in 1..Len(t) : SameLine(u, i, j) => SameLine(t, i, j)
    <3> SUFFICES ASSUME NEW i \in 1..Len(t), NEW j \in 1..Len(t), SameLine(u, i, j),
                        NEW x \in i..j
                 PROVE  t[x] # "newline"
      BY DEF SameLine
    <3>1. x \in 1..Len(t) /\ u[x] # "newline"
      BY <1>3 DEF SameLine
    <3> QED
      BY <1>2, <1>3, <3>1
  <2>4. CASE SolidAt(u, k)
    BY <2>1, <2>2, <2>4 DEF Significant
  <2>5. CASE InnerAt(u, k)
    BY <1>2, <2>1, <2>2, <2>3, <2>5 DEF Significant, InnerAt
  <2>6. CASE BreakAt(u, k)
    <3>1. PICK j \in 1..Len(t) : SolidAt(u, j) /\ j < k /\ SameLine(u, j, k - 1)
      BY <1>2, <2>6 DEF BreakAt
    <3>2. k - 1 \in 1..Len(t)
      BY <1>3, <3>1
    <3>3. SolidAt(t, j) /\ SameLine(t, j, k - 1)
      BY <2>2, <2>3, <3>1, <3>2
    <3>4. \E j2 \in 1..Len(t) : SolidAt(t, j2) /\ k < j2
      BY <1>2, <2>2, <2>6 DEF BreakAt
    <3>5. BreakAt(t, k)
      BY <2>1, <2>6, <3>1, <3>3, <3>4 DEF BreakAt
    <3> QED
      BY <3>5 DEF Significant
  <2> QED
    BY <1>5, <2>4, <2>5, <2>6 DEF Significant
<1> HIDE DEF S, V
<1>6. CASE \E p \in 1..Len(t) : p \in S /\ p \notin V
  <2>1. PICK p \in 1..Len(t) : p \in S /\ p \notin V
    BY <1>6
  <2>2. \A k \in 1..Len(t) : k \in V => k \in S
    BY <1>4, <1>5
  <2>3. /\ \A k \in 1..(p - 1) : k \in V => k \in S
        /\ \A k \in (p + 1)..Len(t) : k - 0 \in V => k \in S
    BY <1>3, <2>2
  <2>4. Len(t) = Len(u) + 0
    BY <1>2, <1>3
  <2>5. Select(t, S) # Select(u, V)
    BY <2>1, <2>3, <2>4, SelectsLess
  <2> QED
    BY <1>1, <2>5
<1>7. CASE \A p \in 1..Len(t) : p \in S => p \in V
  <2>1. \A k \in 1..Len(t) : k # q => (k \in S <=> k \in V) /\ (k \in S => t[k] = u[k])
    BY <1>2, <1>5, <1>7
  <2>2. q \in V
    BY <1>2, <1>4, <1>7
  <2>4. PICK X \in Seq(C), Y \in Seq(C) :
           /\ Select(t, S) = Join(Join(X, One(t[q])), Y)
           /\ Select(u, V) = Join(Join(X, One(u[q])), Y)
    BY <1>2, <1>4, <2>1, <2>2, SelectPut
  <2>5. t[q] \in C /\ u[q] \in C
    BY <1>2
  <2>6. Join(Join(X, One(t[q])), Y) # Join(Join(X, One(u[q])), Y)
    BY <1>2, <2>5, JoinTellsMiddle
  <2> QED
    BY <1>1, <2>4, <2>6
<1> QED
  BY <1>6, <1>7

\* A character is taken out that is not whitespace, or that parts two that are not.
LEMMA NormalDelete ==
  ASSUME NEW C, NEW t \in Seq(C), NEW u \in Seq(C), NEW q, DeleteAt(t, u, q),
         Blank(t[q]) => SolidAt(t, q - 1) /\ SolidAt(t, q + 1)
  PROVE  Normal(t) # Normal(u)
<1> DEFINE S == Significant(t)
           V == Significant(u)
<1>1. Normal(t) = Select(t, S) /\ Normal(u) = Select(u, V)
  BY NormalSelects
<1>2. /\ Len(t) = Len(u) + 1 /\ q \in 1..Len(t)
      /\ \A k \in 1..(q - 1) : u[k] = t[k]
      /\ \A k \in (q + 1)..Len(t) : u[k - 1] = t[k]
  BY DEF DeleteAt
<1>3. Len(t) \in Nat /\ Len(u) \in Nat /\ q \in Nat /\ q - 1 \in Nat
  BY <1>2
\* Where a character of u stood in t.
<1> DEFINE At(k) == IF k < q THEN k ELSE k + 1
<1>4. ASSUME NEW k \in 1..Len(u)
      PROVE  /\ At(k) \in 1..Len(t) /\ At(k) # q /\ t[At(k)] = u[k]
             /\ k < q => At(k) = k
             /\ k >= q => At(k) = k + 1
  <2>1. CASE k < q
    BY <1>2, <1>3, <2>1
  <2>2. CASE k >= q
    <3>1. k + 1 \in (q + 1)..Len(t) /\ (k + 1) - 1 = k
      BY <1>2, <1>3, <2>2
    <3> QED
      BY <1>2, <1>3, <2>2, <3>1
  <2> QED
    BY <1>3, <2>1, <2>2
<1>5. ASSUME NEW i \in 1..Len(u), NEW j \in 1..Len(u), i < j PROVE At(i) < At(j)
  BY <1>3, <1>5
<1> HIDE DEF At
<1>6. q \in S
  <2>1. CASE ~ Blank(t[q])
    BY <1>2, <2>1 DEF Significant, SolidAt
  <2>2. CASE Blank(t[q])
    <3>1. SolidAt(t, q - 1) /\ SolidAt(t, q + 1)
      BY <2>2
    <3>2. q - 1 \in 1..Len(t) /\ q + 1 \in 1..Len(t)
      BY <3>1 DEF SolidAt
    <3>3. CASE t[q] = "space"
      <4>1. SameLine(t, q, q + 1)
        BY <1>3, <3>1, <3>3 DEF SameLine, SolidAt, Blank
      <4>2. q < q + 1
        BY <1>3
      <4>3. InnerAt(t, q)
        BY <1>2, <3>1, <3>2, <3>3, <4>1, <4>2 DEF InnerAt
      <4> QED
        BY <1>2, <4>3 DEF Significant
    <3>4. CASE t[q] = "newline"
      <4>1. SameLine(t, q - 1, q - 1)
        BY <1>3, <3>1 DEF SameLine, SolidAt, Blank
      <4>2. q < q + 1 /\ q - 1 < q
        BY <1>3
      <4>3. BreakAt(t, q)
        BY <1>2, <3>1, <3>2, <3>4, <4>1, <4>2 DEF BreakAt
      <4> QED
        BY <1>2, <4>3 DEF Significant
    <3> QED
      BY <2>2, <3>3, <3>4 DEF Blank
  <2> QED
    BY <2>1, <2>2
<1>7. \A k \in 1..Len(u) : SolidAt(u, k) => SolidAt(t, At(k))
  BY <1>4 DEF SolidAt
\* A line of u was one in t, unless it was the removed newline that parted it.
<1>8. ASSUME NEW i \in 1..Len(u), NEW j \in 1..Len(u), SameLine(u, i, j), i <= j,
             NEW x \in At(i)..At(j), x # q
      PROVE  t[x] # "newline"
  <2>1. At(i) \in 1..Len(t) /\ At(j) \in 1..Len(t)
    BY <1>4
  <2> DEFINE k == IF x < q THEN x ELSE x - 1
  <2>2. k \in i..j /\ k \in 1..Len(u) /\ At(k) = x
    BY <1>3, <1>8, <2>1 DEF At
  <2> QED
    BY <1>4, <2>2, <1>8 DEF SameLine
<1>9. ASSUME NEW k \in 1..Len(u), k \in V PROVE At(k) \in S
  <2>1. At(k) \in 1..Len(t) /\ t[At(k)] = u[k]
    BY <1>4
  <2>2. CASE SolidAt(u, k)
    BY <1>7, <2>1, <2>2 DEF Significant
  <2>3. CASE InnerAt(u, k)
    <3>1. PICK j \in 1..Len(u) : SolidAt(u, j) /\ k < j /\ SameLine(u, k, j)
      BY <2>3 DEF InnerAt
    <3>2. /\ SolidAt(t, At(j)) /\ At(k) < At(j) /\ At(j) \in 1..Len(t)
          /\ t[At(k)] = "space"
      BY <1>4, <1>5, <1>7, <2>1, <2>3, <3>1 DEF InnerAt
    <3>3. CASE t[q] = "newline" /\ At(k) < q /\ q < At(j)
      <4>1. SolidAt(t, q - 1)
        BY <3>3 DEF Blank
      <4>2. At(k) < q - 1
        <5>1. At(k) # q - 1
          BY <3>2, <4>1 DEF SolidAt, Blank
        <5> QED
          BY <1>3, <2>1, <3>3, <5>1
      <4>3. SameLine(t, At(k), q - 1)
        <5> SUFFICES ASSUME NEW x \in At(k)..(q - 1) PROVE t[x] # "newline"
          BY DEF SameLine
        <5>1. x \in At(k)..At(j) /\ x # q
          BY <1>3, <2>1, <3>2, <3>3
        <5> QED
          BY <1>8, <3>1, <5>1
      <4> QED
        BY <2>1, <3>2, <4>1, <4>2, <4>3 DEF Significant, InnerAt, SolidAt
    <3>4. CASE ~ (t[q] = "newline" /\ At(k) < q /\ q < At(j))
      <4>1. SameLine(t, At(k), At(j))
        <5> SUFFICES ASSUME NEW x \in At(k)..At(j), t[x] = "newline" PROVE FALSE
          BY DEF SameLine
        <5>1. x = q
          BY <1>8, <3>1
        <5>2. x # At(k) /\ x # At(j)
          BY <1>4, <5>1
        <5> QED
          BY <2>1, <3>2, <3>4, <5>1, <5>2
      <4> QED
        BY <2>1, <3>2, <4>1 DEF Significant, InnerAt
    <3> QED
      BY <3>3, <3>4
  <2>4. CASE BreakAt(u, k)
    <3>1. PICK j \in 1..Len(u) : SolidAt(u, j) /\ j < k /\ SameLine(u, j, k - 1)
      BY <2>4 DEF BreakAt
    <3>2. PICK j2 \in 1..Len(u) : SolidAt(u, j2) /\ k < j2
      BY <2>4 DEF BreakAt
    <3>3. /\ SolidAt(t, At(j)) /\ At(j) < At(k) /\ At(j) \in 1..Len(t)
          /\ SolidAt(t, At(j2)) /\ At(k) < At(j2) /\ At(j2) \in 1..Len(t)
          /\ t[At(k)] = "newline"
      BY <1>4, <1>5, <1>7, <2>1, <2>4, <3>1, <3>2 DEF BreakAt
    <3>4. k - 1 \in 1..Len(u) /\ j <= k - 1
      BY <1>3, <3>1
    <3>5. \A x \in At(j)..(At(k) - 1) : x # q => t[x] # "newline"
      <4> SUFFICES ASSUME NEW x \in At(j)..(At(k) - 1), x # q PROVE t[x] # "newline"
        OBVIOUS
      <4>1. At(k - 1) \in 1..Len(t) /\ x <= At(k - 1)
        BY <1>3, <1>4, <3>4 DEF At
      <4>2. x \in At(j)..At(k - 1)
        BY <2>1, <3>3, <4>1
      <4> QED
        BY <1>8, <3>1, <3>4, <4>2
    <3>6. CASE t[q] = "newline" /\ At(j) < q /\ q < At(k)
      <4>1. SolidAt(t, q + 1)
        BY <3>6 DEF Blank
      <4>2. q + 1 < At(k)
        <5>1. At(k) # q + 1
          BY <3>3, <4>1 DEF SolidAt, Blank
        <5> QED
          BY <1>3, <2>1, <3>6, <5>1
      <4>3. SameLine(t, q + 1, At(k) - 1)
        BY <1>3, <2>1, <3>3, <3>5, <3>6 DEF SameLine
      <4> QED
        BY <2>1, <3>3, <4>1, <4>2, <4>3 DEF Significant, BreakAt, SolidAt
    <3>7. CASE ~ (t[q] = "newline" /\ At(j) < q /\ q < At(k))
      <4>1. SameLine(t, At(j), At(k) - 1)
        <5> SUFFICES ASSUME NEW x \in At(j)..(At(k) - 1), t[x] = "newline" PROVE FALSE
          BY DEF SameLine
        <5>1. x = q
          BY <3>5
        <5>2. x # At(j)
          BY <1>4, <5>1
        <5> QED
          BY <2>1, <3>3, <3>7, <5>1, <5>2
      <4> QED
        BY <2>1, <3>3, <4>1 DEF Significant, BreakAt
    <3> QED
      BY <3>6, <3>7
  <2> QED
    BY <1>9, <2>2, <2>3, <2>4 DEF Significant
<1>10. /\ \A k \in 1..(q - 1) : k \in V => k \in S
       /\ \A k \in (q + 1)..Len(t) : k - 1 \in V => k \in S
  <2>1. ASSUME NEW k \in 1..(q - 1), k \in V PROVE k \in S
    <3>1. k \in 1..Len(u) /\ k < q
      BY <1>2, <1>3
    <3> QED
      BY <1>4, <1>9, <2>1, <3>1
  <2>2. ASSUME NEW k \in (q + 1)..Len(t), k - 1 \in V PROVE k \in S
    <3>1. k - 1 \in 1..Len(u) /\ k - 1 >= q /\ (k - 1) + 1 = k
      BY <1>2, <1>3
    <3> QED
      BY <1>4, <1>9, <2>2, <3>1
  <2> QED
    BY <2>1, <2>2
<1> HIDE DEF S, V
<1> DEFINE e == 1
<1>11. /\ e \in {0, 1} /\ Len(t) = Len(u) + e
       /\ e = 0 => q \notin V
       /\ \A k \in (q + 1)..Len(t) : k - e \in V => k \in S
  BY <1>2, <1>10
<1> HIDE DEF e
<1>12. Select(t, S) # Select(u, V)
  BY <1>2, <1>6, <1>10, <1>11, SelectsLess
<1> QED
  BY <1>1, <1>12

-----------------------------------------------------------------------------
(* What the hash tells apart *)

\* T is a between X and Y.
Between(T, X, a, Y) ==
  /\ Len(T) = Len(X) + 1 + Len(Y) /\ T[Len(X) + 1] = a
  /\ \A k \in 1..Len(X) : T[k] = X[k]
  /\ \A k \in 1..Len(Y) : T[Len(X) + 1 + k] = Y[k]

LEMMA JoinAt ==
  ASSUME NEW C, NEW X \in Seq(C), NEW Y \in Seq(C), NEW a \in C
  PROVE  /\ Join(Join(X, One(a)), Y) \in Seq(C)
         /\ Between(Join(Join(X, One(a)), Y), X, a, Y)
<1> DEFINE P == X \o <<a>>
           T == P \o Y
<1>1. P \in Seq(C) /\ Len(P) = Len(X) + 1
  BY ConcatProperties
<1>2. (\A k \in 1..Len(X) : P[k] = X[k]) /\ P[Len(X) + 1] = a
  OBVIOUS
<1> HIDE DEF P
<1>3. T \in Seq(C) /\ Len(T) = Len(P) + Len(Y)
  BY <1>1, ConcatProperties
<1>4. \A k \in 1..Len(P) : T[k] = P[k]
  BY <1>1
<1>5. \A k \in 1..Len(Y) : T[Len(P) + k] = Y[k]
  BY <1>1
<1>6. T = Join(Join(X, One(a)), Y)
  BY DEF Join, One, P
<1> HIDE DEF T
<1>7. /\ \A k \in 1..Len(X) : T[k] = X[k]
      /\ T[Len(X) + 1] = a
  BY <1>1, <1>2, <1>4
<1>8. Between(T, X, a, Y)
  BY <1>1, <1>3, <1>5, <1>7 DEF Between
<1> QED
  BY <1>3, <1>6, <1>8

\* a is replaced by b.
Swapped(T, U, r, a, b) == PutAt(T, U, r) /\ T[r] = a /\ U[r] = b

LEMMA JoinPut ==
  ASSUME NEW C, NEW X \in Seq(C), NEW Y \in Seq(C), NEW a \in C, NEW b \in C, a # b
  PROVE  /\ Join(Join(X, One(a)), Y) \in Seq(C) /\ Join(Join(X, One(b)), Y) \in Seq(C)
         /\ Swapped(Join(Join(X, One(a)), Y), Join(Join(X, One(b)), Y), Len(X) + 1, a, b)
<1> DEFINE T == Join(Join(X, One(a)), Y)
           U == Join(Join(X, One(b)), Y)
           n == Len(X)
           m == Len(Y)
<1>1. /\ T \in Seq(C) /\ Len(T) = n + 1 + m /\ T[n + 1] = a
      /\ \A k \in 1..n : T[k] = X[k]
      /\ \A k \in 1..m : T[n + 1 + k] = Y[k]
  <2>1. T \in Seq(C) /\ Between(T, X, a, Y)
    BY JoinAt
  <2> HIDE DEF T
  <2> QED
    BY <2>1 DEF Between
<1>2. /\ U \in Seq(C) /\ Len(U) = n + 1 + m /\ U[n + 1] = b
      /\ \A k \in 1..n : U[k] = X[k]
      /\ \A k \in 1..m : U[n + 1 + k] = Y[k]
  <2>1. U \in Seq(C) /\ Between(U, X, b, Y)
    BY JoinAt
  <2> HIDE DEF U
  <2> QED
    BY <2>1 DEF Between
<1>3. n \in Nat /\ m \in Nat
  OBVIOUS
<1> HIDE DEF T, U, n, m
<1>4. ASSUME NEW k \in 1..(n + 1 + m), k # n + 1 PROVE U[k] = T[k]
  <2>1. CASE k <= n
    BY <1>1, <1>2, <1>3, <2>1
  <2>2. CASE k > n
    <3>1. k - (n + 1) \in 1..m /\ n + 1 + (k - (n + 1)) = k
      BY <1>3, <1>4, <2>2
    <3>2. T[n + 1 + (k - (n + 1))] = U[n + 1 + (k - (n + 1))]
      BY <1>1, <1>2, <3>1
    <3> QED
      BY <3>1, <3>2
  <2> QED
    BY <1>3, <2>1, <2>2
<1>5. n + 1 \in 1..(n + 1 + m)
  BY <1>3
<1>6. PutAt(T, U, n + 1)
  BY <1>1, <1>2, <1>4, <1>5 DEF PutAt
<1>7. Swapped(T, U, n + 1, a, b)
  BY <1>1, <1>2, <1>6 DEF Swapped
<1> QED
  BY <1>1, <1>2, <1>7 DEF T, U, n

\* a is taken out from between X and Y.
Removed(T, U, r, X, a, Y) ==
  /\ DeleteAt(T, U, r) /\ T[r] = a
  /\ X # None => r - 1 \in 1..Len(T) /\ T[r - 1] = LastOf(X)
  /\ Y # None => r + 1 \in 1..Len(T) /\ T[r + 1] = FirstOf(Y)

LEMMA JoinDelete ==
  ASSUME NEW C, NEW X \in Seq(C), NEW Y \in Seq(C), NEW a \in C
  PROVE  /\ Join(Join(X, One(a)), Y) \in Seq(C) /\ Join(X, Y) \in Seq(C)
         /\ Removed(Join(Join(X, One(a)), Y), Join(X, Y), Len(X) + 1, X, a, Y)
<1> DEFINE T == Join(Join(X, One(a)), Y)
           U == Join(X, Y)
           n == Len(X)
           m == Len(Y)
<1>1. /\ T \in Seq(C) /\ Len(T) = n + 1 + m /\ T[n + 1] = a
      /\ \A k \in 1..n : T[k] = X[k]
      /\ \A k \in 1..m : T[n + 1 + k] = Y[k]
  <2>1. T \in Seq(C) /\ Between(T, X, a, Y)
    BY JoinAt
  <2> HIDE DEF T
  <2> QED
    BY <2>1 DEF Between
<1>2. /\ U \in Seq(C) /\ Len(U) = n + m
      /\ \A k \in 1..n : U[k] = X[k]
      /\ \A k \in 1..m : U[n + k] = Y[k]
  <2>1. /\ X \o Y \in Seq(C) /\ Len(X \o Y) = n + m
    BY ConcatProperties
  <2>2. /\ \A k \in 1..n : (X \o Y)[k] = X[k]
        /\ \A k \in 1..m : (X \o Y)[n + k] = Y[k]
    OBVIOUS
  <2> QED
    BY <2>1, <2>2 DEF Join
<1>3. /\ n \in Nat /\ m \in Nat
      /\ X # None => n > 0
      /\ Y # None => m > 0
  BY EmptySeq DEF None
<1>4. LastOf(X) = X[n] /\ FirstOf(Y) = Y[1]
  BY DEF LastOf, FirstOf
<1> HIDE DEF T, U, n, m
<1>5. \A k \in 1..((n + 1) - 1) : U[k] = T[k]
  BY <1>1, <1>2, <1>3
<1>6. ASSUME NEW k \in (n + 1 + 1)..(n + 1 + m) PROVE U[k - 1] = T[k]
  <2> DEFINE j == k - (n + 1)
  <2>1. j \in 1..m /\ n + 1 + j = k /\ n + j = k - 1
    BY <1>3
  <2> HIDE DEF j
  <2>2. T[n + 1 + j] = U[n + j]
    BY <1>1, <1>2, <2>1
  <2> QED
    BY <2>1, <2>2
<1>7. n + 1 \in 1..(n + 1 + m) /\ n + 1 + m = n + m + 1
  BY <1>3
<1>8. DeleteAt(T, U, n + 1)
  BY <1>1, <1>2, <1>5, <1>6, <1>7 DEF DeleteAt
<1>9. X # None => (n + 1) - 1 \in 1..Len(T) /\ T[(n + 1) - 1] = LastOf(X)
  <2> SUFFICES ASSUME X # None PROVE (n + 1) - 1 \in 1..Len(T) /\ T[(n + 1) - 1] = LastOf(X)
    OBVIOUS
  <2>1. (n + 1) - 1 = n /\ n \in 1..n /\ n \in 1..(n + 1 + m)
    BY <1>3
  <2>2. T[n] = X[n]
    BY <1>1, <2>1
  <2> QED
    BY <1>1, <1>4, <2>1, <2>2
<1>10. Y # None => n + 1 + 1 \in 1..Len(T) /\ T[n + 1 + 1] = FirstOf(Y)
  <2> SUFFICES ASSUME Y # None PROVE n + 1 + 1 \in 1..Len(T) /\ T[n + 1 + 1] = FirstOf(Y)
    OBVIOUS
  <2>1. 1 \in 1..m /\ n + 1 + 1 \in 1..(n + 1 + m)
    BY <1>3
  <2> QED
    BY <1>1, <1>4, <2>1
<1>11. Removed(T, U, n + 1, X, a, Y)
  BY <1>1, <1>8, <1>9, <1>10 DEF Removed
<1> QED
  BY <1>1, <1>2, <1>11 DEF T, U, n

LEMMA KeptIsNotGone ==
  ASSUME NEW t, NEW i
  PROVE  i \in Kept(t) <=> i \in 1..Len(t) /\ ~ Gone(t, i)
BY DEF Kept, Gone

\* The regex keeps one more character, which is not whitespace.
LEMMA HashKeepsMore ==
  ASSUME NEW C, NEW t \in Seq(C), NEW u \in Seq(C), NEW q, NEW p,
         PutAt(t, u, q), KeepsMore(t, u, q, p)
  PROVE  source_sha256(t) # source_sha256(u)
<1> DEFINE S == Kept(t)
           V == Kept(u)
<1>1. /\ Len(t) = Len(u) /\ p \in 1..Len(t) /\ ~ Blank(t[p])
      /\ p \in S /\ p \notin V
  BY KeptIsNotGone DEF PutAt, KeepsMore
<1>2. \A k \in 1..Len(t) : k # p => (k \in S <=> k \in V) /\ (k \in S => t[k] = u[k])
  BY <1>1, KeptIsNotGone DEF PutAt, KeepsMore
<1>3. source_sha256(t) = Normal(Select(t, S)) /\ source_sha256(u) = Normal(Select(u, V))
  BY DEF source_sha256
<1> HIDE DEF S, V
<1>4. PICK X \in Seq(C), Y \in Seq(C) :
         /\ Select(t, S) = Join(Join(X, One(t[p])), Y)
         /\ Select(u, V) = Join(X, Y)
  <2>1. AlikeBut(t, S, u, V, p, 0)
    <3>1. Len(t) \in Nat /\ Len(t) = Len(u) + 0 /\ \A k \in 1..Len(t) : k - 0 = k
      BY <1>1
    <3> QED
      BY <1>1, <1>2, <3>1 DEF AlikeBut
  <2> QED
    BY <1>1, <2>1, SelectWithout
<1> DEFINE T == Join(Join(X, One(t[p])), Y)
           U == Join(X, Y)
           r == Len(X) + 1
<1>5. T \in Seq(C) /\ U \in Seq(C) /\ Removed(T, U, r, X, t[p], Y)
  <2>1. t[p] \in C
    BY <1>1
  <2> QED
    BY <2>1, JoinDelete
<1> HIDE DEF T, U, r
<1>6. Normal(T) # Normal(U)
  BY <1>1, <1>5, NormalDelete DEF Removed
<1> QED
  BY <1>3, <1>4, <1>6 DEF T, U

\* A replacement that leaves the hash alone changes no code.
LEMMA HashPut ==
  ASSUME NEW C, NEW t \in Seq(C), NEW u \in Seq(C), Plain(t), Plain(u), NEW q,
         PutAt(t, u, q), source_sha256(t) = source_sha256(u)
  PROVE  SameLive(t, u) /\ (Live(t, q) => Blank(t[q]) /\ Blank(u[q]))
<1>1. /\ Len(t) = Len(u) /\ q \in 1..Len(t) /\ t[q] # u[q]
      /\ \A k \in 1..Len(t) : k # q => u[k] = t[k]
  BY DEF PutAt
<1>2. CASE SameLive(t, u) /\ ~ Live(t, q)
  BY <1>2
<1>3. CASE SameKept(t, u) /\ ~ Gone(t, q)
             /\ (SameLive(t, u) \/ (~ Blank(t[q]) /\ ~ Blank(u[q])))
  <2> DEFINE S == Kept(t)
             V == Kept(u)
  <2>1. /\ q \in S /\ q \in V
        /\ \A k \in 1..Len(t) : k # q => (k \in S <=> k \in V) /\ (k \in S => t[k] = u[k])
    BY <1>1, <1>3, KeptIsNotGone DEF SameKept
  <2>2. source_sha256(t) = Normal(Select(t, S)) /\ source_sha256(u) = Normal(Select(u, V))
    BY DEF source_sha256
  <2> HIDE DEF S, V
  <2>3. PICK X \in Seq(C), Y \in Seq(C) :
           /\ Select(t, S) = Join(Join(X, One(t[q])), Y)
           /\ Select(u, V) = Join(Join(X, One(u[q])), Y)
    BY <1>1, <2>1, SelectPut
  <2> DEFINE T == Join(Join(X, One(t[q])), Y)
             U == Join(Join(X, One(u[q])), Y)
             r == Len(X) + 1
  <2>4. t[q] \in C /\ u[q] \in C
    BY <1>1
  <2>5. T \in Seq(C) /\ U \in Seq(C) /\ Swapped(T, U, r, t[q], u[q])
    BY <1>1, <2>4, JoinPut
  <2>6. Normal(T) = Normal(U)
    BY <2>2, <2>3
  <2> HIDE DEF T, U, r
  <2>7. Blank(t[q])
    BY <2>5, <2>6, NormalPut DEF Swapped
  <2>8. Blank(u[q])
    <3>1. PutAt(U, T, r)
      BY <2>5 DEF PutAt, Swapped
    <3> QED
      BY <2>5, <2>6, <3>1, NormalPut DEF Swapped
  <2> QED
    BY <1>3, <2>7, <2>8
<1>4. CASE \E p \in 1..Len(t) : KeepsMore(t, u, q, p) \/ KeepsMore(u, t, q, p)
  <2>1. PICK p \in 1..Len(t) : KeepsMore(t, u, q, p) \/ KeepsMore(u, t, q, p)
    BY <1>4
  <2>2. PutAt(u, t, q)
    BY <1>1 DEF PutAt
  <2> QED
    BY <2>1, <2>2, HashKeepsMore
<1> QED
  BY <1>2, <1>3, <1>4, PutCases

\* A character the compiler reads.
InCode(t, k) == Live(t, k) /\ ~ Blank(t[k])

\* A deletion that leaves the hash alone takes out nothing the compiler reads
\* or is parted by.
LEMMA HashDelete ==
  ASSUME NEW C, NEW t \in Seq(C), NEW u \in Seq(C), Plain(t), Plain(u), NEW q,
         DeleteAt(t, u, q), LastOfRun(t, q), source_sha256(t) = source_sha256(u)
  PROVE  ~ InCode(t, q) /\ ~ (InCode(t, q - 1) /\ InCode(t, q + 1))
<1>1. /\ Len(t) = Len(u) + 1 /\ q \in 1..Len(t) /\ Len(t) \in Nat
      /\ \A k \in 1..(q - 1) : u[k] = t[k]
      /\ \A k \in (q + 1)..Len(t) : u[k - 1] = t[k]
  BY DEF DeleteAt
<1>2. CASE Live(t, q)
  <2> DEFINE S == Kept(t)
             V == Kept(u)
  <2>1. /\ ~ Gone(t, q)
        /\ \A k \in 1..(q - 1) : Gone(t, k) <=> Gone(u, k)
        /\ \A k \in (q + 1)..Len(t) : Gone(t, k) <=> Gone(u, k - 1)
    BY <1>2, DeleteCases
  <2>2. q \in S
    BY <1>1, <2>1, KeptIsNotGone
  <2>3. \A k \in 1..(q - 1) : (k \in S <=> k \in V) /\ (k \in S => t[k] = u[k])
    <3> SUFFICES ASSUME NEW k \in 1..(q - 1)
                 PROVE  (k \in S <=> k \in V) /\ (k \in S => t[k] = u[k])
      OBVIOUS
    <3>1. k \in 1..Len(t) /\ k \in 1..Len(u)
      BY <1>1
    <3> QED
      BY <1>1, <2>1, <3>1, KeptIsNotGone
  <2>4. \A k \in (q + 1)..Len(t) :
           (k \in S <=> k - 1 \in V) /\ (k \in S => t[k] = u[k - 1])
    <3> SUFFICES ASSUME NEW k \in (q + 1)..Len(t)
                 PROVE  (k \in S <=> k - 1 \in V) /\ (k \in S => t[k] = u[k - 1])
      OBVIOUS
    <3>1. k \in 1..Len(t) /\ k - 1 \in 1..Len(u)
      BY <1>1
    <3> QED
      BY <1>1, <2>1, <3>1, KeptIsNotGone
  <2>5. source_sha256(t) = Normal(Select(t, S)) /\ source_sha256(u) = Normal(Select(u, V))
    BY DEF source_sha256
  <2>6. ASSUME NEW k, InCode(t, k) PROVE k \in S
    <3>1. Len(t) \in Nat /\ \A i \in 1..Len(t) : t[i] # "quote"
      BY DEF Plain
    <3>2. k \in 1..Len(t) /\ Lexing(t)[k].code
      BY <2>6 DEF InCode, Live
    <3>3. ~ Gone(t, k)
      BY <3>1, <3>2, MatchesAreComments DEF Gone
    <3> QED
      BY <3>2, <3>3, KeptIsNotGone
  <2> HIDE DEF S, V
  <2>7. PICK X \in Seq(C), Y \in Seq(C) :
           /\ Select(t, S) = Join(Join(X, One(t[q])), Y)
           /\ Select(u, V) = Join(X, Y)
           /\ Beside(X, Y, t, S, q)
    <3>1. AlikeBut(t, S, u, V, q, 1)
      BY <1>1, <2>2, <2>3, <2>4 DEF AlikeBut
    <3> QED
      BY <3>1, SelectWithout
  <2> DEFINE T == Join(Join(X, One(t[q])), Y)
             U == Join(X, Y)
             r == Len(X) + 1
  <2>8. t[q] \in C
    BY <1>1
  <2>9. T \in Seq(C) /\ U \in Seq(C) /\ Removed(T, U, r, X, t[q], Y)
    BY <2>8, JoinDelete
  <2>10. Normal(T) = Normal(U)
    BY <2>5, <2>7
  <2> HIDE DEF T, U, r
  <2>11. Blank(t[q])
    BY <2>9, <2>10, NormalDelete DEF Removed
  <2>12. ASSUME InCode(t, q - 1), InCode(t, q + 1) PROVE FALSE
    <3>1. /\ q - 1 \in S /\ q + 1 \in S /\ ~ Blank(t[q - 1]) /\ ~ Blank(t[q + 1])
          /\ q - 1 \in 1..Len(t) /\ q + 1 \in 1..Len(t)
      BY <2>6, <2>12 DEF InCode, Live
    <3>2. q > 1 /\ q < Len(t)
      BY <1>1, <3>1
    <3>3. X # None /\ LastOf(X) = t[q - 1] /\ Y # None /\ FirstOf(Y) = t[q + 1]
      BY <2>7, <3>1, <3>2 DEF Beside
    <3>4. SolidAt(T, r - 1) /\ SolidAt(T, r + 1)
      BY <2>9, <3>1, <3>3 DEF SolidAt, Removed
    <3> QED
      BY <2>9, <2>10, <3>4, NormalDelete DEF Removed
  <2> QED
    BY <2>11, <2>12 DEF InCode
<1>3. CASE ~ Live(t, q)
  <2> SUFFICES ASSUME Live(t, q - 1), Live(t, q + 1) PROVE FALSE
    BY <1>3 DEF InCode
  <2>1. q - 1 \in 1..Len(t) /\ q + 1 \in 1..Len(t)
    BY DEF Live
  <2>2. Move(t, q - 1) /\ Move(t, q) /\ Move(t, q + 1)
    BY <1>1, <2>1, Moves
  <2>3. (q + 1) - 1 = q
    BY <1>1
  <2>4. Depth(t, q - 1) = 0 /\ Depth(t, q) = 0 /\ ~ Half(t, q)
    BY <2>2, <2>3 DEF Move
  <2>5. ~ Half(t, q - 1)
    <3>1. (q - 1) - 1 \in Int /\ Live(t, q - 1)
      BY <1>1
    <3>2. Depth(t, (q - 1) - 1) = 0 /\ Depth(t, q - 1) = 0
      BY <2>2 DEF Move
    <3> QED
      BY <2>2, <3>2 DEF Move
  <2> QED
    BY <1>1, <1>3, <2>2, <2>4, <2>5 DEF Move
<1> QED
  BY <1>2, <1>3

-----------------------------------------------------------------------------
(* The code of a balanced source *)

LEMMA CodeIsLive ==
  ASSUME NEW t, Plain(t)
  PROVE  WellFormed(t) /\ \A k : k \in CodeAt(t) <=> InCode(t, k)
<1>1. WellFormed(t) /\ Len(t) \in Nat
  BY DEF Plain, Balanced
<1>2. \A k \in 1..Len(t) : ~ Lexing(t)[k - 1].str
  BY <1>1, LexTypes
<1> QED
  BY <1>1, <1>2 DEF CodeAt, InCode, Live

\* What Code has of the first i characters, for every i.
Coding(t) ==
  LET at == CodeAt(t)
      code[i \in 0..Len(t)] ==
        IF i = 0 THEN <<>>
        ELSE IF i \notin at THEN code[i - 1]
        ELSE IF i - 1 \notin at /\ code[i - 1] # <<>>
             THEN code[i - 1] \o <<"gap", t[i]>>
             ELSE Append(code[i - 1], t[i])
  IN code

\* One character of it.
Emit(c, here, before, s) ==
  IF ~ here THEN s
  ELSE IF ~ before /\ s # <<>> THEN s \o <<"gap", c>> ELSE Append(s, c)

LEMMA EmitIsTyped ==
  ASSUME NEW C, NEW c \in C, NEW here, NEW before, NEW s \in Seq(C \cup {"gap"})
  PROVE  Emit(c, here, before, s) \in Seq(C \cup {"gap"})
<1> DEFINE R == C \cup {"gap"}
<1>1. c \in R /\ "gap" \in R
  OBVIOUS
<1> HIDE DEF R
<1>2. s \in Seq(R)
  BY DEF R
<1>3. Append(s, c) \in Seq(R)
  BY <1>1, <1>2, AppendProperties
<1>4. <<"gap", c>> \in Seq(R)
  BY <1>1
<1>5. s \o <<"gap", c>> \in Seq(R)
  BY <1>2, <1>4, ConcatProperties
<1> QED
  BY <1>2, <1>3, <1>5 DEF Emit, R

\* One character after the other is added to the code or left out.
Codes(g, t) ==
  /\ g[0] = None
  /\ \A i \in 1..Len(t) :
       g[i] = Emit(t[i], i \in CodeAt(t), i - 1 \in CodeAt(t), g[i - 1])
  /\ WellFormed(t) => Code(t) = g[Len(t)]

LEMMA CodeScans ==
  ASSUME NEW C, NEW t \in Seq(C)
  PROVE  Codes(Coding(t), t)
<1> DEFINE n == Len(t)
           R == Seq(C \cup {"gap"})
           at == CodeAt(t)
           Pass(i, s) == Emit(t[i], i \in at, i - 1 \in at, s)
           D(g) == [i \in 0..n |-> IF i = 0 THEN None ELSE Pass(i, g[i - 1])]
           step == [i \in 1..n |-> [s \in R |-> Pass(i, s)]]
<1>0. n \in Nat
  OBVIOUS
<1>1. None \in R
  BY DEF None
<1>2. ASSUME NEW i \in 1..n, NEW s \in R PROVE Pass(i, s) \in R
  <2>1. t[i] \in C
    OBVIOUS
  <2> QED
    BY <2>1, EmitIsTyped
<1>3. Coding(t) = CHOOSE g : g = D(g)
  BY DEF Coding, Emit, None
<1>4. WellFormed(t) => Code(t) = Coding(t)[n]
  BY DEF Code, Coding
<1> HIDE DEF R, n, at, Pass
<1>5. step \in [1..n -> [R -> R]]
  BY <1>2
<1>6. PICK g \in [0..n -> R] : Follows(g, None, step, n)
  <2> HIDE DEF step
  <2> QED
    BY <1>0, <1>1, <1>5, IntervalRecursion
<1>7. ASSUME NEW i \in 1..n PROVE g[i] = Pass(i, g[i - 1])
  <2>1. g[i - 1] \in R
    BY <1>0
  <2> QED
    BY <1>6, <2>1 DEF Follows
<1>8. g = D(g)
  BY <1>0, <1>6, <1>7 DEF Follows
<1> DEFINE code == CHOOSE g2 : g2 = D(g2)
<1>9. code = D(code)
  <2> HIDE DEF D
  <2> QED
    BY <1>8
<1>10. Coding(t) = code
  BY <1>3
<1> HIDE DEF code
<1>11. code[0] = None /\ \A i \in 1..n : code[i] = Pass(i, code[i - 1])
  BY <1>0, <1>9
<1> QED
  BY <1>4, <1>10, <1>11 DEF Codes, Pass, at, n

\* The same characters at the same positions are the same code.
LEMMA SameCodePut ==
  ASSUME NEW C, NEW t \in Seq(C), NEW u \in Seq(C), Len(t) = Len(u),
         WellFormed(t), WellFormed(u),
         \A k \in 1..Len(t) : k \in CodeAt(t) => t[k] = u[k],
         CodeAt(t) = CodeAt(u)
  PROVE  Code(t) = Code(u)
<1> DEFINE g == Coding(t)
           h == Coding(u)
           at == CodeAt(t)
<1>1. Codes(g, t) /\ Codes(h, u)
  BY CodeScans
<1>2. Len(t) \in Nat
  OBVIOUS
<1> DEFINE T == {k \in 0..Len(t) : g[k] = h[k]}
<1> HIDE DEF g, h, at
<1>3. 0 \in T
  BY <1>1, <1>2 DEF Codes
<1>4. ASSUME NEW k \in 1..Len(t), k - 1 \in T PROVE k \in T
  <2>1. /\ g[k] = Emit(t[k], k \in at, k - 1 \in at, g[k - 1])
        /\ h[k] = Emit(u[k], k \in at, k - 1 \in at, g[k - 1])
    BY <1>1, <1>4 DEF Codes, at
  <2>2. k \in at => t[k] = u[k]
    BY DEF at
  <2>3. g[k] = h[k]
    BY <2>1, <2>2 DEF Emit
  <2> QED
    BY <2>3
<1>5. \A k \in 0..Len(t) : k \in T
  <2> HIDE DEF T
  <2> QED
    BY <1>2, <1>3, <1>4, IntervalInduction
<1>6. g[Len(t)] = h[Len(t)]
  BY <1>2, <1>5
<1> QED
  BY <1>1, <1>6 DEF Codes

\* The code is the same without a character that is none, unless it was the only
\* one that parted two.
LEMMA SameCodeDelete ==
  ASSUME NEW C, NEW t \in Seq(C), NEW u \in Seq(C), NEW q, DeleteAt(t, u, q),
         WellFormed(t), WellFormed(u),
         q \notin CodeAt(t), ~ (q - 1 \in CodeAt(t) /\ q + 1 \in CodeAt(t)),
         \A k \in 1..(q - 1) : k \in CodeAt(t) <=> k \in CodeAt(u),
         \A k \in (q + 1)..Len(t) : k \in CodeAt(t) <=> k - 1 \in CodeAt(u)
  PROVE  Code(t) = Code(u)
<1> DEFINE g == Coding(t)
           h == Coding(u)
           at == CodeAt(t)
           au == CodeAt(u)
<1>1. Codes(g, t) /\ Codes(h, u)
  BY CodeScans
<1>2. /\ Len(t) \in Nat /\ Len(u) \in Nat /\ q \in 1..Len(t) /\ Len(t) = Len(u) + 1
      /\ q - 1 \in Nat /\ q \in Nat /\ Len(t) - q \in Nat
      /\ \A k \in 1..(q - 1) : u[k] = t[k]
      /\ \A k \in (q + 1)..Len(t) : u[k - 1] = t[k]
  BY DEF DeleteAt
<1>3. 0 \notin at /\ 0 \notin au
  BY <1>2 DEF CodeAt
<1>4. /\ q \notin at /\ ~ (q - 1 \in at /\ q + 1 \in at)
      /\ \A k \in 1..(q - 1) : k \in at <=> k \in au
      /\ \A k \in (q + 1)..Len(t) : k \in at <=> k - 1 \in au
  OBVIOUS
<1>5. /\ g[0] = None /\ h[0] = None
      /\ \A i \in 1..Len(t) : g[i] = Emit(t[i], i \in at, i - 1 \in at, g[i - 1])
      /\ \A i \in 1..Len(u) : h[i] = Emit(u[i], i \in au, i - 1 \in au, h[i - 1])
      /\ Code(t) = g[Len(t)] /\ Code(u) = h[Len(u)]
  BY <1>1 DEF Codes
<1> HIDE DEF g, h, at, au
<1>6. g[q - 1] = h[q - 1]
  <2> DEFINE T == {k \in 0..(q - 1) : g[k] = h[k]}
  <2>1. 0 \in T
    BY <1>2, <1>5
  <2>2. ASSUME NEW k \in 1..(q - 1), k - 1 \in T PROVE k \in T
    <3>1. k \in 1..Len(t) /\ k \in 1..Len(u) /\ u[k] = t[k] /\ (k \in at <=> k \in au)
      BY <1>2, <1>4
    <3>2. k - 1 \in at <=> k - 1 \in au
      <4>1. CASE k = 1
        BY <1>3, <4>1
      <4>2. CASE k # 1
        <5>1. k - 1 \in 1..(q - 1)
          BY <1>2, <4>2
        <5> QED
          BY <1>4, <5>1
      <4> QED
        BY <4>1, <4>2
    <3>3. g[k - 1] = h[k - 1]
      BY <2>2
    <3>4. /\ g[k] = Emit(t[k], k \in at, k - 1 \in at, g[k - 1])
          /\ h[k] = Emit(u[k], k \in au, k - 1 \in au, h[k - 1])
      BY <1>5, <3>1
    <3>5. g[k] = h[k]
      BY <3>1, <3>2, <3>3, <3>4 DEF Emit
    <3> QED
      BY <3>5
  <2>3. \A k \in 0..(q - 1) : k \in T
    <3> HIDE DEF T
    <3> QED
      BY <1>2, <2>1, <2>2, IntervalInduction
  <2>4. q - 1 \in 0..(q - 1)
    BY <1>2
  <2> QED
    BY <2>3, <2>4
<1> DEFINE T == {x \in 0..(Len(t) - q) : g[q + x] = h[(q - 1) + x]}
<1>7. 0 \in T
  <2>1. g[q] = g[q - 1]
    <3>1. g[q] = Emit(t[q], q \in at, q - 1 \in at, g[q - 1])
      BY <1>2, <1>5
    <3> QED
      BY <1>4, <3>1 DEF Emit
  <2>2. q + 0 = q /\ (q - 1) + 0 = q - 1 /\ 0 \in 0..(Len(t) - q)
    BY <1>2
  <2> QED
    BY <1>6, <2>1, <2>2
<1>8. ASSUME NEW x \in 1..(Len(t) - q), x - 1 \in T PROVE x \in T
  <2> DEFINE k == q + x
             j == (q - 1) + x
  <2>1. /\ k \in (q + 1)..Len(t) /\ k \in 1..Len(t) /\ j \in 1..Len(u) /\ k - 1 = j
        /\ k - 1 = q + (x - 1) /\ j - 1 = (q - 1) + (x - 1)
    BY <1>2
  <2>2. g[k - 1] = h[j - 1]
    BY <1>8, <2>1
  <2>3. k = q + 1 => k - 1 = q /\ j - 1 = q - 1
    BY <1>2
  <2>4. k # q + 1 => k - 1 \in (q + 1)..Len(t) /\ (k - 1) - 1 = j - 1
    BY <1>2
  <2> HIDE DEF k, j
  <2>5. u[j] = t[k] /\ (k \in at <=> j \in au)
    BY <1>2, <1>4, <2>1
  <2>6. k \in at => (k - 1 \in at <=> j - 1 \in au)
    <3> SUFFICES ASSUME k \in at PROVE k - 1 \in at <=> j - 1 \in au
      OBVIOUS
    <3>1. CASE k = q + 1
      <4>1. q \notin at /\ q - 1 \notin at
        BY <1>4, <3>1
      <4>2. q - 1 \notin au
        <5>1. CASE q = 1
          BY <1>3, <5>1
        <5>2. CASE q # 1
          <6>1. q - 1 \in 1..(q - 1)
            BY <1>2, <5>2
          <6> QED
            BY <1>4, <4>1, <6>1
        <5> QED
          BY <5>1, <5>2
      <4> QED
        BY <2>3, <3>1, <4>1, <4>2
    <3>2. CASE k # q + 1
      BY <1>4, <2>4, <3>2
    <3> QED
      BY <3>1, <3>2
  <2>7. /\ g[k] = Emit(t[k], k \in at, k - 1 \in at, g[k - 1])
        /\ h[j] = Emit(u[j], j \in au, j - 1 \in au, h[j - 1])
    BY <1>5, <2>1
  <2>8. g[k] = h[j]
    BY <2>2, <2>5, <2>6, <2>7 DEF Emit
  <2> QED
    BY <2>8 DEF k, j
<1>9. \A x \in 0..(Len(t) - q) : x \in T
  <2> HIDE DEF T
  <2> QED
    BY <1>2, <1>7, <1>8, IntervalInduction
<1>10. g[Len(t)] = h[Len(u)]
  <2>1. /\ Len(t) - q \in 0..(Len(t) - q)
        /\ q + (Len(t) - q) = Len(t) /\ (q - 1) + (Len(t) - q) = Len(u)
    BY <1>2
  <2> QED
    BY <1>9, <2>1
<1> QED
  BY <1>5, <1>10

-----------------------------------------------------------------------------
(* Any edit of one character *)

\* Of a run of equal characters any one may be taken for the one removed.
LEMMA SlideDelete ==
  ASSUME NEW t, NEW u, Len(u) \in Nat, NEW q, DeleteAt(t, u, q)
  PROVE  /\ q < Len(t) /\ t[q + 1] = t[q] => DeleteAt(t, u, q + 1)
         /\ q > 1 /\ t[q - 1] = t[q] => DeleteAt(t, u, q - 1)
<1>1. /\ Len(t) = Len(u) + 1 /\ q \in 1..Len(t) /\ Len(t) \in Nat
      /\ \A k \in 1..(q - 1) : u[k] = t[k]
      /\ \A k \in (q + 1)..Len(t) : u[k - 1] = t[k]
  BY DEF DeleteAt
<1>2. ASSUME q < Len(t), t[q + 1] = t[q] PROVE DeleteAt(t, u, q + 1)
  <2>1. q + 1 \in 1..Len(t) /\ q + 1 \in (q + 1)..Len(t) /\ (q + 1) - 1 = q
    BY <1>1, <1>2
  <2>2. u[q] = t[q]
    BY <1>1, <1>2, <2>1
  <2>3. \A k \in 1..((q + 1) - 1) : u[k] = t[k]
    BY <1>1, <2>2
  <2>4. \A k \in ((q + 1) + 1)..Len(t) : u[k - 1] = t[k]
    BY <1>1
  <2> QED
    BY <1>1, <2>1, <2>3, <2>4 DEF DeleteAt
<1>3. ASSUME q > 1, t[q - 1] = t[q] PROVE DeleteAt(t, u, q - 1)
  <2>1. q - 1 \in 1..Len(t) /\ q - 1 \in 1..(q - 1) /\ (q - 1) + 1 = q
    BY <1>1, <1>3
  <2>2. u[q - 1] = t[q]
    BY <1>1, <1>3, <2>1
  <2>3. \A k \in 1..((q - 1) - 1) : u[k] = t[k]
    BY <1>1
  <2>4. \A k \in ((q - 1) + 1)..Len(t) : u[k - 1] = t[k]
    BY <1>1, <2>2
  <2> QED
    BY <1>1, <2>1, <2>3, <2>4 DEF DeleteAt
<1> QED
  BY <1>2, <1>3

\* So the one that the scans are followed for exists.
LEMMA DeleteLastOfRun ==
  ASSUME NEW t, NEW u, Len(u) \in Nat, NEW i, DeleteAt(t, u, i)
  PROVE  \E q : DeleteAt(t, u, q) /\ LastOfRun(t, q)
<1> SUFFICES ASSUME \A q : DeleteAt(t, u, q) => ~ LastOfRun(t, q)
             PROVE  FALSE
  OBVIOUS
<1>1. i \in 1..Len(t) /\ Len(t) \in Nat
  BY DEF DeleteAt
<1> DEFINE n == Len(t)
<1>2. CASE t[i] = "("
  <2> DEFINE T == {x \in 0..n : DeleteAt(t, u, i - x) /\ t[i - x] = "("}
  <2>1. 0 \in T
    <3>1. i - 0 = i /\ 0 \in 0..n
      BY <1>1
    <3> QED
      BY <1>2, <3>1
  <2>2. ASSUME NEW x \in 1..n, x - 1 \in T PROVE x \in T
    <3> DEFINE q == i - (x - 1)
    <3>1. DeleteAt(t, u, q) /\ t[q] = "("
      BY <2>2
    <3>2. i - x = q - 1 /\ q \in Int
      BY <1>1
    <3> HIDE DEF q
    <3>3. q > 1 /\ t[q - 1] = "("
      <4>1. q \in 1..n
        BY <3>1 DEF DeleteAt
      <4> QED
        BY <1>1, <3>1, <4>1 DEF LastOfRun
    <3>4. DeleteAt(t, u, q - 1)
      BY <3>1, <3>3, SlideDelete
    <3> QED
      BY <3>2, <3>3, <3>4
  <2>3. \A x \in 0..n : x \in T
    <3> HIDE DEF T
    <3> QED
      BY <1>1, <2>1, <2>2, IntervalInduction
  <2>4. DeleteAt(t, u, i - n)
    BY <1>1, <2>3
  <2> QED
    BY <1>1, <2>4 DEF DeleteAt
<1>3. CASE t[i] # "("
  <2> DEFINE T == {x \in 0..n : DeleteAt(t, u, i + x) /\ t[i + x] # "("}
  <2>1. 0 \in T
    <3>1. i + 0 = i /\ 0 \in 0..n
      BY <1>1
    <3> QED
      BY <1>3, <3>1
  <2>2. ASSUME NEW x \in 1..n, x - 1 \in T PROVE x \in T
    <3> DEFINE q == i + (x - 1)
    <3>1. DeleteAt(t, u, q) /\ t[q] # "("
      BY <2>2
    <3>2. i + x = q + 1 /\ q \in Int
      BY <1>1
    <3> HIDE DEF q
    <3>3. q < n /\ t[q + 1] = t[q]
      <4>1. q \in 1..n
        BY <3>1 DEF DeleteAt
      <4> QED
        BY <1>1, <3>1, <4>1 DEF LastOfRun
    <3>4. DeleteAt(t, u, q + 1)
      BY <3>1, <3>3, SlideDelete
    <3> QED
      BY <3>1, <3>2, <3>3, <3>4
  <2>3. \A x \in 0..n : x \in T
    <3> HIDE DEF T
    <3> QED
      BY <1>1, <2>1, <2>2, IntervalInduction
  <2>4. DeleteAt(t, u, i + n)
    BY <1>1, <2>3
  <2> QED
    BY <1>1, <2>4 DEF DeleteAt
<1> QED
  BY <1>2, <1>3

\* An unseen replacement, and an unseen deletion, leave the code as it was.
LEMMA UnseenPut ==
  ASSUME NEW C, NEW t \in Seq(C), NEW u \in Seq(C), Plain(t), Plain(u), NEW q,
         PutAt(t, u, q), source_sha256(t) = source_sha256(u)
  PROVE  Code(t) = Code(u)
<1>1. SameLive(t, u) /\ (Live(t, q) => Blank(t[q]) /\ Blank(u[q]))
  BY HashPut
<1>2. /\ Len(u) = Len(t) /\ q \in 1..Len(t)
      /\ \A k \in 1..Len(t) : k # q => u[k] = t[k]
  BY DEF PutAt
<1>3. ASSUME NEW k PROVE InCode(t, k) <=> InCode(u, k)
  BY <1>1, <1>2 DEF InCode, SameLive, Live
<1>4. ASSUME NEW k, InCode(t, k) PROVE t[k] = u[k]
  BY <1>1, <1>2, <1>4 DEF InCode, Live
<1>5. CodeAt(t) = CodeAt(u)
  <2>1. \A k : k \in CodeAt(t) <=> k \in CodeAt(u)
    BY <1>3, CodeIsLive
  <2> QED
    BY <2>1
<1>6. \A k \in 1..Len(t) : k \in CodeAt(t) => t[k] = u[k]
  BY <1>4, CodeIsLive
<1>7. WellFormed(t) /\ WellFormed(u)
  BY CodeIsLive
<1> QED
  BY <1>2, <1>5, <1>6, <1>7, SameCodePut

LEMMA UnseenDelete ==
  ASSUME NEW C, NEW t \in Seq(C), NEW u \in Seq(C), Plain(t), Plain(u), NEW i,
         DeleteAt(t, u, i), source_sha256(t) = source_sha256(u)
  PROVE  Code(t) = Code(u)
<1>1. PICK q : DeleteAt(t, u, q) /\ LastOfRun(t, q)
  <2>1. Len(u) \in Nat
    OBVIOUS
  <2> QED
    BY <2>1, DeleteLastOfRun
<1>2. ~ InCode(t, q) /\ ~ (InCode(t, q - 1) /\ InCode(t, q + 1))
  BY <1>1, HashDelete
<1>3. /\ Len(t) = Len(u) + 1 /\ q \in 1..Len(t) /\ Len(t) \in Nat
      /\ \A k \in 1..(q - 1) : u[k] = t[k]
      /\ \A k \in (q + 1)..Len(t) : u[k - 1] = t[k]
  BY <1>1 DEF DeleteAt
<1>4. /\ \A k \in 1..(q - 1) : Live(t, k) <=> Live(u, k)
      /\ \A k \in (q + 1)..Len(t) : Live(t, k) <=> Live(u, k - 1)
  BY <1>1, DeleteLeavesLive
<1>5. /\ \A k \in 1..(q - 1) : InCode(t, k) <=> InCode(u, k)
      /\ \A k \in (q + 1)..Len(t) : InCode(t, k) <=> InCode(u, k - 1)
  BY <1>3, <1>4 DEF InCode
<1>6. /\ WellFormed(t) /\ WellFormed(u)
      /\ q \notin CodeAt(t) /\ ~ (q - 1 \in CodeAt(t) /\ q + 1 \in CodeAt(t))
      /\ \A k \in 1..(q - 1) : k \in CodeAt(t) <=> k \in CodeAt(u)
      /\ \A k \in (q + 1)..Len(t) : k \in CodeAt(t) <=> k - 1 \in CodeAt(u)
  BY <1>2, <1>5, CodeIsLive
<1> QED
  BY <1>1, <1>6, SameCodeDelete

LEMMA SplitText ==
  ASSUME NEW C, NEW t \in Seq(C), NEW k \in 0..Len(t)
  PROVE  SubSeq(t, 1, k) \o SubSeq(t, k + 1, Len(t)) = t
<1> DEFINE m == 1
           n == Len(t)
<1>1. m \in 1..(n + 1) /\ k \in (m - 1)..n /\ n \in k..n
  OBVIOUS
<1> HIDE DEF m
<1>2. SubSeq(t, m, k) \o SubSeq(t, k + 1, n) = SubSeq(t, m, n)
  BY <1>1, ConcatAdjacentSubSeq
<1>3. SubSeq(t, m, n) = t
  BY SubSeqFull DEF m
<1> QED
  BY <1>2, <1>3 DEF m

\* Every edit replaces or deletes a character, or is undone by a deletion.
LEMMA EditsAreMoves ==
  ASSUME NEW C, C = Alphabet, NEW t \in Seq(C), NEW u \in Edits(t)
  PROVE  /\ u \in Seq(C)
         /\ \/ u = t
            \/ \E q : PutAt(t, u, q) \/ DeleteAt(t, u, q) \/ DeleteAt(u, t, q)
<1> DEFINE n == Len(t)
<1>1. n \in Nat
  OBVIOUS
<1>2. CASE u \in {Put(t, i, c) : i \in 1..n, c \in C}
  <2>1. PICK i \in 1..n, c \in C : u = [t EXCEPT ![i] = c]
    BY <1>2 DEF Put
  <2>2. /\ u \in Seq(C) /\ Len(u) = n
        /\ \A k \in 1..n : u[k] = IF k = i THEN c ELSE t[k]
    BY <2>1, ExceptSeq
  <2>3. CASE t[i] = c
    <3>1. \A k \in 1..n : u[k] = t[k]
      BY <2>2, <2>3
    <3> QED
      BY <2>2, <3>1, SeqEqual
  <2>4. CASE t[i] # c
    BY <2>2, <2>4 DEF PutAt
  <2> QED
    BY <2>2, <2>3, <2>4
<1>3. CASE u \in {Delete(t, i) : i \in 1..n}
  <2>1. PICK i \in 1..n : u = Delete(t, i)
    BY <1>3
  <2> DEFINE X == SubSeq(t, 1, i - 1)
             Y == SubSeq(t, i + 1, n)
             a == t[i]
  <2>2. X \in Seq(C) /\ Y \in Seq(C) /\ a \in C
    BY <1>1, SubSeqProperties
  <2>3. u = Join(X, Y)
    BY <2>1 DEF Delete, Join
  <2>4. t = Join(Join(X, One(a)), Y)
    <3>1. SubSeq(t, i, n) = <<a>> \o Y
      BY <1>1, SubSeqRecursiveFirst
    <3>2. X \o SubSeq(t, i, n) = t
      <4>1. i - 1 \in 0..n /\ (i - 1) + 1 = i
        BY <1>1
      <4>2. X \o SubSeq(t, (i - 1) + 1, n) = t
        BY <4>1, SplitText
      <4> QED
        BY <4>1, <4>2
    <3> HIDE DEF X, Y, a
    <3>3. t = Join(X, Join(One(a), Y))
      BY <3>1, <3>2 DEF Join, One
    <3> QED
      BY <2>2, <3>3, OneIsTyped, JoinAssociative
  <2> HIDE DEF X, Y, a
  <2>5. u \in Seq(C) /\ DeleteAt(t, u, Len(X) + 1)
    BY <2>2, <2>3, <2>4, JoinDelete DEF Removed
  <2> QED
    BY <2>5
<1>4. CASE u \in {Insert(t, i, c) : i \in 0..n, c \in C}
  <2>1. PICK i \in 0..n, c \in C : u = Insert(t, i, c)
    BY <1>4
  <2> DEFINE X == SubSeq(t, 1, i)
             Y == SubSeq(t, i + 1, n)
  <2>2. X \in Seq(C) /\ Y \in Seq(C)
    BY <1>1, SubSeqProperties
  <2>3. u = Join(Join(X, One(c)), Y)
    BY <2>1 DEF Insert, Join, One
  <2>4. t = Join(X, Y)
    <3>1. X \o Y = t
      BY SplitText
    <3> QED
      BY <3>1 DEF Join
  <2> HIDE DEF X, Y
  <2>5. u \in Seq(C) /\ DeleteAt(u, t, Len(X) + 1)
    BY <2>2, <2>3, <2>4, JoinDelete DEF Removed
  <2> QED
    BY <2>5
<1> QED
  BY <1>2, <1>3, <1>4 DEF Edits

-----------------------------------------------------------------------------
(* The theorems *)

Text == source \in Seq(Alphabet)

LEMMA SourceIsText == Spec => []Text
<1>1. Init => Text
  BY DEF Init, Text
<1>2. Text /\ [Next]_source => Text'
  BY DEF Next, Type, Text
<1> QED
  BY <1>1, <1>2, PTL DEF Spec

(* source_sha256 keeps every character the compiler reads of a source      *)
(* without string literals, of any length, nested comments or not.         *)
THEOREM NothingReadIsEaten ==
  ASSUME "quote" \notin Alphabet
  PROVE  Spec => []NeverEatsCode
<1>1. Text => NeverEatsCode
  <2> SUFFICES ASSUME Text PROVE NeverEatsCode
    OBVIOUS
  <2>1. Len(source) \in Nat /\ \A i \in 1..Len(source) : source[i] # "quote"
    BY DEF Text
  <2>2. \A i \in 1..Len(source) : Matching(source)[i].gone => ~ Lexing(source)[i].code
    BY <2>1, MatchesAreComments
  <2> QED
    BY <2>2 DEF NeverEatsCode, CodeAt, Kept
<1> QED
  BY <1>1, SourceIsText, PTL

(* The compiler cannot tell apart two balanced sources without string      *)
(* literals, of any length, one edited into the other, that source_sha256  *)
(* takes for the same.                                                     *)
THEOREM EditOfCodeIsSeen ==
  ASSUME "quote" \notin Alphabet
  PROVE  Spec => []EditIsSeen
<1>1. Text => EditIsSeen
  <2> SUFFICES ASSUME Text, Balanced(source), NEW u \in UnseenEdits(source), Balanced(u)
               PROVE  Code(u) = Code(source)
    BY DEF EditIsSeen
  <2> DEFINE C == Alphabet
             t == source
  <2>1. t \in Seq(C) /\ u \in Edits(t) /\ source_sha256(u) = source_sha256(t)
    BY DEF Text, UnseenEdits
  <2>2. /\ u \in Seq(C)
        /\ \/ u = t
           \/ \E q : PutAt(t, u, q) \/ DeleteAt(t, u, q) \/ DeleteAt(u, t, q)
    BY <2>1, EditsAreMoves
  <2>3. ASSUME NEW s \in Seq(C), Balanced(s) PROVE Plain(s)
    BY <2>3 DEF Plain
  <2>4. Plain(t) /\ Plain(u)
    BY <2>1, <2>2, <2>3
  <2> HIDE DEF C, t
  <2>5. Code(u) = Code(t)
    BY <2>1, <2>2, <2>4, UnseenPut, UnseenDelete
  <2> QED
    BY <2>5 DEF t
<1> QED
  BY <1>1, SourceIsText, PTL
=============================================================================
