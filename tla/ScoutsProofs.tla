---------------------------- MODULE ScoutsProofs ----------------------------
(***************************************************************************)
(* What a green run of a scout means, for any bank, any oracle and any     *)
(* probe: first what a run accepts, then an error analysis of the rounded  *)
(* arithmetic, from which a filter's CERTAIN is the true sign.             *)
(***************************************************************************)
EXTENDS Scouts, Recursion, TLAPS

-----------------------------------------------------------------------------
(* The banks *)

\* What a bank expects of a vector, where it expects a sign, is the truth.
WellPinned(v) == v.expected = "open" \/ v.expected = Truth(v)

LEMMA OpenIsWellPinned ==
  ASSUME NEW p
  PROVE  WellPinned(Open(p))
BY DEF WellPinned, Open

LEMMA LinePins == \A v \in Bank1093 : WellPinned(v)
BY OpenIsWellPinned DEF Bank1093, WellPinned, Pinned, Truth, OrientExact, Sign

LEMMA FlipIsWellPinned == WellPinned(Pinned(FlipWitness, "POS"))
BY DEF WellPinned, Pinned, Truth, Sign, FlipWitness

LEMMA CornersAreWellPinned == \A v \in CorpusPins : WellPinned(v)
<1> DEFINE triangle == <<<<0, 0>>, <<8, 0>>, <<0, 8>>>>
           square == <<<<0, 0>>, <<4, 0>>, <<4, 4>>>>
<1> SUFFICES ASSUME NEW v \in CorpusPins
             PROVE  WellPinned(v)
  OBVIOUS
<1> USE DEF WellPinned, Pinned, Truth, Sign
<1>1. CASE v \in {Pinned(Append(triangle, triangle[i]), "ZERO") : i \in 1..3}
  BY <1>1
<1>2. CASE v = Pinned(Append(square, <<0, 4>>), "ZERO")
  BY <1>2
<1>3. CASE v = Pinned(<<<<0, 0>>, <<4, 0>>, <<0, 4>>, <<4, 4>>>>, "ZERO")
  BY <1>3
<1>4. CASE v = Pinned(Append(square, <<0, 3>>), "POS")
  BY <1>4
<1>5. CASE v = Pinned(Append(square, <<0, 5>>), "NEG")
  BY <1>5
<1>6. CASE v = Pinned(FlipWitness, "POS")
  BY <1>6, FlipIsWellPinned
<1>7. CASE v = Pinned(<<<<0, 0>>, <<4, 0>>, <<2, 2>>, <<2, -4>>>>, "NEG")
  BY <1>7
<1> HIDE DEF WellPinned, Pinned, Truth, Sign
<1> QED
  BY <1>1, <1>2, <1>3, <1>4, <1>5, <1>6, <1>7 DEF CorpusPins

LEMMA SiteIsWellPinned ==
  \A v \in SitePins : WellPinned(v)
BY DEF SitePins, Site, WellPinned, Pinned, Truth, Sign

LEMMA BanksAreWellPinned ==
  ASSUME NEW s, NEW v \in Bank(s)
  PROVE  WellPinned(v)
<1>1. v \in Lane => WellPinned(v)
  BY OpenIsWellPinned, SiteIsWellPinned DEF Lane
<1>2. v = Pinned(<<<<0, 0>>, <<8, 0>>, <<4, 4>>, <<4, -2>>>>, "POS") => WellPinned(v)
  BY DEF WellPinned, Pinned, Truth, Sign
<1> QED
  BY <1>1, <1>2, LinePins, CornersAreWellPinned
  DEF Bank, Bank1094, Bank1212, Bank311

-----------------------------------------------------------------------------
(* Filters and answers *)

LEMMA SignIsSign == \A n : Sign(n) \in Signs
BY DEF Sign, Signs

LEMMA ClaimIsSigns == \A c, n : Claim(c, n) \in SUBSET Signs
BY SignIsSign DEF Claim

LEMMA FiltersClaimSigns ==
  ASSUME NEW p
  PROVE  /\ Filters1093(p) \in SUBSET Signs
         /\ StageA1094(p) \in SUBSET Signs
         /\ StageA1212(p) \in SUBSET Signs
         /\ StageA311(p) \in SUBSET Signs
<1>1. \A d, k : Detsum(d, k) \in SUBSET Signs
  BY ClaimIsSigns DEF Detsum
<1>2. \A d : Ozaki(d) \in SUBSET Signs
  BY ClaimIsSigns DEF Ozaki
<1>3. Filters1093(p) \in SUBSET Signs
  BY <1>1, <1>2 DEF Filters1093, JtsMaster, ShewchukOrient
<1>4. \A k : StrictlyCertain(p, k) \in SUBSET Signs
  BY ClaimIsSigns DEF StrictlyCertain
<1>5. StageA1094(p) \in SUBSET Signs
  BY ClaimIsSigns DEF StageA1094
<1> QED
  BY <1>3, <1>4, <1>5 DEF StageA1212, StageA311

Tokens == Signs \cup {"NAN", "ERR", "junk"}

LEMMA AnswersAreTokens ==
  ASSUME NEW q, NEW r \in Replies(q) \cup Probes(q), Answered(r)
  PROVE  r.token \in Tokens
<1>1. ASSUME NEW x PROVE SignOf(x) \in Tokens
  <2>1. Sign(x.n) \in Tokens
    BY SignIsSign DEF Tokens
  <2> QED
    BY <2>1 DEF SignOf, Tokens, Signs
<1>2. CASE r = HonestReply(q)
  BY <1>2, SignIsSign DEF HonestReply, Answer, Tokens
<1>3. CASE r \in {Answer("POS", Real(16)), Answer("NEG", Real(-16)),
                  Answer("POS", Tiny), Answer("NAN", NaN), Answer("junk", Real(16))}
  BY <1>3 DEF Answer, Tokens, Signs
<1>4. CASE r \in {Error, Broken}
  BY <1>4 DEF Error, Broken, Answered
<1>5. CASE r \in Probes(q)
  BY <1>1, <1>5 DEF Probes, Answer, Answered, Error
<1> QED
  BY <1>2, <1>3, <1>4, <1>5 DEF Replies

-----------------------------------------------------------------------------
(* The inductive invariant *)

\* What has to hold of a row for the scout not to count it as a failure.
Accepted(row) ==
  /\ row.vector.expected # "open" /\ (script = "311" => row.token \in Signs) =>
        \/ row.token = row.vector.expected
        \/ row.vector.expected = "ZERO" /\ row.soft
  /\ \A c \in row.claims : ~ Opposite(c, row.token)

VerdictInv ==
  /\ ~ failed => \A i \in DOMAIN rows : Accepted(rows[i])
  /\ exit = "green" => ~ failed

SInv ==
  /\ TypeOK
  /\ todo \in Seq(Bank(script))
  /\ rows \in Seq(Row)
  /\ VerdictInv

LEMMA InitSInv == Init => SInv
<1> SUFFICES ASSUME Init PROVE SInv
  OBVIOUS
<1>1. {parity, probe, failed, honest} \subseteq BOOLEAN
  BY DEF Init, Probed
<1>2. todo \in Seq(Bank(script))
  <2>1. CASE \E v \in Bank(script) : todo = <<v>>
    BY <2>1
  <2>2. CASE \E v \in Bank(script), w \in Bank(script) : todo = <<v, w>>
    BY <2>2
  <2> QED
    BY <2>1, <2>2 DEF Init, Runs
<1>3. rows = << >>
  BY DEF Init
<1>4. rows \in Seq(Row)
  BY <1>3
<1> QED
  BY <1>1, <1>2, <1>3, <1>4 DEF Init, SInv, TypeOK, VerdictInv

\* A run that stops leaves everything as it is but the verdict.
LEMMA StopKeepsSInv ==
  ASSUME SInv, NEW code \in {"fatal", "crash"}, phase # "ended",
         Stop(code), honest' \in BOOLEAN
  PROVE  SInv'
<1> USE DEF Stop, setting
<1>1. Row' = Row
  BY DEF Row
<1>2. TypeOK'
  BY <1>1 DEF SInv, TypeOK
<1>3. VerdictInv'
  BY DEF SInv, VerdictInv, Accepted
<1> QED
  BY <1>1, <1>2, <1>3 DEF SInv

LEMMA RecordKeepsSInv ==
  ASSUME SInv, todo # << >>, phase = "rows",
         NEW token \in Tokens, NEW soft \in BOOLEAN, NEW claims \in SUBSET Signs,
         NEW bad \in BOOLEAN,
         ~ bad => Accepted([vector |-> Head(todo), token |-> token,
                            soft |-> soft, claims |-> claims]),
         Record(token, soft, claims, bad), honest' \in BOOLEAN
  PROVE  SInv'
<1> DEFINE row == [vector |-> Head(todo), token |-> token,
                   soft |-> soft, claims |-> claims]
<1>1. /\ Head(todo) \in Bank(script)
      /\ Tail(todo) \in Seq(Bank(script))
  BY DEF SInv
<1>2. row \in Row
  BY <1>1 DEF Row, Tokens
<1>3. rows' = Append(rows, row) /\ rows \in Seq(Row)
  BY DEF Record, SInv
<1>4. /\ rows' \in Seq(Row)
      /\ \A i \in DOMAIN rows' : rows'[i] = row \/ (i \in DOMAIN rows /\ rows'[i] = rows[i])
  <2> HIDE DEF row
  <2> QED
    BY <1>2, <1>3
<1>5. /\ script' = script /\ parity' = parity /\ probe' = probe
      /\ phase' = phase /\ table' = table /\ exit' = exit
      /\ todo' = Tail(todo)
      /\ failed' = (failed \/ bad)
  BY DEF Record, setting
<1>6. Row' = Row
  BY <1>5 DEF Row
<1>7. TypeOK'
  <2>1. {parity, probe, failed, honest}' \subseteq BOOLEAN
    BY <1>5 DEF SInv, TypeOK
  <2>2. \A i \in DOMAIN todo' : todo'[i] \in Bank(script')
    BY <1>1, <1>5
  <2>3. \A i \in DOMAIN rows' : rows'[i] \in Row
    BY <1>4
  <2>4. exit = "running" /\ table = << >>
    BY DEF SInv, TypeOK
  <2> QED
    BY <1>5, <1>6, <2>1, <2>2, <2>3, <2>4 DEF SInv, TypeOK
<1>8. VerdictInv'
  <2>1. exit' # "green"
    BY <1>5 DEF SInv, TypeOK
  <2>2. SUFFICES ASSUME ~ failed', NEW i \in DOMAIN rows'
                 PROVE  Accepted(rows[i])'
    BY <2>1 DEF VerdictInv
  <2>3. ~ failed /\ ~ bad
    BY <1>5, <2>2
  <2>4. Accepted(row) /\ \A j \in DOMAIN rows : Accepted(rows[j])
    BY <2>3 DEF SInv, VerdictInv
  <2>5. Accepted(rows'[i])
    BY <1>4, <2>4
  <2> QED
    BY <1>5, <2>5 DEF Accepted
<1> QED
  BY <1>1, <1>4, <1>5, <1>6, <1>7, <1>8 DEF SInv

LEMMA PinsKeepSInv ==
  ASSUME SInv, Pinned1093 \/ Pinned1094 \/ PinnedOracle
  PROVE  SInv'
<1>1. /\ phase = "pin"
      /\ honest' \in BOOLEAN
      /\ \/ Stop("fatal")
         \/ /\ phase' = "rows"
            /\ probe' \in {probe, FALSE}
            /\ UNCHANGED <<setting, todo, rows, failed, table, exit>>
  BY DEF Pinned1093, Pinned1094, PinnedOracle
<1>2. CASE Stop("fatal")
  BY <1>1, <1>2, StopKeepsSInv
<1>3. CASE phase' = "rows" /\ probe' \in {probe, FALSE}
            /\ UNCHANGED <<setting, todo, rows, failed, table, exit>>
  <2>1. Row' = Row
    BY <1>3 DEF Row, setting
  <2> QED
    BY <1>1, <1>3, <2>1 DEF SInv, TypeOK, VerdictInv, Accepted, setting
<1> QED
  BY <1>1, <1>2, <1>3

\* Neither a filter nor the bank contradicts the answer.
LEMMA UnfailedIsAccepted ==
  ASSUME NEW v, NEW token, NEW x, NEW claims \in SUBSET Signs,
         ~ Conflict(claims, token), ~ Unexpected(v, token, x)
  PROVE  Accepted([vector |-> v, token |-> token, soft |-> Soft(x), claims |-> claims])
BY DEF Accepted, Conflict, Unexpected

\* What is no sign agrees with everything.
LEMMA NoSignNoConflict ==
  ASSUME NEW claims \in SUBSET Signs, NEW token, token \notin Signs
  PROVE  ~ Conflict(claims, token)
BY DEF Conflict, Opposite, Signs

LEMMA RowsKeepSInv ==
  ASSUME SInv, Row1093 \/ Row1094 \/ Row1212 \/ Row311
  PROVE  SInv'
<1> DEFINE v == Head(todo)
<1>1. /\ phase = "rows" /\ phase # "ended" /\ todo # << >>
      /\ honest \in BOOLEAN /\ parity \in BOOLEAN
  BY DEF Row1093, Row1094, Row1212, Row311, Asking, SInv, TypeOK
<1>2. CASE Row1093
  <2>1. script = "1093"
    BY <1>2 DEF Row1093, Asking
  <2>2. PICK r \in OrientReplies :
          /\ honest' = (honest /\ r = OrientExact(v.points))
          /\ IF r = "error"
             THEN Stop("crash")
             ELSE Record(r, FALSE, Filters1093(v.points),
                    \/ r \in {"POS", "NEG"} /\ ~ Filters1093(v.points) \subseteq {r}
                    \/ v.expected \notin {"open", r})
    BY <1>2 DEF Row1093
  <2> DEFINE bad == \/ r \in {"POS", "NEG"} /\ ~ Filters1093(v.points) \subseteq {r}
                    \/ v.expected \notin {"open", r}
             row == [vector |-> v, token |-> r, soft |-> FALSE,
                     claims |-> Filters1093(v.points)]
  <2>3. CASE r = "error"
    BY <1>1, <2>2, <2>3, StopKeepsSInv
  <2>4. CASE r # "error"
    <3>1. r \in Tokens
      BY <2>4 DEF OrientReplies, Tokens
    <3>2. ASSUME ~ bad PROVE Accepted(row)
      BY <3>2 DEF Accepted, Opposite
    <3>3. bad \in BOOLEAN
      OBVIOUS
    <3>4. Record(r, FALSE, Filters1093(v.points), bad)
      BY <2>2, <2>4
    <3> HIDE DEF bad
    <3> QED
      BY <1>1, <2>2, <3>1, <3>2, <3>3, <3>4, FiltersClaimSigns, RecordKeepsSInv
  <2> QED
    BY <2>3, <2>4
<1>3. CASE Row1094
  <2>1. PICK f \in Probes(v.points), r \in Replies(v.points) :
          /\ honest' = (/\ honest
                        /\ f = HonestReply(v.points)
                        /\ parity => r = HonestReply(v.points))
          /\ IF ~ Answered(f) \/ (parity /\ ~ Answered(r))
             THEN Stop("crash")
             ELSE Record(f.token, Soft(f.value), StageA1094(v.points),
                    \/ parity /\ ~ SameBits(f, r)
                    \/ Conflict(StageA1094(v.points), f.token)
                    \/ Unexpected(v, f.token, f.value))
    BY <1>3 DEF Row1094
  <2> DEFINE bad == \/ parity /\ ~ SameBits(f, r)
                    \/ Conflict(StageA1094(v.points), f.token)
                    \/ Unexpected(v, f.token, f.value)
  <2>2. CASE ~ Answered(f) \/ (parity /\ ~ Answered(r))
    BY <1>1, <2>1, <2>2, StopKeepsSInv
  <2>3. CASE Answered(f) /\ ~ (parity /\ ~ Answered(r))
    <3>1. f.token \in Tokens
      BY <2>3, AnswersAreTokens
    <3>2. ~ bad => Accepted([vector |-> v, token |-> f.token, soft |-> Soft(f.value),
                             claims |-> StageA1094(v.points)])
      BY FiltersClaimSigns, UnfailedIsAccepted
    <3>3. bad \in BOOLEAN /\ Soft(f.value) \in BOOLEAN
      BY DEF Soft
    <3>4. Record(f.token, Soft(f.value), StageA1094(v.points), bad)
      BY <2>1, <2>3
    <3> HIDE DEF bad
    <3> QED
      BY <1>1, <2>1, <3>1, <3>2, <3>3, <3>4, FiltersClaimSigns, RecordKeepsSInv
  <2> QED
    BY <2>2, <2>3
<1>4. CASE Row1212
  <2>1. PICK r \in Replies(v.points) :
          /\ honest' = (honest /\ r = HonestReply(v.points))
          /\ IF ~ Answered(r)
             THEN Stop("crash")
             ELSE Record(r.token, Soft(r.value), StageA1212(v.points),
                    \/ Conflict(StageA1212(v.points), r.token)
                    \/ Unexpected(v, r.token, r.value))
    BY <1>4 DEF Row1212
  <2> DEFINE bad == \/ Conflict(StageA1212(v.points), r.token)
                    \/ Unexpected(v, r.token, r.value)
  <2>2. CASE ~ Answered(r)
    BY <1>1, <2>1, <2>2, StopKeepsSInv
  <2>3. CASE Answered(r)
    <3>1. r.token \in Tokens
      BY <2>3, AnswersAreTokens
    <3>2. ~ bad => Accepted([vector |-> v, token |-> r.token, soft |-> Soft(r.value),
                             claims |-> StageA1212(v.points)])
      BY FiltersClaimSigns, UnfailedIsAccepted
    <3>3. bad \in BOOLEAN /\ Soft(r.value) \in BOOLEAN
      BY DEF Soft
    <3>4. Record(r.token, Soft(r.value), StageA1212(v.points), bad)
      BY <2>1, <2>3
    <3> HIDE DEF bad
    <3> QED
      BY <1>1, <2>1, <3>1, <3>2, <3>3, <3>4, FiltersClaimSigns, RecordKeepsSInv
  <2> QED
    BY <2>2, <2>3
<1>5. CASE Row311
  <2>1. script = "311"
    BY <1>5 DEF Row311, Asking
  <2>2. PICK r \in Replies(v.points) :
          /\ honest' = (honest /\ r = HonestReply(v.points))
          /\ \/ r = Broken /\ Stop("crash")
             \/ r = Error /\ Record("ERR", FALSE, StageA311(v.points), TRUE)
             \/ /\ Answered(r)
                /\ Record(r.token, Soft(r.value), StageA311(v.points),
                     /\ r.token \in Signs
                     /\ \/ Conflict(StageA311(v.points), r.token)
                        \/ Unexpected(v, r.token, r.value))
    BY <1>5 DEF Row311
  <2> DEFINE bad == /\ r.token \in Signs
                    /\ \/ Conflict(StageA311(v.points), r.token)
                       \/ Unexpected(v, r.token, r.value)
             row == [vector |-> v, token |-> r.token, soft |-> Soft(r.value),
                     claims |-> StageA311(v.points)]
  <2>3. CASE Stop("crash")
    BY <1>1, <2>2, <2>3, StopKeepsSInv
  <2>4. CASE Record("ERR", FALSE, StageA311(v.points), TRUE)
    BY <1>1, <2>2, <2>4, FiltersClaimSigns, RecordKeepsSInv DEF Tokens
  <2>5. CASE Answered(r) /\ Record(r.token, Soft(r.value), StageA311(v.points), bad)
    <3>1. r.token \in Tokens
      BY <2>5, AnswersAreTokens
    <3>2. r.token \in Signs /\ ~ bad => Accepted(row)
      BY FiltersClaimSigns, UnfailedIsAccepted
    <3>3. r.token \notin Signs => Accepted(row)
      BY <2>1, FiltersClaimSigns, NoSignNoConflict DEF Accepted, Conflict
    <3>4. ~ bad => Accepted(row)
      BY <3>2, <3>3
    <3>5. bad \in BOOLEAN /\ Soft(r.value) \in BOOLEAN
      BY DEF Soft
    <3> HIDE DEF bad
    <3> QED
      BY <1>1, <2>2, <2>5, <3>1, <3>4, <3>5, FiltersClaimSigns, RecordKeepsSInv
  <2> QED
    BY <2>2, <2>3, <2>4, <2>5
<1> QED
  BY <1>2, <1>3, <1>4, <1>5

LEMMA FinishKeepsSInv ==
  ASSUME SInv, Finish
  PROVE  SInv'
<1>1. Row' = Row
  BY DEF Finish, setting, Row
<1> QED
  BY <1>1 DEF Finish, setting, SInv, TypeOK, VerdictInv, Accepted

LEMMA NextKeepsSInv == SInv /\ [Next]_vars => SInv'
<1> SUFFICES ASSUME SInv, [Next]_vars PROVE SInv'
  OBVIOUS
<1>1. CASE UNCHANGED vars
  <2>1. Row' = Row
    BY <1>1 DEF vars, Row
  <2> QED
    BY <1>1, <2>1 DEF vars, SInv, TypeOK, VerdictInv, Accepted
<1> QED
  BY <1>1, PinsKeepSInv, RowsKeepSInv, FinishKeepsSInv DEF Next

-----------------------------------------------------------------------------
(* What a run accepts *)

(* The inductive invariant: while nothing has failed, every row so far was *)
(* accepted (the loops of the four scouts).                                *)
THEOREM ScoutsInvariant == Spec => []SInv
BY InitSInv, NextKeepsSInv, PTL DEF Spec

(* Every run is well typed, writes its table exactly when it has a verdict *)
(* and leaves that of an earlier run otherwise.                            *)
THEOREM ScoutsTypeCorrect == Spec => []TypeOK
<1>1. SInv => TypeOK
  BY DEF SInv
<1> QED
  BY <1>1, ScoutsInvariant, PTL

LEMMA AcceptedIsTrue == SInv /\ CertainIsExact => GreenMeansTrue
<1> SUFFICES ASSUME SInv, CertainIsExact, exit = "green", NEW i \in DOMAIN rows
             PROVE  LET row == rows[i]
                        truth == Truth(row.vector)
                    IN /\ row.vector.expected # "open" /\ (script = "311" => row.token \in Signs)
                            => row.token = truth \/ (truth = "ZERO" /\ row.soft)
                       /\ row.claims # {} => ~ Opposite(row.token, truth)
  BY DEF GreenMeansTrue
<1> DEFINE row == rows[i]
           truth == Truth(row.vector)
<1>1. Accepted(row)
  BY DEF SInv, VerdictInv
<1>2. row.vector \in Bank(script)
  <2>1. rows[i] \in Row
    BY DEF SInv
  <2> QED
    BY <2>1 DEF Row
<1>3. row.vector.expected = "open" \/ row.vector.expected = truth
  BY <1>2, BanksAreWellPinned DEF WellPinned
<1>4. row.claims \subseteq {truth}
  BY DEF CertainIsExact
<1>5. row.claims # {} => ~ Opposite(row.token, truth)
  BY <1>1, <1>4 DEF Accepted, Opposite
<1>6. row.vector.expected # "open" /\ (script = "311" => row.token \in Signs)
        => row.token = truth \/ (truth = "ZERO" /\ row.soft)
  <2> HIDE DEF truth
  <2> QED
    BY <1>1, <1>3 DEF Accepted
<1> QED
  BY <1>5, <1>6

-----------------------------------------------------------------------------
(* Rounding *)

LEMMA FormatNumbers ==
  /\ 2 ^ Precision = 64 /\ 4 ^ Precision = 4096
  /\ OzakiK = 208 /\ CcwErrBoundA = 208 /\ DPSafeEpsilon = 576
BY DEF Precision, OzakiK, CcwErrBoundA, DPSafeEpsilon

\* The weight of the last bit, up to n.
UlpUpTo(f, n) ==
  /\ f \in [0..n -> Nat]
  /\ \A m \in 0..n : f[m] = IF m < 64 THEN 1 ELSE 2 * f[m \div 2]

LEMMA UlpsExist == \A n \in Nat : \E f : UlpUpTo(f, n)
<1> DEFINE T == {n \in Nat : \E f : UlpUpTo(f, n)}
<1>1. 0 \in T
  <2> DEFINE f == [m \in 0..0 |-> 1]
  <2>1. UlpUpTo(f, 0)
    BY DEF UlpUpTo
  <2> QED
    BY <2>1
<1>2. ASSUME NEW n \in Nat, n \in T PROVE n + 1 \in T
  <2>1. PICK f : UlpUpTo(f, n)
    BY <1>2
  <2> DEFINE g == [m \in 0..(n + 1) |-> IF m <= n THEN f[m]
                                        ELSE IF m < 64 THEN 1 ELSE 2 * f[m \div 2]]
  <2>2. ASSUME NEW m \in 0..(n + 1)
        PROVE  g[m] = (IF m < 64 THEN 1 ELSE 2 * g[m \div 2]) /\ g[m] \in Nat
    <3>1. m >= 64 => m \div 2 \in 0..n /\ m \div 2 <= n
      OBVIOUS
    <3>2. m <= n => g[m] = f[m] /\ m \in 0..n
      OBVIOUS
    <3>3. m >= 64 => g[m \div 2] = f[m \div 2] /\ f[m \div 2] \in Nat
      BY <2>1, <3>1 DEF UlpUpTo
    <3>4. ~ (m <= n) => g[m] = IF m < 64 THEN 1 ELSE 2 * f[m \div 2]
      OBVIOUS
    <3> HIDE DEF g
    <3> QED
      BY <2>1, <3>1, <3>2, <3>3, <3>4 DEF UlpUpTo
  <2>3. UlpUpTo(g, n + 1)
    <3>1. g = [m \in 0..(n + 1) |-> g[m]]
      OBVIOUS
    <3> HIDE DEF g
    <3> QED
      BY <2>2, <3>1 DEF UlpUpTo
  <2> QED
    BY <2>3
<1> HIDE DEF T
<1>3. \A n \in Nat : n \in T
  BY <1>1, <1>2, SetInduction
<1> QED
  BY <1>3 DEF T

LEMMA UlpsAgree ==
  ASSUME NEW n \in Nat, NEW f, UlpUpTo(f, n), NEW k \in Nat, NEW g, UlpUpTo(g, k),
         n <= k
  PROVE  f[n] = g[n]
<1> DEFINE T == {m \in Nat : \A j \in 0..m : j <= n => f[j] = g[j]}
<1>1. 0 \in T
  BY DEF UlpUpTo
<1>2. ASSUME NEW m \in Nat, m \in T PROVE m + 1 \in T
  <2>1. ASSUME m + 1 <= n PROVE f[m + 1] = g[m + 1]
    <3>1. m + 1 \in 0..n /\ m + 1 \in 0..k
      BY <2>1
    <3>2. m + 1 >= 64 => (m + 1) \div 2 \in 0..m /\ (m + 1) \div 2 <= n
      BY <2>1
    <3>3. m + 1 >= 64 => f[(m + 1) \div 2] = g[(m + 1) \div 2]
      BY <1>2, <3>2
    <3> QED
      BY <3>1, <3>3 DEF UlpUpTo
  <2>2. \A j \in 0..(m + 1) : j = m + 1 \/ j \in 0..m
    OBVIOUS
  <2> QED
    BY <1>2, <2>1, <2>2
<1>3. n \in T
  <2> HIDE DEF T
  <2> QED
    BY <1>1, <1>2, SetInduction
<1> QED
  BY <1>3

LEMMA UlpEquation ==
  Ulp = [m \in Nat |-> IF m < 2 ^ Precision THEN 1 ELSE 2 * Ulp[m \div 2]]
<1> DEFINE F == [m \in Nat |-> (CHOOSE f : UlpUpTo(f, m))[m]]
           D(f) == [m \in Nat |-> IF m < 2 ^ Precision THEN 1 ELSE 2 * f[m \div 2]]
<1>1. ASSUME NEW m \in Nat PROVE F[m] = IF m < 64 THEN 1 ELSE 2 * F[m \div 2]
  <2> DEFINE c(k) == CHOOSE f : UlpUpTo(f, k)
  <2>1. \A k \in Nat : UlpUpTo(c(k), k)
    BY UlpsExist
  <2>2. \A k \in Nat : F[k] = c(k)[k]
    OBVIOUS
  <2> HIDE DEF c, F
  <2>3. F[m] = IF m < 64 THEN 1 ELSE 2 * c(m)[m \div 2]
    BY <2>1, <2>2 DEF UlpUpTo
  <2>4. m >= 64 => c(m)[m \div 2] = F[m \div 2]
    <3>1. m \div 2 \in Nat /\ m \div 2 <= m
      OBVIOUS
    <3>2. UlpUpTo(c(m), m) /\ UlpUpTo(c(m \div 2), m \div 2)
      BY <2>1, <3>1
    <3>3. c(m \div 2)[m \div 2] = c(m)[m \div 2]
      BY <3>1, <3>2, UlpsAgree
    <3> QED
      BY <2>2, <3>1, <3>3
  <2> QED
    BY <2>3, <2>4
<1>2. F = [m \in Nat |-> F[m]]
  OBVIOUS
<1> HIDE DEF F
<1>3. F = D(F)
  BY <1>1, <1>2, FormatNumbers
<1>4. Ulp = CHOOSE f : f = D(f)
  BY DEF Ulp
<1>5. Ulp = D(Ulp)
  <2> HIDE DEF D
  <2> QED
    BY <1>3, <1>4
<1> QED
  BY <1>5

\* A number has six bits or more above the weight of its last, unless that is 1.
LEMMA UlpBound ==
  \A m \in Nat : /\ Ulp[m] \in Nat \ {0}
                 /\ Ulp[m] = 1 \/ 32 * Ulp[m] <= m
<1> DEFINE Good(m) == Ulp[m] \in Nat \ {0} /\ (Ulp[m] = 1 \/ 32 * Ulp[m] <= m)
           T == {m \in Nat : \A j \in 0..m : Good(j)}
<1>1. \A m \in Nat : Ulp[m] = IF m < 64 THEN 1 ELSE 2 * Ulp[m \div 2]
  BY UlpEquation, FormatNumbers
<1>2. ASSUME NEW m \in Nat, m >= 64 => Good(m \div 2) PROVE Good(m)
  <2>1. CASE m < 64
    BY <1>1, <2>1
  <2>2. CASE m >= 64
    <3>1. Ulp[m] = 2 * Ulp[m \div 2]
      BY <1>1, <2>2
    <3>2. Good(m \div 2)
      BY <1>2, <2>2
    <3>3. 2 * (m \div 2) <= m
      OBVIOUS
    <3> QED
      BY <2>2, <3>1, <3>2, <3>3
  <2> QED
    BY <2>1, <2>2
<1> HIDE DEF Good
<1>3. 0 \in T
  BY <1>2
<1>4. ASSUME NEW m \in Nat, m \in T PROVE m + 1 \in T
  <2>1. m + 1 >= 64 => (m + 1) \div 2 \in 0..m
    OBVIOUS
  <2>2. Good(m + 1)
    BY <1>2, <1>4, <2>1
  <2>3. \A j \in 0..(m + 1) : j = m + 1 \/ j \in 0..m
    OBVIOUS
  <2> QED
    BY <1>4, <2>2, <2>3
<1>5. \A m \in Nat : m \in T
  <2> HIDE DEF T
  <2> QED
    BY <1>3, <1>4, SetInduction
<1> QED
  BY <1>5 DEF Good

LEMMA NearestIsNear ==
  ASSUME NEW m \in Nat, NEW ulp \in Nat \ {0}, ulp = 1 \/ 32 * ulp <= m
  PROVE  /\ NearestMultiple(m, ulp) \in Nat
         /\ 65 * (NearestMultiple(m, ulp) - m) <= m
         /\ 65 * (m - NearestMultiple(m, ulp)) <= m
         /\ 64 * (NearestMultiple(m, ulp) - m) <= NearestMultiple(m, ulp)
         /\ 64 * (m - NearestMultiple(m, ulp)) <= NearestMultiple(m, ulp)
<1> DEFINE q == m \div ulp
           t == m % ulp
           r == NearestMultiple(m, ulp)
<1>1. q \in Nat /\ t \in 0..(ulp - 1) /\ m = q * ulp + t
  OBVIOUS
<1>2. \/ r = q * ulp + ulp /\ 2 * t >= ulp
      \/ r = q * ulp /\ 2 * t <= ulp
  <2>1. (q + 1) * ulp = q * ulp + ulp
    BY <1>1
  <2> HIDE DEF q, t
  <2> QED
    BY <1>1, <2>1 DEF NearestMultiple, q, t
<1>3. q * ulp \in Nat
  BY <1>1
<1>4. ulp = 1 \/ q * ulp >= 32 * ulp
  <2>1. CASE ulp = 1
    BY <2>1
  <2>2. CASE 32 * ulp <= m
    <3>1. q >= 32
      <4> HIDE DEF q, t
      <4> QED
        BY <1>1, <2>2
    <3> HIDE DEF q, t
    <3> QED
      BY <1>1, <3>1
  <2> QED
    BY <2>1, <2>2
<1> DEFINE low == q * ulp
<1>5. low \in Nat /\ t \in 0..(ulp - 1) /\ m = low + t /\ (ulp = 1 \/ low >= 32 * ulp)
      /\ ((r = low + ulp /\ 2 * t >= ulp) \/ (r = low /\ 2 * t <= ulp))
  BY <1>1, <1>2, <1>3, <1>4
<1> HIDE DEF low, q, t, r
<1>6. r \in Nat /\ 65 * (r - m) <= m /\ 65 * (m - r) <= m
      /\ 64 * (r - m) <= r /\ 64 * (m - r) <= r
  BY <1>5
<1> QED
  BY <1>6 DEF r

\* r is n but for one part in 65 of n, and one in 64 of r.
Near(r, n) ==
  /\ r \in Int /\ n \in Int
  /\ 65 * Abs(r - n) <= Abs(n)
  /\ 64 * Abs(r - n) <= Abs(r)

LEMMA RoundedIsNear ==
  ASSUME NEW n \in Int
  PROVE  Near(Rounded(n), n)
<1> DEFINE m == Abs(n)
           r == NearestMultiple(m, Ulp[m])
<1>1. m \in Nat
  BY DEF Abs
<1>2. /\ r \in Nat
      /\ 65 * (r - m) <= m /\ 65 * (m - r) <= m
      /\ 64 * (r - m) <= r /\ 64 * (m - r) <= r
  BY <1>1, UlpBound, NearestIsNear
<1>3. Rounded(n) = IF n < 0 THEN -r ELSE r
  BY DEF Rounded
<1> HIDE DEF r
<1> QED
  BY <1>2, <1>3 DEF Near, Abs, m

-----------------------------------------------------------------------------
(* The orientation filters *)

\* d stands for the product D of two differences: three roundings.
Thrice(d, D) ==
  /\ d \in Int /\ D \in Int
  /\ 262144 * Abs(D - d) <= 12481 * Abs(d)

\* Of the sign of D, and small only if D is.
LEMMA ThriceSign ==
  ASSUME NEW d, NEW D, Thrice(d, D)
  PROVE  (d > 0 <=> D > 0) /\ (d < 0 <=> D < 0) /\ (d = 0 <=> D = 0)
BY DEF Thrice, Abs

LEMMA PositiveProduct ==
  ASSUME NEW A \in Nat, NEW B \in Nat, NEW a \in Nat, NEW b \in Nat, NEW d \in Nat,
         Near(a, A), Near(b, B), Near(d, a * b)
  PROVE  Thrice(d, A * B)
<1> DEFINE e == A - a
           f == B - b
           P == a * b
<1>1. /\ e \in Int /\ 64 * e <= a /\ -(64 * e) <= a
      /\ f \in Int /\ 64 * f <= b /\ -(64 * f) <= b
  BY DEF Near, Abs
<1>2. P \in Nat /\ A * B \in Nat
  OBVIOUS
<1>3. 64 * (d - P) <= d /\ 64 * (P - d) <= d
  BY <1>2 DEF Near, Abs
<1>4. A * B = P + a * f + b * e + e * f
  <2>1. A = a + e /\ B = b + f
    BY <1>1
  <2>2. (a + e) * (b + f) = a * b + a * f + b * e + e * f
    <3> HIDE DEF e, f
    <3> QED
      BY <1>1
  <2> HIDE DEF e, f
  <2> QED
    BY <2>1, <2>2
<1> HIDE DEF e, f
<1>5. 64 * (a * f) <= P /\ -(64 * (a * f)) <= P
  BY <1>1
<1>6. 64 * (b * e) <= P /\ -(64 * (b * e)) <= P
  BY <1>1
<1>7. 4096 * (e * f) <= P /\ -(4096 * (e * f)) <= P
  BY <1>1
<1> DEFINE x == a * f
           y == b * e
           z == e * f
           N == A * B
<1>8. x \in Int /\ y \in Int /\ z \in Int /\ N \in Int
  BY <1>1
<1> HIDE DEF x, y, z, P, N
<1>9. N = P + x + y + z /\ 64 * x <= P /\ -(64 * x) <= P /\ 64 * y <= P /\ -(64 * y) <= P
      /\ 4096 * z <= P /\ -(4096 * z) <= P
  BY <1>4, <1>5, <1>6, <1>7 DEF x, y, z, P, N
<1>10. 262144 * (N - d) <= 12481 * d /\ 262144 * (d - N) <= 12481 * d
  BY <1>2, <1>3, <1>8, <1>9
<1> QED
  BY <1>8, <1>10 DEF Thrice, Abs, N

LEMMA NearMinus ==
  ASSUME NEW r, NEW n, Near(r, n)
  PROVE  Near(-r, -n)
BY DEF Near, Abs

LEMMA ProductIsThrice ==
  ASSUME NEW A \in Int, NEW B \in Int, NEW a, NEW b, NEW d,
         Near(a, A), Near(b, B), Near(d, a * b)
  PROVE  Thrice(d, A * B)
<1>1. a \in Int /\ b \in Int /\ d \in Int
  BY DEF Near
<1>2. /\ (a >= 0 => A >= 0) /\ (a <= 0 => A <= 0)
      /\ (b >= 0 => B >= 0) /\ (b <= 0 => B <= 0)
  BY DEF Near, Abs
<1>3. a * b \in Int /\ (a * b >= 0 => d >= 0) /\ (a * b <= 0 => d <= 0)
  BY <1>1 DEF Near, Abs
<1>4. (-a) * b = -(a * b) /\ a * (-b) = -(a * b) /\ (-a) * (-b) = a * b
  BY <1>1
<1>5. (-A) * B = -(A * B) /\ A * (-B) = -(A * B) /\ (-A) * (-B) = A * B
  OBVIOUS
<1>6. Near(-a, -A) /\ Near(-b, -B) /\ Near(-d, -(a * b))
  BY NearMinus
<1>7. CASE a >= 0 /\ b >= 0
  <2>1. a * b >= 0
    BY <1>1, <1>7
  <2> QED
    BY <1>1, <1>2, <1>3, <1>7, <2>1, PositiveProduct
<1>8. CASE a <= 0 /\ b <= 0
  <2>1. a * b >= 0
    BY <1>1, <1>8
  <2>2. -a \in Nat /\ -b \in Nat /\ -A \in Nat /\ -B \in Nat /\ d \in Nat
    BY <1>1, <1>2, <1>3, <1>8, <2>1
  <2>3. Near(d, (-a) * (-b))
    BY <1>4
  <2>4. Thrice(d, (-A) * (-B))
    BY <1>6, <2>2, <2>3, PositiveProduct
  <2> QED
    BY <1>5, <2>4
<1>9. CASE a >= 0 /\ b <= 0
  <2>1. a * b <= 0
    BY <1>1, <1>9
  <2>2. a \in Nat /\ -b \in Nat /\ A \in Nat /\ -B \in Nat /\ -d \in Nat
    BY <1>1, <1>2, <1>3, <1>9, <2>1
  <2>3. Near(-d, a * (-b))
    BY <1>4, <1>6
  <2>4. Thrice(-d, A * (-B))
    BY <1>6, <2>2, <2>3, PositiveProduct
  <2>5. Thrice(-d, -(A * B))
    BY <1>5, <2>4
  <2> DEFINE N == A * B
  <2>6. N \in Int
    OBVIOUS
  <2> HIDE DEF N
  <2> QED
    BY <1>1, <2>5, <2>6 DEF Thrice, Abs, N
<1>10. CASE a <= 0 /\ b >= 0
  <2>1. a * b <= 0
    BY <1>1, <1>10
  <2>2. -a \in Nat /\ b \in Nat /\ -A \in Nat /\ B \in Nat /\ -d \in Nat
    BY <1>1, <1>2, <1>3, <1>10, <2>1
  <2>3. Near(-d, (-a) * b)
    BY <1>4, <1>6
  <2>4. Thrice(-d, (-A) * B)
    BY <1>6, <2>2, <2>3, PositiveProduct
  <2>5. Thrice(-d, -(A * B))
    BY <1>5, <2>4
  <2> DEFINE N == A * B
  <2>6. N \in Int
    OBVIOUS
  <2> HIDE DEF N
  <2> QED
    BY <1>1, <2>5, <2>6 DEF Thrice, Abs, N
<1> QED
  BY <1>1, <1>7, <1>8, <1>9, <1>10

\* Both products of a determinant, and its sign.
LEMMA PartsAreThrice ==
  ASSUME NEW p \in (Int \X Int) \X (Int \X Int) \X (Int \X Int)
  PROVE  \E L, R : /\ Thrice(DetParts(p)[1], L) /\ Thrice(DetParts(p)[2], R)
                   /\ OrientExact(p) = Sign(L - R)
<1> DEFINE A == p[1][1] - p[3][1]
           B == p[2][2] - p[3][2]
           C == p[1][2] - p[3][2]
           D == p[2][1] - p[3][1]
<1>1. p[1][1] \in Int /\ p[1][2] \in Int /\ p[2][1] \in Int /\ p[2][2] \in Int
      /\ p[3][1] \in Int /\ p[3][2] \in Int
  OBVIOUS
<1>2. A \in Int /\ B \in Int /\ C \in Int /\ D \in Int
  BY <1>1
<1>3. A * B - C * D = (p[2][1] - p[1][1]) * (p[3][2] - p[1][2])
                        - (p[3][1] - p[1][1]) * (p[2][2] - p[1][2])
  BY <1>1
<1>4. DetParts(p) = <<Rounded(Rounded(A) * Rounded(B)), Rounded(Rounded(C) * Rounded(D))>>
  BY DEF DetParts, \ominus, \otimes
<1> HIDE DEF A, B, C, D
<1>5. /\ Near(Rounded(A), A) /\ Near(Rounded(B), B)
      /\ Near(Rounded(C), C) /\ Near(Rounded(D), D)
  BY <1>2, RoundedIsNear
<1>6. Rounded(A) * Rounded(B) \in Int /\ Rounded(C) * Rounded(D) \in Int
  BY <1>5 DEF Near
<1>7. /\ Near(DetParts(p)[1], Rounded(A) * Rounded(B))
      /\ Near(DetParts(p)[2], Rounded(C) * Rounded(D))
  BY <1>4, <1>6, RoundedIsNear
<1>8. Thrice(DetParts(p)[1], A * B) /\ Thrice(DetParts(p)[2], C * D)
  BY <1>2, <1>5, <1>7, ProductIsThrice
<1>9. OrientExact(p) = Sign(A * B - C * D)
  BY <1>3 DEF OrientExact
<1> QED
  BY <1>8, <1>9

\* Products of different signs cannot cancel.
LEMMA MixedIsCertain ==
  ASSUME NEW d, NEW e, NEW L, NEW R, Thrice(d, L), Thrice(e, R),
         ~ (d > 0 /\ e > 0), ~ (d < 0 /\ e < 0)
  PROVE  Sign(d \ominus e) = Sign(L - R)
<1>1. d \in Int /\ e \in Int /\ L \in Int /\ R \in Int
  BY DEF Thrice
<1>2. d - e \in Int /\ L - R \in Int
  BY <1>1
<1>3. Near(d \ominus e, d - e)
  BY <1>2, RoundedIsNear DEF \ominus
<1>4. Sign(d - e) = Sign(L - R)
  BY <1>1, ThriceSign DEF Sign
<1> DEFINE det == d \ominus e
<1>5. det \in Int /\ (det > 0 <=> d - e > 0) /\ (det < 0 <=> d - e < 0)
  BY <1>2, <1>3 DEF Near, Abs
<1> HIDE DEF det
<1>6. Sign(det) = Sign(d - e)
  BY <1>5 DEF Sign
<1> QED
  BY <1>4, <1>6 DEF det

\* Products of one sign: the difference is larger than what they may be off.
LEMMA LargeIsCertain ==
  ASSUME NEW d, NEW e, NEW L, NEW R, Thrice(d, L), Thrice(e, R),
         NEW k \in Int, k >= 205,
         NEW s, Near(s, Abs(d) + Abs(e)), s >= 0,
         Reaches(d \ominus e, k \otimes s)
  PROVE  Sign(d \ominus e) = Sign(L - R)
<1> DEFINE det == d \ominus e
           bound == k \otimes s
           S == Abs(d) + Abs(e)
<1>1. d \in Int /\ e \in Int /\ L \in Int /\ R \in Int /\ s \in Int
  BY DEF Thrice, Near
<1>2. d - e \in Int /\ S \in Int
  BY <1>1 DEF Abs
<1>3. Near(det, d - e)
  BY <1>2, RoundedIsNear DEF \ominus
<1>4. k * s \in Int /\ k * s >= 205 * s
  BY <1>1
<1>5. Near(bound, k * s)
  BY <1>4, RoundedIsNear DEF \otimes
<1>6. 4096 * Abs(det) >= bound
  BY <1>3, FormatNumbers DEF Reaches, Near, Abs
<1> DEFINE ks == k * s
<1> HIDE DEF det, bound, ks
<1>7. det \in Int /\ bound \in Int
  BY <1>3, <1>5 DEF Near
<1>8. 65 * bound >= 64 * ks /\ ks >= 205 * s /\ ks \in Int
  <2>1. Near(bound, ks) /\ ks \in Int /\ ks >= 205 * s
    BY <1>4, <1>5 DEF ks
  <2> QED
    BY <1>1, <2>1 DEF Near, Abs
<1>9. 65 * s >= 64 * S
  BY <1>1, <1>2 DEF Near, Abs
<1>10. 65 * Abs(d - e) >= 64 * Abs(det)
  BY <1>2, <1>3, <1>7 DEF Near, Abs
<1>11. 262144 * Abs((L - R) - (d - e)) <= 12481 * S
  BY <1>1 DEF Thrice, Abs
<1> DEFINE x == d - e
           X == L - R
<1>12. x \in Int /\ X \in Int
  BY <1>1
<1>13. /\ Near(det, x) /\ 65 * Abs(x) >= 64 * Abs(det)
       /\ 262144 * Abs(X - x) <= 12481 * S /\ S >= 0
  BY <1>1, <1>3, <1>10, <1>11 DEF Abs
<1> HIDE DEF x, X, S
<1>14. (x > 0 <=> X > 0) /\ (x < 0 <=> X < 0)
  <2> DEFINE absx == Abs(x)
             absdet == Abs(det)
  <2>1. absx \in Nat /\ absdet \in Nat
    BY <1>7, <1>12 DEF Abs
  <2>2. 65 * absx >= 64 * absdet /\ 4096 * absdet >= bound
    BY <1>6, <1>13
  <2> HIDE DEF absx, absdet
  <2>3. S = 0 \/ 262144 * absx > 12481 * S
    BY <1>1, <1>2, <1>7, <1>8, <1>9, <1>13, <2>1, <2>2
  <2> QED
    BY <1>2, <1>12, <1>13, <2>3 DEF Abs, absx
<1>15. (det > 0 <=> x > 0) /\ (det < 0 <=> x < 0)
  BY <1>7, <1>12, <1>13 DEF Near, Abs
<1>16. Sign(det) = Sign(X)
  BY <1>7, <1>12, <1>14, <1>15 DEF Sign
<1> QED
  BY <1>16 DEF det, X

\* A filter that compares with an error bound, or finds the products of
\* different signs.
LEMMA DetsumIsExact ==
  ASSUME NEW d, NEW L, NEW R, Thrice(d[1], L), Thrice(d[2], R), NEW k \in {208, 576}
  PROVE  Detsum(d, k) \subseteq {Sign(L - R)}
<1> DEFINE sum == Abs(d[1]) \oplus Abs(d[2])
           mixed == ~ (d[1] > 0 /\ d[2] > 0) /\ ~ (d[1] < 0 /\ d[2] < 0)
           det == d[1] \ominus d[2]
<1>1. d[1] \in Int /\ d[2] \in Int
  BY DEF Thrice
<1>2. Abs(d[1]) + Abs(d[2]) \in Nat
  BY <1>1 DEF Abs
<1>3. Near(sum, Abs(d[1]) + Abs(d[2])) /\ sum >= 0
  <2>1. Near(sum, Abs(d[1]) + Abs(d[2]))
    BY <1>2, RoundedIsNear DEF \oplus
  <2> HIDE DEF sum
  <2>2. sum >= 0
    BY <1>2, <2>1 DEF Near, Abs
  <2> QED
    BY <2>1, <2>2
<1>4. Rounded(k) \in Int /\ Rounded(k) >= 205
  <2>1. Near(Rounded(k), k) /\ k >= 208
    BY RoundedIsNear
  <2> QED
    BY <2>1 DEF Near, Abs
<1>5. Detsum(d, k) = IF mixed \/ Reaches(det, Rounded(k) \otimes sum) THEN {Sign(det)} ELSE {}
  BY DEF Detsum, Claim
<1>6. mixed => Sign(det) = Sign(L - R)
  BY MixedIsCertain
<1>7. Reaches(det, Rounded(k) \otimes sum) => Sign(det) = Sign(L - R)
  <2> HIDE DEF sum
  <2> QED
    BY <1>3, <1>4, LargeIsCertain
<1> HIDE DEF sum, mixed, det
<1> QED
  BY <1>5, <1>6, <1>7

\* Ozaki's bound is smaller where the products differ in sign, which does no
\* harm.
LEMMA OzakiIsExact ==
  ASSUME NEW d, NEW L, NEW R, Thrice(d[1], L), Thrice(d[2], R)
  PROVE  Ozaki(d) \subseteq {Sign(L - R)}
<1> DEFINE s == d[1] \oplus d[2]
           det == d[1] \ominus d[2]
           mixed == ~ (d[1] > 0 /\ d[2] > 0) /\ ~ (d[1] < 0 /\ d[2] < 0)
<1>1. d[1] \in Int /\ d[2] \in Int /\ d[1] + d[2] \in Int
  BY DEF Thrice
<1>2. Near(s, d[1] + d[2])
  BY <1>1, RoundedIsNear DEF \oplus
<1>3. Rounded(208) \in Int /\ Rounded(208) >= 205
  <2>1. Near(Rounded(208), 208)
    BY RoundedIsNear
  <2> QED
    BY <2>1 DEF Near, Abs
<1>4. Ozaki(d) = IF Reaches(det, Rounded(208) \otimes Abs(s)) THEN {Sign(det)} ELSE {}
  BY FormatNumbers DEF Ozaki, Claim
<1>5. mixed => Sign(det) = Sign(L - R)
  BY MixedIsCertain
<1>6. ASSUME ~ mixed, Reaches(det, Rounded(208) \otimes Abs(s))
      PROVE  Sign(det) = Sign(L - R)
  <2> HIDE DEF s, det
  <2>1. Near(Abs(s), Abs(d[1]) + Abs(d[2])) /\ Abs(s) >= 0
    BY <1>1, <1>2, <1>6 DEF Near, Abs, mixed
  <2> QED
    BY <1>3, <1>6, <2>1, LargeIsCertain DEF det
<1> HIDE DEF s, mixed, det
<1> QED
  BY <1>4, <1>5, <1>6

LEMMA OrientationClaimsAreExact ==
  ASSUME NEW p \in (Int \X Int) \X (Int \X Int) \X (Int \X Int)
  PROVE  Filters1093(p) \subseteq {OrientExact(p)}
<1> DEFINE d == DetParts(p)
<1>1. PICK L, R : Thrice(d[1], L) /\ Thrice(d[2], R) /\ OrientExact(p) = Sign(L - R)
  BY PartsAreThrice
<1> HIDE DEF d
<1>2. Detsum(d, 208) \subseteq {Sign(L - R)} /\ Detsum(d, 576) \subseteq {Sign(L - R)}
  BY <1>1, DetsumIsExact
<1>3. Ozaki(d) \subseteq {Sign(L - R)}
  BY <1>1, OzakiIsExact
<1>4. Filters1093(p) = Detsum(d, 576) \cup Detsum(d, 208) \cup Ozaki(d)
  BY FormatNumbers DEF Filters1093, JtsMaster, ShewchukOrient, d
<1> QED
  BY <1>1, <1>2, <1>3, <1>4

-----------------------------------------------------------------------------
(* The in-circle filters *)

LEMMA ProductBound ==
  ASSUME NEW X \in Nat, NEW Y \in Nat, NEW x \in Int, NEW y \in Int,
         -X <= x, x <= X, -Y <= y, y <= Y
  PROVE  -(X * Y) <= x * y /\ x * y <= X * Y
<1>1. /\ (X - x) * (Y + y) >= 0 /\ (X + x) * (Y - y) >= 0
      /\ (X - x) * (Y - y) >= 0 /\ (X + x) * (Y + y) >= 0
  <2>1. X - x \in Nat /\ X + x \in Nat /\ Y - y \in Nat /\ Y + y \in Nat
    OBVIOUS
  <2>2. \A m, n \in Nat : m * n >= 0
    OBVIOUS
  <2> QED
    BY <2>1, <2>2
<1>2. /\ (X - x) * (Y + y) = X * Y + X * y - x * Y - x * y
      /\ (X + x) * (Y - y) = X * Y - X * y + x * Y - x * y
      /\ (X - x) * (Y - y) = X * Y - X * y - x * Y + x * y
      /\ (X + x) * (Y + y) = X * Y + X * y + x * Y + x * y
  OBVIOUS
<1> QED
  BY <1>1, <1>2

\* al stands for the sum AL of two squared differences.
Lift(al, AL) ==
  /\ al \in Nat /\ AL \in Nat
  /\ 1000 * Abs(AL - al) <= 64 * al

LEMMA LiftIsClose ==
  ASSUME NEW A \in Int, NEW B \in Int
  PROVE  LET a == Rounded(A)
             b == Rounded(B)
         IN Lift((a \otimes a) \oplus (b \otimes b), A * A + B * B)
<1> DEFINE a == Rounded(A)
           b == Rounded(B)
           x == a \otimes a
           y == b \otimes b
           al == x \oplus y
           X == A * A
           Y == B * B
<1>1. Near(a, A) /\ Near(b, B)
  BY RoundedIsNear
<1>2. a \in Int /\ b \in Int
  BY <1>1 DEF Near
<1> HIDE DEF a, b
<1>3. a * a \in Nat /\ b * b \in Nat
  BY <1>2
<1>4. Near(x, a * a) /\ Near(y, b * b)
  BY <1>3, RoundedIsNear DEF \otimes
<1>5. Thrice(x, A * A) /\ Thrice(y, B * B)
  BY <1>1, <1>4, ProductIsThrice
<1>6. X \in Nat /\ Y \in Nat
  OBVIOUS
<1>7. x \in Nat /\ y \in Nat
  <2> HIDE DEF x, y
  <2> QED
    BY <1>3, <1>4 DEF Near, Abs
<1>8. Near(al, x + y)
  BY <1>7, RoundedIsNear DEF \oplus
<1>9. Thrice(x, X) /\ Thrice(y, Y)
  BY <1>5
<1> HIDE DEF x, y, X, Y, al
<1>10. Lift(al, X + Y)
  BY <1>6, <1>7, <1>8, <1>9 DEF Near, Abs, Lift, Thrice
<1> QED
  BY <1>10 DEF al, x, y, a, b, X, Y

\* t stands for the term X of the determinant, and p for its weight in the
\* permanent.
Term(t, p, X) ==
  \E W \in Nat :
    /\ t \in Int /\ p \in Nat /\ X \in Int
    /\ 1000 * Abs(X - t) <= 146 * W
    /\ 1000 * Abs(t) <= 1032 * W
    /\ 4225 * p >= 4096 * W

LEMMA TermIsClose ==
  ASSUME NEW al, NEW AL, Lift(al, AL), NEW d, NEW D, Thrice(d, D),
         NEW e, NEW E, Thrice(e, E)
  PROVE  Term(al \otimes (d \ominus e), (Abs(d) \oplus Abs(e)) \otimes al, AL * (D - E))
<1> DEFINE P == Abs(d) + Abs(e)
           m == d \ominus e
           t == al \otimes m
           w == Abs(d) \oplus Abs(e)
           p == w \otimes al
           W == al * P
           M == D - E
           k == M - m
           r == AL - al
<1>1. /\ d \in Int /\ D \in Int /\ e \in Int /\ E \in Int
      /\ al \in Nat /\ AL \in Nat
  BY DEF Thrice, Lift
<1>2. P \in Nat /\ d - e \in Int /\ M \in Int /\ r \in Int
  BY <1>1 DEF Abs
<1>3. Near(m, d - e)
  BY <1>2, RoundedIsNear DEF \ominus
<1>4. Near(w, P)
  BY <1>2, RoundedIsNear DEF \oplus
<1>5. m \in Int /\ w \in Int
  BY <1>3, <1>4 DEF Near
<1> HIDE DEF m, w
<1>6. k \in Int /\ w \in Nat /\ 65 * w >= 64 * P
  BY <1>2, <1>4, <1>5 DEF Near, Abs
<1>7. -(66 * P) <= 65 * m /\ 65 * m <= 66 * P
  BY <1>1, <1>3, <1>5 DEF Near, Abs
<1>8. -(1048 * P) <= 1000 * M /\ 1000 * M <= 1048 * P
  BY <1>1 DEF Thrice, Abs
<1>9. -(63 * P) <= 1000 * k /\ 1000 * k <= 63 * P
  <2>1. 65 * (m - (d - e)) <= P /\ -(65 * (m - (d - e))) <= P
    BY <1>1, <1>3, <1>5 DEF Near, Abs
  <2>2. 262144 * (M - (d - e)) <= 12481 * P /\ -(262144 * (M - (d - e))) <= 12481 * P
    BY <1>1 DEF Thrice, Abs
  <2> QED
    BY <1>1, <1>2, <1>5, <2>1, <2>2
<1>10. -(64 * al) <= 1000 * r /\ 1000 * r <= 64 * al
  BY <1>1 DEF Lift, Abs
<1> HIDE DEF P, M
<1>11. W \in Nat /\ al * m \in Int /\ al * w \in Nat /\ w * al = al * w
  BY <1>1, <1>2, <1>5, <1>6
<1>12. Near(t, al * m) /\ Near(p, al * w)
  BY <1>11, RoundedIsNear DEF \otimes
<1> DEFINE am == al * m
           aw == al * w
           ak == al * k
           rM == r * M
<1>13. 65 * aw >= 64 * W
  <2>1. al * (65 * w - 64 * P) >= 0
    BY <1>1, <1>2, <1>6
  <2>2. al * (65 * w - 64 * P) = 65 * aw - 64 * W
    BY <1>1, <1>2, <1>6
  <2> QED
    BY <1>1, <1>2, <1>6, <2>1, <2>2
<1>14. -(66 * W) <= 65 * am /\ 65 * am <= 66 * W
  <2>1. al * (65 * m) = 65 * am /\ al * (66 * P) = 66 * W
    BY <1>1, <1>2, <1>5
  <2>2. -(al * (66 * P)) <= al * (65 * m) /\ al * (65 * m) <= al * (66 * P)
    <3>1. 66 * P \in Nat /\ 65 * m \in Int /\ -al <= al
      BY <1>1, <1>2, <1>5
    <3> QED
      BY <1>1, <1>7, <3>1, ProductBound
  <2> QED
    BY <2>1, <2>2
<1>15. -(63 * W) <= 1000 * ak /\ 1000 * ak <= 63 * W
  <2>1. al * (1000 * k) = 1000 * ak /\ al * (63 * P) = 63 * W
    <3> HIDE DEF k
    <3> QED
      BY <1>1, <1>2, <1>6
  <2>2. -(al * (63 * P)) <= al * (1000 * k) /\ al * (1000 * k) <= al * (63 * P)
    <3>1. 63 * P \in Nat /\ 1000 * k \in Int /\ -al <= al
      BY <1>1, <1>2, <1>6
    <3> QED
      BY <1>1, <1>9, <3>1, ProductBound
  <2> QED
    BY <2>1, <2>2
<1>16. -(67072 * W) <= 1000000 * rM /\ 1000000 * rM <= 67072 * W
  <2>1. (1000 * r) * (1000 * M) = 1000000 * rM /\ (64 * al) * (1048 * P) = 67072 * W
    <3> HIDE DEF r
    <3> QED
      BY <1>1, <1>2
  <2>2. /\ -((64 * al) * (1048 * P)) <= (1000 * r) * (1000 * M)
        /\ (1000 * r) * (1000 * M) <= (64 * al) * (1048 * P)
    <3>1. 64 * al \in Nat /\ 1048 * P \in Nat /\ 1000 * r \in Int /\ 1000 * M \in Int
      BY <1>1, <1>2
    <3> QED
      BY <1>8, <1>10, <3>1, ProductBound
  <2> QED
    BY <2>1, <2>2
<1>17. AL * M = am + ak + rM
  <2>1. AL = al + r /\ M = m + k
    BY <1>1, <1>2, <1>5
  <2>2. AL * M = al * M + rM
    <3> HIDE DEF r
    <3> QED
      BY <1>1, <1>2, <2>1
  <2>3. al * M = am + ak
    <3> HIDE DEF k
    <3> QED
      BY <1>1, <1>5, <1>6, <2>1
  <2> QED
    BY <2>2, <2>3
<1>18. am \in Int /\ aw \in Nat /\ ak \in Int /\ rM \in Int
  BY <1>1, <1>2, <1>6, <1>11
<1>19. Near(t, am) /\ Near(p, aw)
  BY <1>12
<1> HIDE DEF t, p, W, am, aw, ak, rM
<1>20. t \in Int /\ p \in Nat /\ AL * M \in Int
  BY <1>17, <1>18, <1>19 DEF Near, Abs
<1>21. 4225 * p >= 4096 * W
  BY <1>11, <1>13, <1>18, <1>19, <1>20 DEF Near, Abs
<1>22. 4225 * Abs(t - am) <= 66 * W
  BY <1>11, <1>14, <1>18, <1>19, <1>20 DEF Near, Abs
<1>23. 1000 * Abs(t) <= 1032 * W
  BY <1>11, <1>14, <1>18, <1>20, <1>22 DEF Abs
<1>24. 1000 * Abs(AL * M - t) <= 146 * W
  <2> DEFINE X == AL * M
  <2>1. X \in Int /\ X = am + ak + rM
    BY <1>17, <1>20
  <2> HIDE DEF X
  <2>2. 1000 * Abs(X - t) <= 146 * W
    BY <1>11, <1>15, <1>16, <1>18, <1>20, <1>22, <2>1 DEF Abs
  <2> QED
    BY <2>2 DEF X
<1> QED
  BY <1>11, <1>20, <1>21, <1>23, <1>24 DEF Term, t, p, m, w, M

\* 736 is a number of the format, and 1664 is rounded to no less.
LEMMA CircleBounds ==
  /\ IccErrBoundA = 736 /\ IccErrBound311 = 1664
  /\ Rounded(736) = 736
  /\ Rounded(1664) \in Int /\ Rounded(1664) >= 736
<1>1. IccErrBoundA = 736 /\ IccErrBound311 = 1664
  BY FormatNumbers DEF IccErrBoundA, IccErrBound311
<1>2. Ulp[736] = 16
  <2>1. \A m \in Nat : Ulp[m] = IF m < 64 THEN 1 ELSE 2 * Ulp[m \div 2]
    BY UlpEquation, FormatNumbers
  <2>2. Ulp[46] = 1
    BY <2>1
  <2>3. Ulp[92] = 2 * Ulp[46]
    BY <2>1
  <2>4. Ulp[184] = 2 * Ulp[92]
    BY <2>1
  <2>5. Ulp[368] = 2 * Ulp[184]
    BY <2>1
  <2>6. Ulp[736] = 2 * Ulp[368]
    BY <2>1
  <2> QED
    BY <2>2, <2>3, <2>4, <2>5, <2>6
<1>3. NearestMultiple(736, 16) = 736
  BY DEF NearestMultiple
<1>4. Rounded(736) = 736
  BY <1>2, <1>3 DEF Rounded, Abs
<1>5. Near(Rounded(1664), 1664)
  BY RoundedIsNear
<1>6. Rounded(1664) \in Int /\ Rounded(1664) >= 736
  BY <1>5 DEF Near, Abs
<1> QED
  BY <1>1, <1>4, <1>6

\* A determinant that reaches the bound is larger than what it may be off.
LEMMA ReachedIsCertain ==
  ASSUME NEW t1, NEW t2, NEW t3, NEW p1, NEW p2, NEW p3, NEW X1, NEW X2, NEW X3,
         Term(t1, p1, X1), Term(t2, p2, X2), Term(t3, p3, X3),
         NEW k \in Int, k >= 736,
         Reaches((t1 \oplus t2) \oplus t3, k \otimes ((p1 \oplus p2) \oplus p3))
  PROVE  Sign((t1 \oplus t2) \oplus t3) = Sign(X1 + X2 + X3)
<1> DEFINE s == t1 \oplus t2
           det == s \oplus t3
           ps == p1 \oplus p2
           perm == ps \oplus p3
           bound == k \otimes perm
<1>1. /\ t1 \in Int /\ t2 \in Int /\ t3 \in Int
      /\ p1 \in Nat /\ p2 \in Nat /\ p3 \in Nat
      /\ X1 \in Int /\ X2 \in Int /\ X3 \in Int
  BY DEF Term
<1>2. PICK W1 \in Nat : /\ 1000 * Abs(X1 - t1) <= 146 * W1 /\ 1000 * Abs(t1) <= 1032 * W1
                        /\ 4225 * p1 >= 4096 * W1
  BY DEF Term
<1>3. PICK W2 \in Nat : /\ 1000 * Abs(X2 - t2) <= 146 * W2 /\ 1000 * Abs(t2) <= 1032 * W2
                        /\ 4225 * p2 >= 4096 * W2
  BY DEF Term
<1>4. PICK W3 \in Nat : /\ 1000 * Abs(X3 - t3) <= 146 * W3 /\ 1000 * Abs(t3) <= 1032 * W3
                        /\ 4225 * p3 >= 4096 * W3
  BY DEF Term
<1> DEFINE PM == W1 + W2 + W3
           n == s + t3
           X == X1 + X2 + X3
<1>5. Near(s, t1 + t2) /\ Near(ps, p1 + p2)
  BY <1>1, RoundedIsNear DEF \oplus
<1>6. s \in Int /\ ps \in Int
  BY <1>5 DEF Near
<1> HIDE DEF s, ps
<1>7. ps \in Nat /\ 65 * ps >= 64 * (p1 + p2)
  BY <1>1, <1>5, <1>6 DEF Near, Abs
<1>8. n \in Int /\ Near(det, n)
  BY <1>1, <1>6, RoundedIsNear DEF \oplus
<1>9. ps + p3 \in Nat /\ Near(perm, ps + p3)
  BY <1>1, <1>7, RoundedIsNear DEF \oplus
<1> HIDE DEF det, perm
<1>10. det \in Int /\ perm \in Nat /\ 65 * perm >= 64 * (ps + p3)
  BY <1>8, <1>9 DEF Near, Abs
<1>11. 1000 * perm >= 939 * PM
  BY <1>1, <1>2, <1>3, <1>4, <1>7, <1>10
<1>12. k * perm \in Int /\ k * perm >= 736 * perm
  BY <1>10
<1>13. Near(bound, k * perm)
  BY <1>12, RoundedIsNear DEF \otimes
<1>14. 4096 * Abs(det) >= bound
  BY <1>10, FormatNumbers DEF Reaches, Abs, det, perm, s, ps
<1> DEFINE kp == k * perm
<1>15. kp \in Int /\ kp >= 736 * perm /\ Near(bound, kp)
  BY <1>12, <1>13
<1> HIDE DEF bound, kp
<1>16. 65 * bound >= 64 * (736 * perm) /\ bound \in Int
  BY <1>10, <1>15 DEF Near, Abs
<1>17. 66 * Abs(n) >= 65 * Abs(det)
  BY <1>8, <1>10 DEF Near, Abs
<1>18. PM \in Nat /\ X \in Int
  BY <1>1, <1>2, <1>3, <1>4
<1>19. 1000 * Abs(X - n) <= 162 * PM
  <2>1. 1000 * Abs(X - (t1 + t2 + t3)) <= 146 * PM
    BY <1>1, <1>2, <1>3, <1>4 DEF Abs
  <2>2. 1000 * Abs(t1 + t2) <= 1032 * (W1 + W2)
    BY <1>1, <1>2, <1>3 DEF Abs
  <2>3. 65 * Abs(s - (t1 + t2)) <= Abs(t1 + t2)
    BY <1>5 DEF Near
  <2>4. 65000 * Abs(s - (t1 + t2)) <= 1032 * PM
    <3> DEFINE u == t1 + t2
               off == Abs(s - u)
               absu == Abs(u)
    <3>1. u \in Int /\ off \in Nat /\ absu \in Nat
      BY <1>1, <1>6 DEF Abs
    <3> HIDE DEF u, off, absu
    <3>2. 65 * off <= absu /\ 1000 * absu <= 1032 * (W1 + W2)
      BY <2>2, <2>3 DEF u, off, absu
    <3>3. 65000 * off <= 1032 * PM
      BY <1>2, <1>3, <1>4, <3>1, <3>2
    <3> QED
      BY <3>3 DEF off, u
  <2> DEFINE v == X - (t1 + t2 + t3)
             w == s - (t1 + t2)
  <2>5. v \in Int /\ w \in Int /\ X - n = v - w
    BY <1>1, <1>6, <1>18
  <2> HIDE DEF v, w, X, n, PM
  <2>6. 1000 * Abs(v) <= 146 * PM /\ 65000 * Abs(w) <= 1032 * PM
    BY <2>1, <2>4 DEF v, w
  <2>7. 1000 * Abs(v - w) <= 162 * PM
    BY <1>18, <2>5, <2>6 DEF Abs
  <2> QED
    BY <2>5, <2>7
<1> HIDE DEF PM, n, X
<1>20. PM = 0 \/ 1000 * Abs(n) > 162 * PM
  <2> DEFINE absn == Abs(n)
             absdet == Abs(det)
  <2>1. absn \in Nat /\ absdet \in Nat
    BY <1>8, <1>10 DEF Abs
  <2>2. 66 * absn >= 65 * absdet /\ 4096 * absdet >= bound
    BY <1>14, <1>17
  <2> HIDE DEF absn, absdet
  <2>3. PM = 0 \/ 1000 * absn > 162 * PM
    BY <1>10, <1>11, <1>16, <1>18, <2>1, <2>2
  <2> QED
    BY <2>3 DEF absn
<1>21. (n > 0 <=> X > 0) /\ (n < 0 <=> X < 0)
  BY <1>8, <1>18, <1>19, <1>20 DEF Abs
<1>22. (det > 0 <=> n > 0) /\ (det < 0 <=> n < 0)
  BY <1>8, <1>10 DEF Near, Abs
<1>23. Sign(det) = Sign(X)
  BY <1>8, <1>10, <1>18, <1>21, <1>22 DEF Sign
<1> QED
  BY <1>23 DEF det, s, X

Quad(q) == Len(q) = 4 /\ \A i \in 1..4 : q[i] \in Int \X Int

\* The determinant of Stage A and its permanent, term by term.
LEMMA StageTerms ==
  ASSUME NEW q, Quad(q)
  PROVE  \E t1, t2, t3, p1, p2, p3, X1, X2, X3 :
           /\ Term(t1, p1, X1) /\ Term(t2, p2, X2) /\ Term(t3, p3, X3)
           /\ StageA(q).det = (t1 \oplus t2) \oplus t3
           /\ StageA(q).permanent = (p1 \oplus p2) \oplus p3
           /\ \A v : v.points = q => Truth(v) = Sign(X1 + X2 + X3)
<1> DEFINE ax == q[1][1] - q[4][1]   ay == q[1][2] - q[4][2]
           bx == q[2][1] - q[4][1]   by == q[2][2] - q[4][2]
           cx == q[3][1] - q[4][1]   cy == q[3][2] - q[4][2]
           Lifted(x, y) == (Rounded(x) \otimes Rounded(x)) \oplus (Rounded(y) \otimes Rounded(y))
           Prod(x, y) == Rounded(x) \otimes Rounded(y)
           T(al, d, e) == al \otimes (d \ominus e)
           P(al, d, e) == (Abs(d) \oplus Abs(e)) \otimes al
<1>1. /\ ax \in Int /\ ay \in Int /\ bx \in Int /\ by \in Int /\ cx \in Int /\ cy \in Int
      /\ Len(q) = 4
  BY DEF Quad
<1>2. StageA(q).det =
        (T(Lifted(ax, ay), Prod(bx, cy), Prod(cx, by))
           \oplus T(Lifted(bx, by), Prod(cx, ay), Prod(ax, cy)))
          \oplus T(Lifted(cx, cy), Prod(ax, by), Prod(bx, ay))
  BY DEF StageA, \ominus
<1>3. StageA(q).permanent =
        (P(Lifted(ax, ay), Prod(bx, cy), Prod(cx, by))
           \oplus P(Lifted(bx, by), Prod(cx, ay), Prod(ax, cy)))
          \oplus P(Lifted(cx, cy), Prod(ax, by), Prod(bx, ay))
  BY DEF StageA, \ominus
<1>4. \A v : v.points = q =>
        Truth(v) = Sign((ax * ax + ay * ay) * (bx * cy - cx * by)
                          + (bx * bx + by * by) * (cx * ay - ax * cy)
                          + (cx * cx + cy * cy) * (ax * by - bx * ay))
  <2> SUFFICES ASSUME NEW v, v.points = q
               PROVE  Truth(v) = Sign((ax * ax + ay * ay) * (bx * cy - cx * by)
                                        + (bx * bx + by * by) * (cx * ay - ax * cy)
                                        + (cx * cx + cy * cy) * (ax * by - bx * ay))
    OBVIOUS
  <2>1. Len(v.points) # 3
    BY <1>1
  <2> QED
    BY <2>1, Zenon DEF Truth
<1> HIDE DEF ax, ay, bx, by, cx, cy
<1>5. ASSUME NEW x \in Int, NEW y \in Int PROVE Lift(Lifted(x, y), x * x + y * y)
  <2>1. Lift((Rounded(x) \otimes Rounded(x)) \oplus (Rounded(y) \otimes Rounded(y)),
             x * x + y * y)
    BY LiftIsClose
  <2> QED
    BY <2>1
<1>6. ASSUME NEW x \in Int, NEW y \in Int PROVE Thrice(Prod(x, y), x * y)
  <2>1. Near(Rounded(x), x) /\ Near(Rounded(y), y)
    BY RoundedIsNear
  <2>2. Rounded(x) * Rounded(y) \in Int
    BY <2>1 DEF Near
  <2>3. Near(Prod(x, y), Rounded(x) * Rounded(y))
    BY <2>2, RoundedIsNear DEF \otimes
  <2> HIDE DEF Prod
  <2> QED
    BY <2>1, <2>3, ProductIsThrice
<1> HIDE DEF Lifted, Prod
<1>7. \A x, y, u, v, w, z \in Int :
        Term(T(Lifted(x, y), Prod(u, v), Prod(w, z)), P(Lifted(x, y), Prod(u, v), Prod(w, z)),
             (x * x + y * y) * (u * v - w * z))
  BY <1>5, <1>6, TermIsClose
<1> HIDE DEF T, P
<1>8. /\ Term(T(Lifted(ax, ay), Prod(bx, cy), Prod(cx, by)),
              P(Lifted(ax, ay), Prod(bx, cy), Prod(cx, by)),
              (ax * ax + ay * ay) * (bx * cy - cx * by))
      /\ Term(T(Lifted(bx, by), Prod(cx, ay), Prod(ax, cy)),
              P(Lifted(bx, by), Prod(cx, ay), Prod(ax, cy)),
              (bx * bx + by * by) * (cx * ay - ax * cy))
      /\ Term(T(Lifted(cx, cy), Prod(ax, by), Prod(bx, ay)),
              P(Lifted(cx, cy), Prod(ax, by), Prod(bx, ay)),
              (cx * cx + cy * cy) * (ax * by - bx * ay))
  BY <1>1, <1>7
<1> QED
  BY <1>2, <1>3, <1>4, <1>8

LEMMA CircleClaimsAreExact ==
  ASSUME NEW v, Quad(v.points)
  PROVE  /\ StageA1094(v.points) \subseteq {Truth(v)}
         /\ StageA1212(v.points) \subseteq {Truth(v)}
         /\ StageA311(v.points) \subseteq {Truth(v)}
<1> DEFINE q == v.points
           det == StageA(q).det
           Bound(k) == Rounded(k) \otimes StageA(q).permanent
<1>1. PICK t1, t2, t3, p1, p2, p3, X1, X2, X3 :
        /\ Term(t1, p1, X1) /\ Term(t2, p2, X2) /\ Term(t3, p3, X3)
        /\ StageA(q).det = (t1 \oplus t2) \oplus t3
        /\ StageA(q).permanent = (p1 \oplus p2) \oplus p3
        /\ \A w : w.points = q => Truth(w) = Sign(X1 + X2 + X3)
  BY StageTerms
<1>2. Truth(v) = Sign(X1 + X2 + X3)
  BY <1>1
<1>3. ASSUME NEW k \in {736, 1664}, Reaches(det, Bound(k)) PROVE Sign(det) = Truth(v)
  <2>1. Rounded(k) \in Int /\ Rounded(k) >= 736
    BY CircleBounds
  <2>2. Reaches((t1 \oplus t2) \oplus t3, Rounded(k) \otimes ((p1 \oplus p2) \oplus p3))
    BY <1>1, <1>3
  <2>3. Sign((t1 \oplus t2) \oplus t3) = Sign(X1 + X2 + X3)
    BY <1>1, <2>1, <2>2, ReachedIsCertain
  <2> QED
    BY <1>1, <1>2, <2>3
<1>4. ASSUME NEW k \in {736, 1664}, Exceeds(det, Bound(k)) PROVE Reaches(det, Bound(k))
  <2>1. Rounded(k) \in Int
    BY CircleBounds
  <2> DEFINE perm == StageA(q).permanent
  <2>2. perm \in Int /\ det \in Int
    <3>1. /\ t1 \in Int /\ t2 \in Int /\ t3 \in Int
          /\ p1 \in Int /\ p2 \in Int /\ p3 \in Int
      BY <1>1 DEF Term
    <3>2. \A n \in Int : Rounded(n) \in Int
      BY RoundedIsNear DEF Near
    <3>3. Rounded(t1 + t2) \in Int /\ Rounded(p1 + p2) \in Int
      BY <3>1, <3>2
    <3>4. Rounded(Rounded(t1 + t2) + t3) \in Int /\ Rounded(Rounded(p1 + p2) + p3) \in Int
      BY <3>1, <3>2, <3>3
    <3> QED
      BY <1>1, <3>4 DEF \oplus
  <2> HIDE DEF perm, det
  <2>3. Rounded(k) * perm \in Int
    BY <2>1, <2>2
  <2>4. Near(Rounded(k) \otimes perm, Rounded(k) * perm)
    BY <2>3, RoundedIsNear DEF \otimes
  <2>5. Exceeds(det, Rounded(k) \otimes perm)
    BY <1>4 DEF perm
  <2> DEFINE bound == Rounded(k) \otimes perm
  <2>6. bound \in Int /\ Exceeds(det, bound)
    BY <2>4, <2>5 DEF Near
  <2> HIDE DEF bound
  <2>7. Reaches(det, bound)
    BY <2>2, <2>6, FormatNumbers DEF Reaches, Exceeds, Abs
  <2> QED
    BY <2>7 DEF bound, perm
<1>5. /\ StageA1094(q) = IF Reaches(det, Bound(736)) THEN {Sign(det)} ELSE {}
      /\ StageA1212(q) = IF Exceeds(det, Bound(736)) THEN {Sign(det)} ELSE {}
      /\ StageA311(q) = IF Exceeds(det, Bound(1664)) THEN {Sign(det)} ELSE {}
  BY CircleBounds DEF StageA1094, StageA1212, StageA311, StrictlyCertain, Claim
<1> HIDE DEF det, Bound
<1> QED
  BY <1>3, <1>4, <1>5

-----------------------------------------------------------------------------
(* The rows are certain only of the truth *)

LEMMA LineVectors ==
  ASSUME NEW v \in Bank1093
  PROVE  /\ v.points \in (Int \X Int) \X (Int \X Int) \X (Int \X Int)
         /\ Truth(v) = OrientExact(v.points)
<1>1. v.points \in (Int \X Int) \X (Int \X Int) \X (Int \X Int)
  <2>1. CASE \E p \in LineSites : v = Open(p)
    BY <2>1, LineSitesAssumption DEF Open
  <2>2. CASE \A p \in LineSites : v # Open(p)
    BY <2>2 DEF Bank1093, Pinned
  <2> QED
    BY <2>1, <2>2
<1>2. Len(v.points) = 3
  BY <1>1
<1> QED
  BY <1>1, <1>2 DEF Truth

LEMMA FourthPoint ==
  ASSUME NEW a \in Int \X Int, NEW b \in Int \X Int, NEW c \in Int \X Int, NEW d \in Int \X Int
  PROVE  Quad(Append(<<a, b, c>>, d))
BY DEF Quad

LEMMA CornersAreQuads == \A v \in CorpusPins : Quad(v.points)
<1> DEFINE triangle == <<<<0, 0>>, <<8, 0>>, <<0, 8>>>>
           square == <<<<0, 0>>, <<4, 0>>, <<4, 4>>>>
<1> SUFFICES ASSUME NEW v \in CorpusPins
             PROVE  Quad(v.points)
  OBVIOUS
<1> USE DEF Pinned
<1>1. CASE v \in {Pinned(Append(triangle, triangle[i]), "ZERO") : i \in 1..3}
  <2>1. PICK i \in 1..3 : v.points = Append(triangle, triangle[i])
    BY <1>1
  <2>2. triangle[i] \in Int \X Int
    OBVIOUS
  <2> QED
    BY <2>1, <2>2, FourthPoint
<1>2. CASE v = Pinned(Append(square, <<0, 4>>), "ZERO")
  BY <1>2, FourthPoint
<1>3. CASE v = Pinned(<<<<0, 0>>, <<4, 0>>, <<0, 4>>, <<4, 4>>>>, "ZERO")
  BY <1>3 DEF Quad
<1>4. CASE v = Pinned(Append(square, <<0, 3>>), "POS")
  BY <1>4, FourthPoint
<1>5. CASE v = Pinned(Append(square, <<0, 5>>), "NEG")
  BY <1>5, FourthPoint
<1>6. CASE v = Pinned(FlipWitness, "POS")
  BY <1>6 DEF FlipWitness, Quad
<1>7. CASE v = Pinned(<<<<0, 0>>, <<4, 0>>, <<2, 2>>, <<2, -4>>>>, "NEG")
  BY <1>7 DEF Quad
<1> HIDE DEF Pinned
<1> QED
  BY <1>1, <1>2, <1>3, <1>4, <1>5, <1>6, <1>7 DEF CorpusPins

LEMMA CircleVectors ==
  ASSUME NEW v \in Bank1094 \cup Bank1212 \cup Bank311
  PROVE  Quad(v.points)
<1>1. v \in SitePins => Quad(v.points)
  BY DEF SitePins, Site, Pinned, Quad
<1>2. ASSUME NEW q \in CircleSites, v = Open(q) PROVE Quad(v.points)
  BY <1>2, CircleSitesAssumption DEF Open, Quad
<1>3. v = Pinned(<<<<0, 0>>, <<8, 0>>, <<4, 4>>, <<4, -2>>>>, "POS") => Quad(v.points)
  BY DEF Pinned, Quad
<1> QED
  BY <1>1, <1>2, <1>3, CornersAreQuads DEF Bank1094, Bank1212, Bank311, Lane

LEMMA BankClaimsAreExact ==
  ASSUME NEW v
  PROVE  /\ v \in Bank("1093") => Filters1093(v.points) \subseteq {Truth(v)}
         /\ v \in Bank("1094") => StageA1094(v.points) \subseteq {Truth(v)}
         /\ v \in Bank("1212") => StageA1212(v.points) \subseteq {Truth(v)}
         /\ v \in Bank("311") => StageA311(v.points) \subseteq {Truth(v)}
<1>1. v \in Bank1093 => Filters1093(v.points) \subseteq {Truth(v)}
  BY LineVectors, OrientationClaimsAreExact
<1>2. v \in Bank1094 \cup Bank1212 \cup Bank311 =>
        /\ StageA1094(v.points) \subseteq {Truth(v)}
        /\ StageA1212(v.points) \subseteq {Truth(v)}
        /\ StageA311(v.points) \subseteq {Truth(v)}
  BY CircleVectors, CircleClaimsAreExact
<1> QED
  BY <1>1, <1>2 DEF Bank

LEMMA RecordKeepsExact ==
  ASSUME SInv, CertainIsExact, NEW token, NEW soft, NEW claims, NEW bad,
         Record(token, soft, claims, bad), claims \subseteq {Truth(Head(todo))}
  PROVE  CertainIsExact'
<1> DEFINE row == [vector |-> Head(todo), token |-> token,
                   soft |-> soft, claims |-> claims]
<1>1. rows' = Append(rows, row) /\ rows \in Seq(Row)
  BY DEF Record, SInv
<1>2. row.claims \subseteq {Truth(row.vector)}
  OBVIOUS
<1> HIDE DEF row
<1>3. \A i \in DOMAIN rows' :
        rows'[i] = row \/ (i \in DOMAIN rows /\ rows'[i] = rows[i])
  BY <1>1
<1> QED
  BY <1>2, <1>3 DEF CertainIsExact

LEMMA NextKeepsExact ==
  ASSUME SInv, CertainIsExact, [Next]_vars
  PROVE  CertainIsExact'
<1> DEFINE v == Head(todo)
<1>1. ASSUME rows' = rows PROVE CertainIsExact'
  BY <1>1 DEF CertainIsExact
<1>2. todo # << >> => v \in Bank(script)
  BY DEF SInv
<1>3. CASE UNCHANGED vars \/ Pinned1093 \/ Pinned1094 \/ PinnedOracle \/ Finish
  BY <1>1, <1>3 DEF vars, Pinned1093, Pinned1094, PinnedOracle, Finish, Stop
<1>4. CASE Row1093
  <2>1. \/ Stop("crash")
        \/ \E token, soft, bad : Record(token, soft, Filters1093(v.points), bad)
    BY <1>4 DEF Row1093
  <2>2. Filters1093(v.points) \subseteq {Truth(v)}
    BY <1>2, <1>4, BankClaimsAreExact DEF Row1093, Asking
  <2> QED
    BY <1>1, <2>1, <2>2, RecordKeepsExact DEF Stop
<1>5. CASE Row1094
  <2>1. \/ Stop("crash")
        \/ \E token, soft, bad : Record(token, soft, StageA1094(v.points), bad)
    BY <1>5 DEF Row1094
  <2>2. StageA1094(v.points) \subseteq {Truth(v)}
    BY <1>2, <1>5, BankClaimsAreExact DEF Row1094, Asking
  <2> QED
    BY <1>1, <2>1, <2>2, RecordKeepsExact DEF Stop
<1>6. CASE Row1212
  <2>1. \/ Stop("crash")
        \/ \E token, soft, bad : Record(token, soft, StageA1212(v.points), bad)
    BY <1>6 DEF Row1212
  <2>2. StageA1212(v.points) \subseteq {Truth(v)}
    BY <1>2, <1>6, BankClaimsAreExact DEF Row1212, Asking
  <2> QED
    BY <1>1, <2>1, <2>2, RecordKeepsExact DEF Stop
<1>7. CASE Row311
  <2>1. \/ Stop("crash")
        \/ \E token, soft, bad : Record(token, soft, StageA311(v.points), bad)
    BY <1>7 DEF Row311
  <2>2. StageA311(v.points) \subseteq {Truth(v)}
    BY <1>2, <1>7, BankClaimsAreExact DEF Row311, Asking
  <2> QED
    BY <1>1, <2>1, <2>2, RecordKeepsExact DEF Stop
<1> QED
  BY <1>3, <1>4, <1>5, <1>6, <1>7 DEF Next

\* Of a run of the orientation scout: an oracle that has only told the truth
\* has failed nothing.
LineInv ==
  script = "1093" =>
    /\ phase = "pin" => exit = "running" /\ ~ failed
    /\ honest => ~ failed /\ exit \in {"running", "green"}

LEMMA NextKeepsLineInv ==
  ASSUME SInv, LineInv, [Next]_vars
  PROVE  LineInv'
<1> SUFFICES ASSUME script' = "1093" PROVE LineInv'
  BY DEF LineInv
<1>1. script' = script
  BY DEF Next, vars, Pinned1093, Pinned1094, PinnedOracle, Row1093, Row1094, Row1212, Row311,
         Finish, Stop, Record, setting
<1>2. /\ phase = "pin" => exit = "running" /\ ~ failed
      /\ honest => ~ failed /\ exit \in {"running", "green"}
  BY <1>1 DEF LineInv
<1>3. CASE UNCHANGED vars
  BY <1>1, <1>2, <1>3 DEF vars, LineInv
<1>4. CASE Pinned1093
  <2>1. failed' = failed
    BY <1>4 DEF Pinned1093, Stop
  <2>2. phase' # "pin" /\ (honest' => exit' = exit /\ phase = "pin")
    BY <1>4 DEF Pinned1093, Stop
  <2> QED
    BY <1>2, <2>1, <2>2 DEF LineInv
<1>5. CASE Row1093
  <2> DEFINE v == Head(todo)
  <2>1. todo # << >> /\ phase = "rows" /\ v \in Bank("1093")
    BY <1>1, <1>5 DEF Row1093, Asking, SInv
  <2>2. PICK r \in OrientReplies :
          /\ honest' = (honest /\ r = OrientExact(v.points))
          /\ IF r = "error"
             THEN Stop("crash")
             ELSE Record(r, FALSE, Filters1093(v.points),
                    \/ r \in {"POS", "NEG"} /\ ~ Filters1093(v.points) \subseteq {r}
                    \/ v.expected \notin {"open", r})
    BY <1>5 DEF Row1093
  <2>3. CASE r = "error"
    <3>1. ~ honest'
      BY <2>2, <2>3, SignIsSign DEF OrientExact, Signs
    <3>2. phase' = "ended"
      BY <2>2, <2>3 DEF Stop
    <3> QED
      BY <1>2, <3>1, <3>2 DEF LineInv
  <2>4. CASE r # "error"
    <3> DEFINE bad == \/ r \in {"POS", "NEG"} /\ ~ Filters1093(v.points) \subseteq {r}
                      \/ v.expected \notin {"open", r}
    <3>1. failed' = (failed \/ bad) /\ phase' = phase /\ exit' = exit
      BY <2>2, <2>4 DEF Record
    <3>2. ASSUME honest' PROVE ~ bad
      <4>1. r = Truth(v)
        BY <2>1, <2>2, <3>2, LineVectors DEF Bank
      <4>2. v.expected \in {"open", Truth(v)}
        BY <2>1, BanksAreWellPinned DEF WellPinned
      <4>3. Filters1093(v.points) \subseteq {Truth(v)}
        BY <2>1, BankClaimsAreExact
      <4> QED
        BY <4>1, <4>2, <4>3
    <3> HIDE DEF bad
    <3> QED
      BY <1>2, <2>1, <2>2, <3>1, <3>2 DEF LineInv
  <2> QED
    BY <2>3, <2>4
<1>6. CASE Finish
  BY <1>2, <1>6 DEF Finish, LineInv
<1>7. CASE Pinned1094 \/ PinnedOracle \/ Row1094 \/ Row1212 \/ Row311
  BY <1>1, <1>7 DEF Pinned1094, PinnedOracle, Row1094, Row1212, Row311, Asking
<1> QED
  BY <1>3, <1>4, <1>5, <1>6, <1>7 DEF Next

LEMMA LineInvariant == Spec => []LineInv
<1>1. Init => LineInv
  BY DEF Init, LineInv
<1>2. SInv /\ LineInv /\ [Next]_vars => LineInv'
  BY NextKeepsLineInv
<1> QED
  BY <1>1, <1>2, ScoutsInvariant, PTL DEF Spec

(* A filter that says CERTAIN has the sign of the exact determinant, for   *)
(* any vectors of whole coordinates: its error bound covers the roundings  *)
(* of the differences, the products, the sums and of the bound itself      *)
(* (stage_a_ozaki, stage_a_jts_master, stage_a_shewchuk, stage_a_1094,     *)
(* stage_a of #1212 and stage_a_311).                                      *)
THEOREM FiltersAreExact == Spec => []CertainIsExact
<1>1. Init => CertainIsExact
  BY DEF Init, CertainIsExact
<1>2. SInv /\ CertainIsExact /\ [Next]_vars => CertainIsExact'
  BY NextKeepsExact
<1> QED
  BY <1>1, <1>2, ScoutsInvariant, PTL DEF Spec

(* After "GATE: ..." every answer to a pinned vector was its true sign,    *)
(* and none was opposite to the truth where a filter was certain: for any  *)
(* open vectors, and whatever the oracle and the probe answered.           *)
THEOREM GreenRunsAreTrue == Spec => []GreenMeansTrue
BY AcceptedIsTrue, FiltersAreExact, ScoutsInvariant, PTL

(* An oracle that answers every vector of #1093 with the sign of the exact *)
(* determinant is failed by no filter and by no pin (main of the scout).   *)
THEOREM OrientationOracleIsNotBlamed ==
  Spec => [](script = "1093" => HonestOracleIsNotBlamed)
<1>1. LineInv => (script = "1093" => HonestOracleIsNotBlamed)
  BY DEF LineInv, HonestOracleIsNotBlamed
<1> QED
  BY <1>1, LineInvariant, PTL
=============================================================================
