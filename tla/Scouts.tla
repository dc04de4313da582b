-------------------------------- MODULE Scouts --------------------------------
(***************************************************************************)
(* A run of one of the four scouts of oracle/ (see ScoutFilters): it asks  *)
(* an oracle, and for #1094 an FFI probe, one pin first and then every     *)
(* vector of its bank, holds the answers against the filters and against   *)
(* the expected signs, writes a table and exits with a verdict.            *)
(*                                                                         *)
(* The oracle is a command found by path, environment or a fallback: it    *)
(* may be missing, of another build, or answer anything.                   *)
(***************************************************************************)
EXTENDS ScoutFilters

CONSTANTS
  Scripts,   \* the scouts this instance runs
  Followers  \* bound: the vectors that may come after a pin in a bank

ASSUME ScriptsAssumption == Scripts \subseteq {"1093", "1094", "1212", "311"}

VARIABLES
  script,   \* which scout runs
  parity,   \* #1094: not --skip-oracle-parity
  probe,    \* whether an FFI probe is used
  phase,    \* "pin", "rows" or "ended"
  todo,     \* the vectors still to ask
  rows,     \* the rows of the table so far
  failed,   \* failures is not empty
  table,    \* the table this run wrote, << >> when it wrote none
  exit,     \* "running", "green" (0), "red" (1), "fatal" (2) or "crash"
  honest    \* history: every answer so far was the oracle's own algorithm

vars == <<script, parity, probe, phase, todo, rows, failed, table, exit, honest>>
setting == <<script, parity>>

-----------------------------------------------------------------------------
(* Answers *)

Real(n) == [kind |-> "real", n |-> n]
NaN == [kind |-> "nan", n |-> 0]
Tiny == [kind |-> "tiny", n |-> 0]   \* positive, below 1e-9

SignOf(x) ==
  IF x = NaN THEN "NAN" ELSE IF x = Tiny THEN "POS" ELSE Sign(x.n)
Soft(x) == x = Tiny \/ x = Real(0)

(* The sign of the exact determinant. *)
OrientExact(p) ==
  Sign((p[2][1] - p[1][1]) * (p[3][2] - p[1][2])
         - (p[3][1] - p[1][1]) * (p[2][2] - p[1][2]))

(* The extracted in-circle determinant: rounded, in an order of its own. *)
B64InCircle(q) ==
  LET ax == q[1][1] \ominus q[4][1]   ay == q[1][2] \ominus q[4][2]
      bx == q[2][1] \ominus q[4][1]   by == q[2][2] \ominus q[4][2]
      cx == q[3][1] \ominus q[4][1]   cy == q[3][2] \ominus q[4][2]
      na == (ax \otimes ax) \oplus (ay \otimes ay)
      nb == (bx \otimes bx) \oplus (by \otimes by)
      nc == (cx \otimes cx) \oplus (cy \otimes cy)
  IN ((ax \otimes ((by \otimes nc) \ominus (cy \otimes nb)))
        \ominus (ay \otimes ((bx \otimes nc) \ominus (cx \otimes nb))))
       \oplus (na \otimes ((bx \otimes cy) \ominus (cx \otimes by)))

Answer(token, x) == [kind |-> "answer", token |-> token, value |-> x]
Error == [kind |-> "error"]     \* RuntimeError: exit code, too few words
Broken == [kind |-> "broken"]   \* anything else: time-out, not a number
Answered(r) == r.kind = "answer"

(* run_orient_exact: one of four tokens, or an exception. *)
OrientReplies == Signs \cup {"NAN", "error"}

(* run_oracle, run_oracle_bin: the first word is taken as it stands. *)
HonestReply(q) == LET n == B64InCircle(q) IN Answer(Sign(n), Real(n))
Replies(q) ==
  {HonestReply(q), Answer("POS", Real(16)), Answer("NEG", Real(-16)),
   Answer("POS", Tiny), Answer("NAN", NaN), Answer("junk", Real(16)),
   Error, Broken}

(* run_ffi_probe: the determinant, or an exception. *)
Probes(q) ==
  {Answer(SignOf(x), x) :
     x \in {Real(B64InCircle(q)), Real(16), Real(-16), Tiny, NaN}} \cup {Error}

SameBits(r, s) == r.value = s.value

-----------------------------------------------------------------------------
(* Resolution of the commands: only #1093 can do without its probe. *)
Probed(s) == IF s = "1093" THEN BOOLEAN ELSE {s = "1094"}

(* The bank, cut to a vector or to a pin and a follower. *)
Runs(s) ==
  {<<v>> : v \in Bank(s)}
  \cup {<<v, w>> : v \in {x \in Bank(s) : x.expected # "open"},
                   w \in Followers \cap Bank(s)}

Init ==
  /\ script \in Scripts
  /\ parity \in (IF script = "1094" THEN BOOLEAN ELSE {FALSE})
  /\ probe \in Probed(script)
  /\ todo \in Runs(script)
  /\ phase = "pin"
  /\ rows = << >>
  /\ failed = FALSE
  /\ table = << >>
  /\ exit = "running"
  /\ honest = TRUE

\* Bug: the table is written on the way out, whatever happened.
Stop_Writes(code) ==
  /\ exit' = code
  /\ phase' = "ended"
  /\ table' = rows
  /\ UNCHANGED <<setting, probe, todo, rows, failed>>

Stop(code) ==
  /\ exit' = code
  /\ phase' = "ended"
  /\ UNCHANGED <<setting, probe, todo, rows, failed, table>>

-----------------------------------------------------------------------------
(* The pin *)

(* An answer of POS 1.5: the flip witness is scaled by 16. *)
PinHolds(r) == /\ Answered(r)
               /\ r.token = "POS"
               /\ r.value \in {Real(24), NaN}

Pinned1093 ==
  /\ script = "1093" /\ phase = "pin"
  /\ \E r \in OrientReplies :
       /\ honest' = (r = "POS")
       /\ \/ /\ r # "POS"
             /\ Stop("fatal")
          \/ /\ r = "POS"
             /\ phase' = "rows"
             /\ probe' \in {probe, FALSE}     \* a probe that fails is dropped
             /\ UNCHANGED <<setting, todo, rows, failed, table, exit>>

Pinned1094 ==
  /\ script = "1094" /\ phase = "pin"
  /\ \E f \in Probes(FlipWitness), r \in Replies(FlipWitness) :
       /\ honest' = (f = HonestReply(FlipWitness)
                       /\ (parity => r = HonestReply(FlipWitness)))
       /\ IF PinHolds(f) /\ (parity => PinHolds(r) /\ SameBits(f, r))
          THEN /\ phase' = "rows"
               /\ UNCHANGED <<setting, probe, todo, rows, failed, table, exit>>
          ELSE Stop("fatal")

PinnedOracle ==
  /\ script \in {"1212", "311"} /\ phase = "pin"
  /\ \E r \in Replies(FlipWitness) :
       /\ honest' = (r = HonestReply(FlipWitness))
       /\ IF PinHolds(r)
          THEN /\ phase' = "rows"
               /\ UNCHANGED <<setting, probe, todo, rows, failed, table, exit>>
          ELSE Stop("fatal")

-----------------------------------------------------------------------------
(* The rows *)

Asking(s) == script = s /\ phase = "rows" /\ todo # << >>

(* One row of the table, and whether the vector added to failures. *)
Record(token, soft, claims, bad) ==
  /\ rows' = Append(rows, [vector |-> Head(todo), token |-> token,
                           soft |-> soft, claims |-> claims])
  /\ todo' = Tail(todo)
  /\ failed' = (failed \/ bad)
  /\ UNCHANGED <<setting, probe, phase, table, exit>>

\* Bug: a value near zero passes for any expected sign.
Unexpected_SoftAnything(v, token, x) ==
  v.expected # "open" /\ token # v.expected /\ ~ Soft(x)

(* The in-circle scouts let a value near zero pass for ZERO. *)
Unexpected(v, token, x) ==
  /\ v.expected # "open"
  /\ token # v.expected
  /\ ~ (v.expected = "ZERO" /\ Soft(x))

(* A claim and an answer, both non-zero, that disagree. *)
Conflict(claims, token) == \E c \in claims : Opposite(c, token)

Row1093 ==
  /\ Asking("1093")
  /\ \E r \in OrientReplies :
       LET v == Head(todo)
           claims == Filters1093(v.points)
       IN /\ honest' = (honest /\ r = OrientExact(v.points))
          /\ IF r = "error"
             THEN Stop("crash")
             ELSE Record(r, FALSE, claims,
                    \/ r \in {"POS", "NEG"} /\ ~ claims \subseteq {r}
                    \/ v.expected \notin {"open", r})

Row1094 ==
  /\ Asking("1094")
  /\ LET v == Head(todo)
         claims == StageA1094(v.points)
     IN \E f \in Probes(v.points), r \in Replies(v.points) :
          /\ honest' = (/\ honest
                        /\ f = HonestReply(v.points)
                        /\ parity => r = HonestReply(v.points))
          /\ IF ~ Answered(f) \/ (parity /\ ~ Answered(r))
             THEN Stop("crash")
             ELSE Record(f.token, Soft(f.value), claims,
                    \/ parity /\ ~ SameBits(f, r)
                    \/ Conflict(claims, f.token)
                    \/ Unexpected(v, f.token, f.value))

Row1212 ==
  /\ Asking("1212")
  /\ LET v == Head(todo)
         claims == StageA1212(v.points)
     IN \E r \in Replies(v.points) :
          /\ honest' = (honest /\ r = HonestReply(v.points))
          /\ IF ~ Answered(r)
             THEN Stop("crash")
             ELSE Record(r.token, Soft(r.value), claims,
                    \/ Conflict(claims, r.token)
                    \/ Unexpected(v, r.token, r.value))

(* #311 turns an error into a row, and looks at an answer only when it is a sign. *)
Row311 ==
  /\ Asking("311")
  /\ LET v == Head(todo)
         claims == StageA311(v.points)
     IN \E r \in Replies(v.points) :
          /\ honest' = (honest /\ r = HonestReply(v.points))
          /\ \/ r = Broken /\ Stop("crash")
             \/ r = Error /\ Record("ERR", FALSE, claims, TRUE)
             \/ /\ Answered(r)
                /\ Record(r.token, Soft(r.value), claims,
                     /\ r.token \in Signs
                     /\ \/ Conflict(claims, r.token)
                        \/ Unexpected(v, r.token, r.value))

(* The table is written once, after the last row, whatever the verdict. *)
Finish ==
  /\ phase = "rows" /\ todo = << >>
  /\ table' = rows
  /\ exit' = IF failed THEN "red" ELSE "green"
  /\ phase' = "ended"
  /\ UNCHANGED <<setting, probe, todo, rows, failed, honest>>

Next == \/ Pinned1093 \/ Pinned1094 \/ PinnedOracle
        \/ Row1093 \/ Row1094 \/ Row1212 \/ Row311
        \/ Finish

Spec == Init /\ [][Next]_vars

-----------------------------------------------------------------------------
(* Properties *)

Row == [vector : Bank(script), token : Signs \cup {"NAN", "ERR", "junk"},
        soft : BOOLEAN, claims : SUBSET Signs]

(* Types; and a run that fails before its last row leaves the table of an  *)
(* earlier run in place, while a run with a verdict has written its own.   *)
TypeOK ==
  /\ script \in Scripts
  /\ {parity, probe, failed, honest} \subseteq BOOLEAN
  /\ phase \in {"pin", "rows", "ended"}
  /\ \A i \in DOMAIN todo : todo[i] \in Bank(script)
  /\ \A i \in DOMAIN rows : rows[i] \in Row
  /\ exit \in {"running", "green", "red", "fatal", "crash"}
  /\ (exit = "running") = (phase # "ended")
  /\ table = IF exit \in {"green", "red"} THEN rows ELSE << >>

Truth(v) ==
  IF Len(v.points) = 3 THEN OrientExact(v.points)
  ELSE LET ax == v.points[1][1] - v.points[4][1]
           ay == v.points[1][2] - v.points[4][2]
           bx == v.points[2][1] - v.points[4][1]
           by == v.points[2][2] - v.points[4][2]
           cx == v.points[3][1] - v.points[4][1]
           cy == v.points[3][2] - v.points[4][2]
       IN Sign((ax * ax + ay * ay) * (bx * cy - cx * by)
                 + (bx * bx + by * by) * (cx * ay - ax * cy)
                 + (cx * cx + cy * cy) * (ax * by - bx * ay))

(* A filter that says CERTAIN has the sign of the exact determinant, on    *)
(* every vector of a bank, however the arithmetic rounded (stage_a_* of    *)
(* the four scouts).                                                       *)
CertainIsExact ==
  \A i \in DOMAIN rows : rows[i].claims \subseteq {Truth(rows[i].vector)}

(* An oracle that runs its own algorithm never fails a run: neither a pin  *)
(* nor a filter's CERTAIN sign disagrees with it, although the in-circle   *)
(* oracle is itself rounded and sums in another order than the filter.     *)
HonestOracleIsNotBlamed == honest => exit \in {"running", "green"}

(* After "GATE: ..." every answer to a pinned vector was the true sign, or *)
(* near zero where the truth is zero, and no answer was opposite to the    *)
(* truth where a filter was certain.  #311 is held to it only where the    *)
(* oracle answered a sign.                                                 *)
GreenMeansTrue ==
  exit = "green" =>
    \A i \in DOMAIN rows :
      LET row == rows[i]
          truth == Truth(row.vector)
      IN /\ row.vector.expected # "open" /\ (script = "311" => row.token \in Signs)
              => row.token = truth \/ (truth = "ZERO" /\ row.soft)
         /\ row.claims # {} => ~ Opposite(row.token, truth)
=============================================================================
