----------------------------- MODULE ScoutFilters -----------------------------
(***************************************************************************)
(* The floating-point filters of JTS that the scouts of oracle/ mirror, and*)
(* the banks of vectors they are judged on: gen_jts1093_orient_scout.py for*)
(* the orientation predicate, gen_jts1094_incircle_scout.py,               *)
(* gen_jts1212_incircle_vectors.py and gen_jts311_incircle_history.py for  *)
(* the in-circle predicate.  A filter claims a sign when it is certain.    *)
(*                                                                         *)
(* binary64 is modelled by a binary format of Precision bits, rounding to  *)
(* nearest, ties to even, without overflow or underflow; u = 2^-Precision. *)
(* Its numbers are integers: coordinates are doubled, so that the halves   *)
(* of the pins are whole.  Error bounds are scaled by 4^Precision.         *)
(***************************************************************************)
EXTENDS Integers, Sequences, FiniteSets

CONSTANTS
  LineSites,   \* orientation vectors without an expected sign
  CircleSites  \* in-circle vectors without an expected sign

ASSUME LineSitesAssumption ==
  LineSites \subseteq (Int \X Int) \X (Int \X Int) \X (Int \X Int)

ASSUME CircleSitesAssumption ==
  CircleSites \subseteq (Int \X Int) \X (Int \X Int) \X (Int \X Int) \X (Int \X Int)

Precision == 6
Signs == {"POS", "NEG", "ZERO"}

-----------------------------------------------------------------------------
(* Arithmetic *)

Abs(n) == IF n < 0 THEN -n ELSE n

\* The weight of the last bit of m.
Ulp[m \in Nat] == IF m < 2 ^ Precision THEN 1 ELSE 2 * Ulp[m \div 2]

NearestMultiple(m, ulp) ==
  LET q == m \div ulp
      twice == 2 * (m % ulp)
  IN IF twice > ulp \/ (twice = ulp /\ q % 2 = 1) THEN (q + 1) * ulp ELSE q * ulp

Rounded(n) ==
  LET r == NearestMultiple(Abs(n), Ulp[Abs(n)]) IN IF n < 0 THEN -r ELSE r

a \oplus b == Rounded(a + b)
a \ominus b == Rounded(a - b)
a \otimes b == Rounded(a * b)

Sign(n) == IF n > 0 THEN "POS" ELSE IF n < 0 THEN "NEG" ELSE "ZERO"
Opposite(s, t) == {s, t} = {"POS", "NEG"}

(* Whether |det| reaches, or exceeds, a scaled bound. *)
Reaches(det, bound) == Abs(det) * 4 ^ Precision >= bound
Exceeds(det, bound) == Abs(det) * 4 ^ Precision > bound

-----------------------------------------------------------------------------
(* Orientation filters.  A vector's points are <<a, b, q>>. *)

OzakiK == 3 * 2 ^ Precision + 16               \* 3u - (phi - 22)u^2, phi = 6
DPSafeEpsilon == 9 * 2 ^ Precision             \* 1e-15 is about 9u
\* Bug: u as Math.ulp(0.25), half of Shewchuk's.
CcwErrBoundA_HalfEps == (3 * 2 ^ Precision + 16) \div 2

CcwErrBoundA == 3 * 2 ^ Precision + 16         \* (3 + 16u)u

DetParts(p) ==
  LET ax == p[1][1] \ominus p[3][1]   ay == p[1][2] \ominus p[3][2]
      bx == p[2][1] \ominus p[3][1]   by == p[2][2] \ominus p[3][2]
  IN <<ax \otimes by, ay \otimes bx>>

Claim(certain, det) == IF certain THEN {Sign(det)} ELSE {}

Ozaki(d) ==
  LET det == d[1] \ominus d[2]
  IN Claim(Reaches(det, Rounded(OzakiK) \otimes Abs(d[1] \oplus d[2])), det)

Detsum(d, k) ==
  LET det == d[1] \ominus d[2]
      mixed == ~ (d[1] > 0 /\ d[2] > 0) /\ ~ (d[1] < 0 /\ d[2] < 0)
      sum == Abs(d[1]) \oplus Abs(d[2])
  IN Claim(mixed \/ Reaches(det, Rounded(k) \otimes sum), det)

JtsMaster(p) == Detsum(DetParts(p), DPSafeEpsilon)
ShewchukOrient(p) == Detsum(DetParts(p), CcwErrBoundA)
Filters1093(p) == JtsMaster(p) \cup ShewchukOrient(p) \cup Ozaki(DetParts(p))

-----------------------------------------------------------------------------
(* In-circle filters.  A vector's points are <<a, b, c, p>>. *)

\* Bug: the machine epsilon alone.
IccErrBoundA_Epsilon == 2 ^ Precision

IccErrBoundA == 10 * 2 ^ Precision + 96        \* (10 + 96u)u
IccErrBound311 == 20 * 2 ^ Precision + 4 * 96  \* (10 + 96v)v, v = 2u

(* The determinant of Stage A and its permanent. *)
StageA(q) ==
  LET adx == q[1][1] \ominus q[4][1]   ady == q[1][2] \ominus q[4][2]
      bdx == q[2][1] \ominus q[4][1]   bdy == q[2][2] \ominus q[4][2]
      cdx == q[3][1] \ominus q[4][1]   cdy == q[3][2] \ominus q[4][2]
      bc == bdx \otimes cdy   cb == cdx \otimes bdy
      ca == cdx \otimes ady   ac == adx \otimes cdy
      ab == adx \otimes bdy   ba == bdx \otimes ady
      alift == (adx \otimes adx) \oplus (ady \otimes ady)
      blift == (bdx \otimes bdx) \oplus (bdy \otimes bdy)
      clift == (cdx \otimes cdx) \oplus (cdy \otimes cdy)
  IN [det |-> ((alift \otimes (bc \ominus cb)) \oplus (blift \otimes (ca \ominus ac)))
                \oplus (clift \otimes (ab \ominus ba)),
      permanent |->
        (((Abs(bc) \oplus Abs(cb)) \otimes alift)
           \oplus ((Abs(ca) \oplus Abs(ac)) \otimes blift))
          \oplus ((Abs(ab) \oplus Abs(ba)) \otimes clift)]

StrictlyCertain(q, k) ==
  LET s == StageA(q)
  IN Claim(Exceeds(s.det, Rounded(k) \otimes s.permanent), s.det)

StageA1094(q) ==
  LET s == StageA(q)
  IN Claim(Reaches(s.det, Rounded(IccErrBoundA) \otimes s.permanent), s.det)
StageA1212(q) == StrictlyCertain(q, IccErrBoundA)
StageA311(q) == StrictlyCertain(q, IccErrBound311)

-----------------------------------------------------------------------------
(* Banks of vectors: [points, expected]; "open" where no sign is expected. *)

Pinned(points, sign) == [points |-> points, expected |-> sign]
Open(points) == [points |-> points, expected |-> "open"]

Bank1093 ==
  {Pinned(<<<<0, 0>>, <<2, 0>>, <<0, 2>>>>, "POS"),
   Pinned(<<<<0, 0>>, <<0, 2>>, <<2, 0>>>>, "NEG"),
   Pinned(<<<<0, 0>>, <<4, 4>>, <<2, 2>>>>, "ZERO"),
   Pinned(<<<<0, 0>>, <<8, 0>>, <<0, 6>>>>, "POS"),
   Pinned(<<<<0, 0>>, <<8, 0>>, <<8, 0>>>>, "ZERO"),
   Pinned(<<<<0, 2>>, <<2, 0>>, <<0, 0>>>>, "NEG"),
   Pinned(<<<<2, 4>>, <<2, 4>>, <<6, 8>>>>, "ZERO"),
   Pinned(<<<<0, 0>>, <<24, 0>>, <<0, 24>>>>, "POS")}
  \cup {Open(p) : p \in LineSites}

FlipWitness == <<<<0, 0>>, <<4, 0>>, <<2, 2>>, <<2, -1>>>>

CorpusPins ==
  LET triangle == <<<<0, 0>>, <<8, 0>>, <<0, 8>>>>
      square == <<<<0, 0>>, <<4, 0>>, <<4, 4>>>>
  IN {Pinned(Append(triangle, triangle[i]), "ZERO") : i \in 1..3}
     \cup {Pinned(Append(square, <<0, 4>>), "ZERO"),
           Pinned(<<<<0, 0>>, <<4, 0>>, <<0, 4>>, <<4, 4>>>>, "ZERO"),
           Pinned(Append(square, <<0, 3>>), "POS"),
           Pinned(Append(square, <<0, 5>>), "NEG"),
           Pinned(FlipWitness, "POS"),
           Pinned(<<<<0, 0>>, <<4, 0>>, <<2, 2>>, <<2, -4>>>>, "NEG")}

(* Every in-circle bank adds the vertices of a site of JTS and open quads. *)
Site == <<<<-7, -3>>, <<5, -6>>, <<2, 8>>>>
SitePins == {Pinned(Append(Site, Site[i]), "ZERO") : i \in 1..3}
Lane == SitePins \cup {Open(q) : q \in CircleSites}

Bank1212 == CorpusPins \cup Lane
             \cup {Pinned(<<<<0, 0>>, <<8, 0>>, <<4, 4>>, <<4, -2>>>>, "POS")}
Bank1094 == CorpusPins \cup Lane
Bank311 == CorpusPins \cup Lane

Bank(s) ==
  IF s = "1093" THEN Bank1093
  ELSE IF s = "1094" THEN Bank1094
  ELSE IF s = "1212" THEN Bank1212
  ELSE Bank311

=============================================================================
