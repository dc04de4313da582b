--------------------------- MODULE DxfExtractProofs ---------------------------
(***************************************************************************)
(* Proofs about DxfExtract, for every document, option and mode: the walk  *)
(* nests no deeper than there are blocks, every record is one the schema   *)
(* accepts, a run that ends well has written all of its rows, and the rows *)
(* answer the entities of the document in reading order, where the drawing *)
(* has them.                                                               *)
(***************************************************************************)
EXTENDS DxfExtractInv, Recursion, FiniteSetTheorems, SequenceTheorems,
        WellFoundedInduction, TLAPS

-----------------------------------------------------------------------------
(* Lists *)

LEMMA ListDomain ==
  ASSUME NEW s, List(s)
  PROVE  /\ Len(s) \in Nat
         /\ DOMAIN s = 1..Len(s)
         /\ \A i \in 1..Len(s) : s[i] \in Range(s)
  BY LenProperties DEF List, Range

LEMMA ListFinite ==
  ASSUME NEW s, List(s)
  PROVE  IsFiniteSet(Range(s))
  <1>1. Len(s) \in Nat /\ DOMAIN s = 1..Len(s)
    BY ListDomain
  <1> DEFINE f == [i \in 1..Len(s) |-> s[i]]
  <1>2. f \in Surjection(1..Len(s), Range(s))
    BY <1>1 DEF Surjection, Range
  <1>3. IsFiniteSet(1..Len(s))
    BY <1>1, FS_Interval
  <1> HIDE DEF f
  <1> QED
    BY <1>2, <1>3, FS_Surjection

LEMMA ListOf ==
  ASSUME NEW S, NEW s \in Seq(S)
  PROVE  List(s) /\ Range(s) \subseteq S
  BY SeqOfRange, RangeOfSeq DEF List

LEMMA ListConcat ==
  ASSUME NEW s, NEW t, List(s), List(t)
  PROVE  /\ List(s \o t)
         /\ Range(s \o t) = Range(s) \cup Range(t)
  <1> DEFINE S == Range(s) \cup Range(t)
  <1>1. s \in Seq(S) /\ t \in Seq(S)
    BY SeqMonotonic DEF List
  <1> HIDE DEF S
  <1>2. s \o t \in Seq(S)
    BY <1>1, ConcatProperties
  <1>3. Range(s \o t) = Range(s) \cup Range(t)
    BY <1>1, RangeConcatenation
  <1>4. QED
    BY <1>2, <1>3, ListOf

LEMMA ListAppend ==
  ASSUME NEW s, NEW x, List(s)
  PROVE  /\ List(Append(s, x))
         /\ Range(Append(s, x)) = Range(s) \cup {x}
         /\ Len(Append(s, x)) = Len(s) + 1
         /\ Append(s, x)[Len(s) + 1] = x
         /\ \A i \in 1..Len(s) : Append(s, x)[i] = s[i]
  <1> DEFINE S == Range(s) \cup {x}
  <1>1. s \in Seq(S) /\ x \in S
    BY SeqMonotonic DEF List
  <1> HIDE DEF S
  <1>2. /\ Append(s, x) \in Seq(S)
        /\ Len(Append(s, x)) = Len(s) + 1 /\ Len(s) \in Nat
        /\ Append(s, x)[Len(s) + 1] = x
        /\ \A i \in 1..Len(s) : Append(s, x)[i] = s[i]
    BY <1>1
  <1>3. Range(Append(s, x)) = {Append(s, x)[i] : i \in 1..(Len(s) + 1)}
    BY <1>2, RangeEquality
  <1>4. Range(s) = {s[i] : i \in 1..Len(s)}
    BY <1>1, RangeEquality
  <1>5. Range(Append(s, x)) = Range(s) \cup {x}
    BY <1>2, <1>3, <1>4
  <1>6. QED
    BY <1>2, <1>5, ListOf

LEMMA ListHeadTail ==
  ASSUME NEW s, List(s), s # <<>>
  PROVE  /\ Head(s) \in Range(s)
         /\ List(Tail(s)) /\ Range(Tail(s)) \subseteq Range(s)
  <1>1. Head(s) \in Range(s) /\ Tail(s) \in Seq(Range(s))
    BY HeadTailProperties DEF List
  <1>2. QED
    BY <1>1, ListOf

\* A list built over the positions of another.
LEMMA ListMap ==
  ASSUME NEW s, List(s), NEW t, DOMAIN t = DOMAIN s, t = [i \in DOMAIN s |-> t[i]]
  PROVE  List(t) /\ Len(t) = Len(s)
  <1>1. Len(s) \in Nat /\ DOMAIN s = 1..Len(s)
    BY ListDomain
  <1>2. t \in [1..Len(s) -> Range(t)]
    BY <1>1 DEF Range
  <1>3. t \in Seq(Range(t))
    BY <1>1, <1>2, SeqDef
  <1>4. QED
    BY <1>1, <1>2, <1>3, LenProperties DEF List

\* A set of positions has a first one: what "the first that is refused" means.
LEMMA LeastOf ==
  ASSUME NEW T, T \subseteq Nat, T # {}
  PROVE  \E m \in T : \A k \in T : m <= k
  <1> DEFINE R == {ss \in Nat \X Nat : ss[1] < ss[2]}
  <1>1. IsWellFoundedOn(R, Nat)
    BY NatLessThanWellFounded DEF OpToRel
  <1>0. \A a, b \in Nat : a < b => <<a, b>> \in R
    <2> TAKE a, b \in Nat
    <2> DEFINE ss == <<a, b>>
    <2>1. ss \in Nat \X Nat /\ ss[1] = a /\ ss[2] = b
      OBVIOUS
    <2> HIDE DEF ss
    <2>2. a < b => ss \in R
      BY <2>1
    <2>3. QED
      BY <2>2 DEF ss
  <1> HIDE DEF R
  <1>2. PICK m \in T : \A k \in T : ~(<<k, m>> \in R)
    BY <1>1, WFMin
  <1>3. \A k \in T : m <= k
    <2> TAKE k \in T
    <2>1. k \in Nat /\ m \in Nat
      OBVIOUS
    <2>2. ~(<<k, m>> \in R)
      BY <1>2
    <2>3. ~(k < m)
      BY <1>0, <2>1, <2>2, Zenon
    <2>4. QED
      BY <2>1, <2>3
  <1>4. QED
    BY <1>3

-----------------------------------------------------------------------------
(* Figures *)

LEMMA DegenerateDeclined == Declined(Degenerate)
  BY DEF Declined, Degenerate, Decline

LEMMA DeclineDeclined ==
  ASSUME NEW id
  PROVE  Declined(Decline(id))
  BY DEF Declined, Decline

\* A figure without members is sound if its own numbers and sizes are.
LEMMA FigureSound ==
  ASSUME NEW kind, NEW elevation, NEW nums, NEW positive, NEW sizes,
         AllFinite(nums), FigureValid(Figure(kind, elevation, nums, positive, sizes))
  PROVE  Sound(Figure(kind, elevation, nums, positive, sizes))
  <1> DEFINE f == Figure(kind, elevation, nums, positive, sizes)
  <1>1. f.members = <<>> /\ f.nums = nums
    BY DEF Figure
  <1>2. Range(f.members) = {}
    BY <1>1 DEF Range
  <1> HIDE DEF f
  <1>3. Sound(f)
    BY <1>1, <1>2 DEF Sound, f
  <1>4. QED
    BY <1>3 DEF f

\* Kinds whose sizes the schema leaves free: only positivity is at stake.
LEMMA PlainValid ==
  ASSUME NEW kind \in {"Chord", "Arc", "Circle"}, NEW elevation, NEW nums, NEW positive,
         NEW sizes, \A x \in positive : Finite(x) /\ x > 0
  PROVE  FigureValid(Figure(kind, elevation, nums, positive, sizes))
  BY DEF FigureValid, Figure

LEMMA LineSound ==
  ASSUME NEW e
  PROVE  Declined(MapLine(e)) \/ Sound(MapLine(e))
  <1> DEFINE nums == XY(e.start) \cup XY(e.end)
             zs == ConstZ({e.start[3], e.end[3]})
  <1>1. CASE MapLine(e) = zs /\ Declined(zs)
    BY <1>1
  <1>2. CASE MapLine(e) = Degenerate
    BY <1>2, DegenerateDeclined
  <1>3. CASE AllFinite(nums) /\ MapLine(e) = Figure("Chord", zs.z, nums, {}, <<>>)
    BY <1>3, FigureSound, PlainValid
  <1>4. QED
    BY <1>1, <1>2, <1>3 DEF MapLine

LEMMA ArcSound ==
  ASSUME NEW e, e.radius \in Number
  PROVE  Declined(MapArc(e)) \/ Sound(MapArc(e))
  <1> DEFINE nums == XY(e.center) \cup {e.radius, e.from, e.to}
             zs == ConstZ({e.center[3]})
  <1>1. CASE MapArc(e) = zs /\ Declined(zs)
    BY <1>1
  <1>2. CASE MapArc(e) = Degenerate
    BY <1>2, DegenerateDeclined
  <1>3. CASE /\ AllFinite(nums) /\ ~(e.radius <= 0)
             /\ MapArc(e) = Figure("Arc", zs.z, nums, {e.radius}, <<>>)
    <2>1. Finite(e.radius) /\ e.radius > 0
      BY <1>3 DEF AllFinite, Finite, Number
    <2>2. QED
      BY <1>3, <2>1, FigureSound, PlainValid
  <1>4. QED
    BY <1>1, <1>2, <1>3 DEF MapArc

LEMMA CircleSound ==
  ASSUME NEW e, e.radius \in Number
  PROVE  Declined(MapCircle(e)) \/ Sound(MapCircle(e))
  <1> DEFINE nums == XY(e.center) \cup {e.radius}
             zs == ConstZ({e.center[3]})
  <1>1. CASE MapCircle(e) = zs /\ Declined(zs)
    BY <1>1
  <1>2. CASE MapCircle(e) = Degenerate
    BY <1>2, DegenerateDeclined
  <1>3. CASE /\ AllFinite(nums) /\ ~(e.radius <= 0)
             /\ MapCircle(e) = Figure("Circle", zs.z, nums, {e.radius}, <<>>)
    <2>1. Finite(e.radius) /\ e.radius > 0
      BY <1>3 DEF AllFinite, Finite, Number
    <2>2. QED
      BY <1>3, <2>1, FigureSound, PlainValid
  <1>4. QED
    BY <1>1, <1>2, <1>3 DEF MapCircle

LEMMA EllipseSound ==
  ASSUME NEW e, NEW mode, XY(e.major) \subseteq Number
  PROVE  Declined(MapEllipse(e, mode)) \/ Sound(MapEllipse(e, mode))
  <1> DEFINE r == Radius(e.major)
             nums == XY(e.center) \cup {r, e.from, e.to}
             zs == ConstZ({e.center[3], e.major[3]})
  <1>1. CASE MapEllipse(e, mode) = zs /\ Declined(zs)
    BY <1>1
  <1>2. CASE MapEllipse(e, mode) \in {Degenerate, Decline("ID_EllipseNotYet")}
    BY <1>2, DegenerateDeclined, DeclineDeclined
  <1>3. CASE /\ AllFinite(nums) /\ ~(r <= 0)
             /\ MapEllipse(e, mode) = Figure("Arc", zs.z, nums, {r}, <<>>)
    <2>1. Finite(r) /\ r > 0
      <3>1. r \in Number
        BY DEF Radius, Number, XY, AllFinite
      <3>2. QED
        BY <1>3, <3>1 DEF AllFinite, Finite, Number
    <2>2. QED
      BY <1>3, <2>1, FigureSound, PlainValid
  <1>4. QED
    BY <1>1, <1>2, <1>3 DEF MapEllipse

-----------------------------------------------------------------------------
(* Segments, chains and contours *)

LEMMA SegmentFinite ==
  ASSUME NEW s, SegmentOk(s)
  PROVE  AllFinite(SegmentNums(s))
  BY DEF SegmentOk, SegmentNums

\* The numbers of segments that were all tested are finite.
LEMMA NumsFinite ==
  ASSUME NEW segments, \A s \in Range(segments) : SegmentOk(s)
  PROVE  AllFinite(NumsOf(segments))
  <1>1. \A s \in Range(segments) : NonFinite \notin SegmentNums(s)
    BY SegmentFinite DEF AllFinite
  <1>2. QED
    BY <1>1 DEF NumsOf, AllFinite

\* A run of points has as many segments as points, one less when it is open.
LEMMA SegmentCount ==
  ASSUME NEW points, List(points), NEW closed, BulgeSegmentsOk(points, closed)
  PROVE  /\ List(BulgeSegments(points, closed))
         /\ Len(BulgeSegments(points, closed)) \in Nat
         /\ Len(BulgeSegments(points, closed)) >= 1
         /\ closed => Len(BulgeSegments(points, closed)) >= 3
  <1> DEFINE n == IF closed THEN Len(points) ELSE Len(points) - 1
             t == BulgeSegments(points, closed)
  <1>1. n \in Nat /\ n >= 1 /\ (closed => n >= 3)
    BY ListDomain DEF BulgeSegmentsOk
  <1>2. DOMAIN t = 1..n /\ t = [i \in 1..n |-> t[i]]
    BY DEF BulgeSegments
  <1> HIDE DEF n, t
  <1>3. t \in Seq(Range(t))
    <2>1. t \in [1..n -> Range(t)]
      BY <1>2 DEF Range
    <2>2. QED
      BY <1>1, <2>1, SeqDef
  <1>4. Len(t) = n
    BY <1>1, <1>2, <1>3, LenProperties
  <1>5. QED
    BY <1>1, <1>3, <1>4 DEF List, t

LEMMA MemberSound ==
  ASSUME NEW s, SegmentOk(s)
  PROVE  FigureValid(ChainMember(s)) /\ AllFinite(ChainMember(s).nums)
  <1>1. CASE s.bulge = 0
    <2>1. AllFinite(XY(s.start) \cup XY(s.end))
      BY DEF SegmentOk, AllFinite
    <2>2. ChainMember(s) = Figure("Chord", 0, XY(s.start) \cup XY(s.end), {}, <<>>)
      BY <1>1 DEF ChainMember
    <2>3. ChainMember(s).nums = XY(s.start) \cup XY(s.end)
      BY <2>2 DEF Figure
    <2>4. QED
      BY <2>1, <2>2, <2>3, PlainValid
  <1>2. CASE s.bulge # 0
    <2>1. ChainMember(s) = Figure("BulgePolyline", 0, SegmentNums(s), {}, <<1>>)
      BY <1>2 DEF ChainMember
    <2>2. Range(<<1>>) = {1} /\ <<1>> # <<>>
      BY DEF Range
    <2>3. QED
      BY <2>1, <2>2, SegmentFinite DEF Figure, FigureValid
  <1>3. QED
    BY <1>1, <1>2

LEMMA PolylineSound ==
  ASSUME NEW e, List(e.vertices)
  PROVE  Declined(MapPolyline(e)) \/ Sound(MapPolyline(e))
  <1> DEFINE t == BulgeSegments(e.vertices, e.closed)
             f == [kind |-> "Compound", elevation |-> 0, nums |-> {}, positive |-> {},
                   sizes |-> <<Len(t)>>, members |-> [i \in DOMAIN t |-> ChainMember(t[i])],
                   orientation |-> <<>>]
  <1>1. CASE MapPolyline(e) \in {Degenerate, Decline("ID_ThreeDNotYet")}
    BY <1>1, DegenerateDeclined, DeclineDeclined
  <1>2. CASE BulgeSegmentsOk(e.vertices, e.closed) /\ MapPolyline(e) = f
    <2>1. List(t) /\ Len(t) >= 1
      BY <1>2, SegmentCount
    <2>2. \A s \in Range(t) : SegmentOk(s)
      BY <1>2 DEF BulgeSegmentsOk
    <2>3. \A m \in Range(f.members) : FigureValid(m) /\ AllFinite(m.nums)
      <3>1. \A m \in Range(f.members) : \E s \in Range(t) : m = ChainMember(s)
        BY DEF Range
      <3>2. QED
        BY <2>2, <3>1, MemberSound
    <2>4. Len(f.members) = Len(t)
      <3> DEFINE u == f.members
      <3>1. DOMAIN u = DOMAIN t /\ u = [i \in DOMAIN t |-> u[i]]
        OBVIOUS
      <3> HIDE DEF f, t, u
      <3>2. Len(u) = Len(t)
        BY <2>1, <3>1, ListMap
      <3>3. QED
        BY <3>2 DEF u
    <2>5. FigureValid(f)
      <3>1. Range(<<Len(t)>>) = {Len(t)} /\ <<Len(t)>> # <<>>
        BY DEF Range
      <3> HIDE DEF t
      <3>2. QED
        BY <2>1, <2>4, <3>1 DEF FigureValid
    <2>6. f.nums = {} /\ f.kind = "Compound"
      OBVIOUS
    <2> HIDE DEF f, t
    <2>7. Sound(f)
      BY <2>3, <2>5, <2>6 DEF Sound, AllFinite
    <2>8. QED
      BY <1>2, <2>7
  <1>3. QED
    BY <1>1, <1>2 DEF MapPolyline, Figure

-----------------------------------------------------------------------------
(* Rings and hatches *)

\* A contour that a Ring can be made of.
Contour(c) == Len(c) >= 3 /\ \A s \in Range(c) : SegmentOk(s)

LEMMA RingSound ==
  ASSUME NEW contours, List(contours), contours # <<>>, NEW elevation,
         \A c \in Range(contours) : Contour(c)
  PROVE  Declined(Ring(contours, elevation)) \/ Sound(Ring(contours, elevation))
  <1> DEFINE nums == UNION {NumsOf(c) : c \in Range(contours)}
             sizes == [i \in DOMAIN contours |-> Len(contours[i])]
             turns == [i \in DOMAIN contours |-> Orientation(contours[i])]
             f == [kind |-> "Ring", elevation |-> elevation, nums |-> nums, positive |-> {},
                   sizes |-> sizes, members |-> <<>>, orientation |-> turns]
  <1>1. CASE Ring(contours, elevation) = Degenerate
    BY <1>1, DegenerateDeclined
  <1>2. CASE Ring(contours, elevation) = f
    <2>1. AllFinite(nums)
      <3>1. \A c \in Range(contours) : NonFinite \notin NumsOf(c)
        BY NumsFinite DEF Contour, AllFinite
      <3>2. QED
        BY <3>1 DEF AllFinite
    <2>2. \A n \in Range(sizes) : n >= 3
      BY DEF Range, Contour
    <2>3. sizes # <<>>
      <3>1. DOMAIN contours # {}
        BY ListDomain, EmptySeq DEF List
      <3>2. DOMAIN sizes # {}
        BY <3>1
      <3>3. DOMAIN <<>> = {}
        OBVIOUS
      <3> HIDE DEF sizes
      <3>4. QED
        BY <3>2, <3>3, Zenon
    <2>4. Len(turns) = Len(sizes)
      <3>1. /\ DOMAIN turns = DOMAIN contours /\ turns = [i \in DOMAIN contours |-> turns[i]]
            /\ DOMAIN sizes = DOMAIN contours /\ sizes = [i \in DOMAIN contours |-> sizes[i]]
        OBVIOUS
      <3> HIDE DEF turns, sizes
      <3>2. Len(turns) = Len(contours) /\ Len(sizes) = Len(contours)
        BY <3>1, ListMap
      <3>3. QED
        BY <3>2
    <2> HIDE DEF nums, sizes, turns
    <2>5. f.kind = "Ring" /\ f.nums = nums /\ f.positive = {} /\ f.sizes = sizes
          /\ f.orientation = turns /\ f.members = <<>>
      OBVIOUS
    <2>6. Range(f.members) = {}
      BY <2>5 DEF Range
    <2> HIDE DEF f
    <2>7. FigureValid(f) /\ AllFinite(f.nums)
      BY <2>1, <2>2, <2>3, <2>4, <2>5 DEF FigureValid
    <2>8. Sound(f)
      BY <2>5, <2>6, <2>7 DEF Sound
    <2>9. QED
      BY <1>2, <2>8
  <1>3. QED
    BY <1>1, <1>2 DEF Ring, Figure

LEMMA LwPolylineSound ==
  ASSUME NEW e, NEW mode, List(e.points)
  PROVE  Declined(MapLwPolyline(e, mode)) \/ Sound(MapLwPolyline(e, mode))
  <1> DEFINE t == BulgeSegments(e.points, e.closed)
             f == Figure("BulgePolyline", e.elevation, NumsOf(t), {}, <<Len(t)>>)
  <1>1. CASE MapLwPolyline(e, mode) = Degenerate
    BY <1>1, DegenerateDeclined
  <1>2. CASE /\ BulgeSegmentsOk(e.points, e.closed) /\ e.closed
             /\ MapLwPolyline(e, mode) = Ring(<<t>>, e.elevation)
    <2>1. Contour(t)
      BY <1>2, SegmentCount DEF Contour, BulgeSegmentsOk
    <2>2. Range(<<t>>) = {t} /\ List(<<t>>) /\ <<t>> # <<>>
      BY DEF Range, List
    <2> HIDE DEF t
    <2>3. QED
      BY <1>2, <2>1, <2>2, RingSound
  <1>3. CASE BulgeSegmentsOk(e.points, e.closed) /\ MapLwPolyline(e, mode) = f
    <2>1. AllFinite(NumsOf(t))
      BY <1>3, NumsFinite DEF BulgeSegmentsOk
    <2>2. Len(t) >= 1
      BY <1>3, SegmentCount
    <2>3. Range(<<Len(t)>>) = {Len(t)} /\ <<Len(t)>> # <<>>
      BY DEF Range
    <2> HIDE DEF t
    <2>4. FigureValid(f)
      BY <2>2, <2>3 DEF FigureValid, Figure
    <2>5. QED
      BY <1>3, <2>1, <2>4, FigureSound
  <1>4. CASE BulgeSegmentsOk(e.points, e.closed)
    <2>1. \/ MapLwPolyline(e, mode) = Degenerate
          \/ e.closed /\ MapLwPolyline(e, mode) = Ring(<<t>>, e.elevation)
          \/ MapLwPolyline(e, mode) = f
      BY <1>4 DEF MapLwPolyline
    <2>2. QED
      BY <1>1, <1>2, <1>3, <1>4, <2>1
  <1>5. CASE ~BulgeSegmentsOk(e.points, e.closed)
    <2>1. MapLwPolyline(e, mode) = Degenerate
      BY <1>5 DEF MapLwPolyline
    <2>2. QED
      BY <1>1, <2>1
  <1>6. QED
    BY <1>4, <1>5

\* When the first refused edge is none, no edge is refused.
LEMMA EdgesAccepted ==
  ASSUME NEW edges, List(edges), EdgesDecline(edges) = "none", NEW i \in DOMAIN edges
  PROVE  EdgeDecline(edges[i]) = "none"
  <1> DEFINE bad == {j \in DOMAIN edges : EdgeDecline(edges[j]) # "none"}
  <1>1. bad \subseteq Nat
    BY ListDomain
  <1>2. CASE bad = {}
    BY <1>2
  <1>3. CASE bad # {}
    <2>1. EdgeDecline(edges[CHOOSE j \in bad : \A k \in bad : j <= k]) = "none"
      BY <1>3, Zenon DEF EdgesDecline
    <2>2. \E j \in bad : \A k \in bad : j <= k
      <3> HIDE DEF bad
      <3>1. QED
        BY <1>1, <1>3, LeastOf
    <2>3. (CHOOSE j \in bad : \A k \in bad : j <= k) \in bad
      <3> HIDE DEF bad
      <3>1. QED
        BY <2>2
    <2>4. QED
      BY <2>1, <2>3
  <1>4. QED
    BY <1>2, <1>3

\* A path that is not refused gives a contour.
LEMMA PathSound ==
  ASSUME NEW path, PathDecline(path) = "none",
         IF path.type = "PolylinePath" THEN List(path.points) ELSE List(path.edges)
  PROVE  Contour(PathContour(path))
  <1>1. CASE path.type = "PolylinePath"
    <2>1. PathContour(path) = BulgeSegments(path.points, TRUE)
      BY <1>1 DEF PathContour
    <2>2. BulgeSegmentsOk(path.points, TRUE)
      BY <1>1 DEF PathDecline
    <2>3. Len(BulgeSegments(path.points, TRUE)) >= 3
      BY <1>1, <2>2, SegmentCount
    <2>4. QED
      BY <2>1, <2>2, <2>3 DEF Contour, BulgeSegmentsOk
  <1>2. CASE path.type # "PolylinePath"
    <2> DEFINE c == PathContour(path)
               edges == path.edges
    <2>1. /\ DOMAIN c = DOMAIN edges /\ c = [i \in DOMAIN edges |-> c[i]]
          /\ \A i \in DOMAIN edges : c[i] = EdgeSegment(edges[i])
      BY <1>2 DEF PathContour
    <2>2. EdgesDecline(edges) = "none" /\ ~(Len(edges) < 3)
      BY <1>2 DEF PathDecline
    <2>3. \A i \in DOMAIN edges : EdgeDecline(edges[i]) = "none"
      BY <1>2, <2>2, EdgesAccepted
    <2>4. \A i \in DOMAIN edges : SegmentOk(EdgeSegment(edges[i]))
      BY <2>3 DEF EdgeDecline
    <2>5. List(edges) /\ Len(edges) \in Nat
      BY <1>2, ListDomain
    <2> HIDE DEF c, edges
    <2>6. Len(c) = Len(edges)
      BY <2>1, <2>5, ListMap
    <2>7. Contour(c)
      BY <2>1, <2>2, <2>4, <2>5, <2>6 DEF Contour, Range
    <2>8. QED
      BY <2>7 DEF c
  <1>3. QED
    BY <1>1, <1>2

LEMMA HatchSound ==
  ASSUME NEW e, e.type \in HatchTypes, Readable(e)
  PROVE  Declined(MapHatch(e)) \/ Sound(MapHatch(e))
  <1> DEFINE bad == {i \in DOMAIN e.paths : PathDecline(e.paths[i]) # "none"}
             contours == [i \in DOMAIN e.paths |-> PathContour(e.paths[i])]
  <1>1. CASE \E id : MapHatch(e) = Decline(id)
    BY <1>1, DeclineDeclined
  <1>2. CASE MapHatch(e) = Degenerate
    BY <1>2, DegenerateDeclined
  <1>3. CASE /\ e.paths # <<>> /\ bad = {}
             /\ MapHatch(e) = Ring(contours, e.elevation)
    <2>1. List(e.paths)
      BY DEF Readable
    <2>2. \A i \in DOMAIN e.paths : Contour(contours[i])
      <3>1. ASSUME NEW i \in DOMAIN e.paths
            PROVE  Contour(PathContour(e.paths[i]))
        <4>1. PathDecline(e.paths[i]) = "none"
          BY <1>3
        <4>2. e.paths[i] \in Range(e.paths)
          BY DEF Range
        <4>3. QED
          BY <4>1, <4>2, PathSound DEF Readable
      <3>2. QED
        BY <3>1
    <2>3. \A c \in Range(contours) : Contour(c)
      BY <2>2 DEF Range
    <2>4. DOMAIN contours = DOMAIN e.paths /\ contours = [i \in DOMAIN e.paths |-> contours[i]]
      OBVIOUS
    <2> HIDE DEF contours
    <2>5. List(contours) /\ Len(contours) = Len(e.paths)
      BY <2>1, <2>4, ListMap
    <2>6. contours # <<>>
      BY <1>3, <2>1, <2>5, EmptySeq DEF List
    <2>7. QED
      BY <1>3, <2>3, <2>5, <2>6, RingSound
  <1>4. CASE ~HatchRule(e) \/ e.paths = <<>>
    <2>1. MapHatch(e) = Decline("ID_HatchRegion")
      BY <1>4 DEF MapHatch
    <2>2. QED
      BY <1>1, <2>1
  <1>5. CASE HatchRule(e) /\ e.paths # <<>> /\ bad # {}
    <2>1. MapHatch(e) = Decline(PathDecline(e.paths[CHOOSE i \in bad : \A j \in bad : i <= j]))
      BY <1>5 DEF MapHatch
    <2>2. QED
      BY <1>1, <2>1
  <1>6. CASE HatchRule(e) /\ e.paths # <<>> /\ bad = {} /\ ~Finite(e.elevation)
    <2>1. MapHatch(e) = Degenerate
      BY <1>6, Zenon DEF MapHatch
    <2>2. QED
      BY <1>2, <2>1
  <1>7. CASE HatchRule(e) /\ e.paths # <<>> /\ bad = {} /\ Finite(e.elevation)
    <2>1. MapHatch(e) = Ring(contours, e.elevation)
      BY <1>7, Zenon DEF MapHatch
    <2>2. QED
      BY <1>3, <1>7, <2>1
  <1>8. QED
    BY <1>4, <1>5, <1>6, <1>7

-----------------------------------------------------------------------------
(* Splines, and every other entity *)

LEMMA SplineSound ==
  ASSUME NEW e, List(e.controls), e.degree \in Int
  PROVE  Declined(MapSpline(e)) \/ Sound(MapSpline(e))
  <1> DEFINE count == Len(e.controls)
             zs == ConstZ({p[3] : p \in Range(e.controls)})
             weights == SplineWeights(e, count)
             xys == UNION {XY(p) : p \in Range(e.controls)}
             bezier == Figure("Bezier", zs.z, xys, {}, <<count, 2 * (e.degree + 1)>>)
             spline == Figure("BSpline", zs.z, xys \cup Range(e.knots), Range(weights),
                              <<count, Len(e.knots)>>)
  <1>1. CASE \E id : MapSpline(e) = Decline(id)
    BY <1>1, DeclineDeclined
  <1>2. CASE MapSpline(e) = Degenerate
    BY <1>2, DegenerateDeclined
  <1>3. CASE MapSpline(e) = zs /\ Declined(zs)
    BY <1>3
  <1>4. CASE AllFinite(xys) /\ IsBezier(e, weights) /\ MapSpline(e) = bezier
    <2>1. count \in {3, 4} /\ 2 * (e.degree + 1) = 2 * count
      BY <1>4 DEF IsBezier
    <2> HIDE DEF count, xys, zs, weights
    <2>2. FigureValid(bezier)
      <3>1. /\ bezier.kind = "Bezier" /\ bezier.positive = {}
            /\ bezier.sizes[1] = count /\ bezier.sizes[2] = 2 * (e.degree + 1)
        BY DEF Figure
      <3> HIDE DEF bezier
      <3>2. QED
        BY <2>1, <3>1 DEF FigureValid
    <2>3. QED
      BY <1>4, <2>2, FigureSound
  <1>5. CASE /\ AllFinite(xys) /\ AllFinite(Range(e.knots))
             /\ KnotClamped(e.knots, e.degree, count) /\ SplineWeightsOk(weights, count)
             /\ MapSpline(e) = spline
    <2>1. count \in Nat
      BY ListDomain
    <2>2. count >= 2 /\ Len(e.knots) >= 4
      BY <1>5, <2>1 DEF KnotClamped
    <2>3. \A w \in Range(weights) : Finite(w) /\ w > 0
      BY <1>5 DEF SplineWeightsOk
    <2>4. AllFinite(xys \cup Range(e.knots))
      BY <1>5 DEF AllFinite
    <2> HIDE DEF count, xys, zs, weights
    <2>5. FigureValid(spline)
      <3>1. /\ spline.kind = "BSpline" /\ spline.positive = Range(weights)
            /\ spline.sizes[1] = count /\ spline.sizes[2] = Len(e.knots)
        BY DEF Figure
      <3> HIDE DEF spline
      <3>2. QED
        BY <2>2, <2>3, <3>1 DEF FigureValid
    <2>6. QED
      BY <1>5, <2>4, <2>5, FigureSound
  <1>6. \/ \E id : MapSpline(e) = Decline(id)
        \/ MapSpline(e) = Degenerate
        \/ MapSpline(e) = zs /\ Declined(zs)
        \/ AllFinite(xys) /\ IsBezier(e, weights) /\ MapSpline(e) = bezier
        \/ /\ AllFinite(xys) /\ AllFinite(Range(e.knots))
           /\ KnotClamped(e.knots, e.degree, count) /\ SplineWeightsOk(weights, count)
           /\ MapSpline(e) = spline
    BY DEF MapSpline
  <1>7. QED
    BY <1>1, <1>2, <1>3, <1>4, <1>5, <1>6

\* Whatever an entity maps to, it is declined or json and the schema take it.
LEMMA GeometrySound ==
  ASSUME NEW e, Readable(e), NEW mode
  PROVE  Declined(MapGeometry(e, mode)) \/ Sound(MapGeometry(e, mode))
  <1> DEFINE m == MapGeometry(e, mode)
  <1>1. CASE \E id : m = Decline(id)
    BY <1>1, DeclineDeclined
  <1>2. CASE e.type \in HatchTypes /\ m = MapHatch(e)
    BY <1>2, HatchSound
  <1>3. CASE e.type = "POLYLINE" /\ m = MapPolyline(e)
    BY <1>3, PolylineSound DEF Readable
  <1>4. CASE e.type = "LINE" /\ m = MapLine(e)
    BY <1>4, LineSound
  <1>5. CASE e.type = "LWPOLYLINE" /\ m = MapLwPolyline(e, mode)
    BY <1>5, LwPolylineSound DEF Readable
  <1>6. CASE e.type = "ARC" /\ m = MapArc(e)
    BY <1>6, ArcSound DEF Readable
  <1>7. CASE e.type = "CIRCLE" /\ m = MapCircle(e)
    BY <1>7, CircleSound DEF Readable
  <1>8. CASE e.type = "ELLIPSE" /\ m = MapEllipse(e, mode)
    BY <1>8, EllipseSound DEF Readable
  <1>9. CASE e.type = "SPLINE" /\ m = MapSpline(e)
    BY <1>9, SplineSound DEF Readable
  <1>10. QED
    BY <1>1, <1>2, <1>3, <1>4, <1>5, <1>6, <1>7, <1>8, <1>9 DEF MapGeometry

-----------------------------------------------------------------------------
(* Links and rows *)

LEMMA SmallFinite == Finite(0) /\ Finite(1) /\ AllFinite({0, 1})
  BY NonFiniteAssumption DEF Finite, AllFinite

LEMMA EmptyList == List(<<>>) /\ Range(<<>>) = {} /\ Len(<<>>) = 0
  BY DEF List, Range

LEMMA OneList ==
  ASSUME NEW x
  PROVE  List(<<x>>) /\ Range(<<x>>) = {x}
  BY DEF List, Range

LEMMA ExtrusionLinksSound ==
  ASSUME NEW e
  PROVE  /\ List(ExtrusionLinks(e))
         /\ \A link \in Range(ExtrusionLinks(e)) : LinkInv(link)
  <1> DEFINE flip == [translate |-> <<0, 0>>, rotate |-> 0, scale |-> 1, reflect |-> TRUE]
  <1>1. LinkInv(flip)
    <2>1. XY(flip.translate) \cup {flip.rotate, flip.scale} = {0, 1}
      BY DEF XY
    <2>2. flip.scale > 0
      OBVIOUS
    <2> HIDE DEF flip
    <2>3. QED
      BY <2>1, <2>2, SmallFinite DEF LinkInv
  <1> HIDE DEF flip
  <1>2. ExtrusionLinks(e) = <<flip>> \/ ExtrusionLinks(e) = <<>>
    BY DEF ExtrusionLinks, flip
  <1>3. QED
    BY <1>1, <1>2, EmptyList, OneList

\* The link of an INSERT that is not declined: the scale is not zero, and a
\* half turn is added to a rotation that is a number.
LEMMA InsertLinkSound ==
  ASSUME NEW e, e.type = "INSERT", Readable(e), InsertLinkDecline(e) = "none"
  PROVE  LinkInv(InsertLink(e))
  <1>1. /\ AllFinite({e.sx, e.sy, e.rotation} \cup XY(e.insert))
        /\ e.sx # 0
    BY DEF InsertLinkDecline
  <1>2. e.sx \in Int /\ e.sy \in Int /\ e.rotation \in Int
    BY <1>1 DEF Readable, AllFinite, Number
  <1>3. Abs(e.sx) \in Int /\ Abs(e.sx) > 0
    BY <1>1, <1>2 DEF Abs
  <1> DEFINE link == InsertLink(e)
  <1>4. /\ link.translate = <<e.insert[1], e.insert[2]>>
        /\ link.rotate \in Int
        /\ link.scale = Abs(e.sx)
    BY <1>2 DEF InsertLink
  <1>5. XY(link.translate) = XY(e.insert)
    BY <1>4 DEF XY
  <1> HIDE DEF link
  <1>6. AllFinite(XY(link.translate) \cup {link.rotate, link.scale})
    BY <1>1, <1>3, <1>4, <1>5, NonFiniteAssumption DEF AllFinite
  <1>7. LinkInv(link)
    BY <1>3, <1>4, <1>6 DEF LinkInv
  <1>8. QED
    BY <1>7 DEF link

LEMMA ChildPrefixSound ==
  ASSUME NEW e, e.type = "INSERT", Readable(e), InsertLinkDecline(e) = "none",
         NEW prefix, List(prefix), \A link \in Range(prefix) : LinkInv(link)
  PROVE  /\ List(ChildPrefix(e, prefix))
         /\ \A link \in Range(ChildPrefix(e, prefix)) : LinkInv(link)
  <1> DEFINE a == ExtrusionLinks(e)
             b == <<InsertLink(e)>>
  <1>1. List(a) /\ \A link \in Range(a) : LinkInv(link)
    BY ExtrusionLinksSound
  <1>2. List(b) /\ \A link \in Range(b) : LinkInv(link)
    BY InsertLinkSound, OneList
  <1>3. ChildPrefix(e, prefix) = (a \o b) \o prefix
    BY DEF ChildPrefix
  <1> HIDE DEF a, b
  <1>4. List(a \o b) /\ \A link \in Range(a \o b) : LinkInv(link)
    BY <1>1, <1>2, ListConcat
  <1>5. QED
    BY <1>3, <1>4, ListConcat

LEMMA DeclineRowSound ==
  ASSUME NEW call, NEW id
  PROVE  RowInv(DeclineRow(call, id))
  BY DEF RowInv, DeclineRow

LEMMA EntitiesReadable ==
  ASSUME InputInv
  PROVE  /\ \A e \in EntitiesOf(input.doc) : Readable(e)
         /\ List(input.doc.model)
         /\ IsFiniteSet(DOMAIN Blocks)
         /\ \A b \in Range(Blocks) : List(b)
  BY InputsAssumption DEF InputInv, Blocks

\* There are finitely many names that the INSERTs of a document spell.
LEMMA NamesFinite ==
  ASSUME InputInv
  PROVE  IsFiniteSet(EntitiesOf(input.doc)) /\ IsFiniteSet(InsertNames)
  <1> DEFINE blocks == input.doc.blocks
             lists == {input.doc.model} \cup Range(blocks)
             E == EntitiesOf(input.doc)
             I == {x \in E : x.type = "INSERT"}
             R == {Range(b) : b \in lists}
             f == [k \in DOMAIN blocks |-> blocks[k]]
             g == [b \in lists |-> Range(b)]
             h == [e \in I |-> e.name]
  <1>1. IsFiniteSet(lists)
    <2>1. f \in Surjection(DOMAIN blocks, Range(blocks))
      BY DEF Surjection, Range
    <2>2. IsFiniteSet(Range(blocks))
      <3>1. IsFiniteSet(DOMAIN blocks)
        BY EntitiesReadable DEF Blocks
      <3> HIDE DEF f
      <3> QED
        BY <2>1, <3>1, FS_Surjection
    <2>3. IsFiniteSet({input.doc.model})
      BY FS_Singleton
    <2> QED
      BY <2>2, <2>3, FS_Union
  <1>2. \A b \in lists : IsFiniteSet(Range(b))
    <2>1. ASSUME NEW b \in lists PROVE IsFiniteSet(Range(b))
      <3>1. List(b)
        BY EntitiesReadable DEF Blocks
      <3> QED
        BY <3>1, ListFinite
    <2> QED
      BY <2>1
  <1>3. IsFiniteSet(E)
    <2>1. E = UNION R
      BY DEF EntitiesOf
    <2>2. g \in Surjection(lists, R)
      BY DEF Surjection
    <2> HIDE DEF g, lists, E
    <2>3. \A x \in R : IsFiniteSet(x)
      BY <1>2
    <2> HIDE DEF R
    <2> QED
      BY <1>1, <2>1, <2>2, <2>3, FS_Surjection, FS_UNION
  <1>4. IsFiniteSet(I)
    BY <1>3, FS_Subset
  <1>5. h \in Surjection(I, InsertNames)
    BY DEF Surjection, InsertNames
  <1> HIDE DEF h, I
  <1> QED
    BY <1>3, <1>4, <1>5, FS_Surjection

LEMMA InsertIsNamed ==
  ASSUME NEW e \in EntitiesOf(input.doc), e.type = "INSERT"
  PROVE  e.name \in InsertNames
  BY DEF InsertNames

LEMMA LeafRowSound ==
  ASSUME InputInv, NEW call, CallInv(call)
  PROVE  RowInv(LeafRow(call))
  <1> DEFINE e == call.entity
             figure == MapGeometry(e, Mode)
             links == ExtrusionLinks(e) \o call.prefix
             elevation == Plus(figure.elevation, call.z)
             row == EntityRow(call, figure, links, elevation)
  <1>1. CASE \E id : LeafRow(call) = DeclineRow(call, id)
    BY <1>1, DeclineRowSound
  <1>2. CASE /\ ~Declined(figure) /\ ToleranceOk(figure.kind, Tolerance)
             /\ Finite(elevation) /\ LeafRow(call) = row
    <2>1. Sound(figure)
      BY <1>2, GeometrySound, EntitiesReadable DEF CallInv
    <2>2. \A link \in Range(links) : LinkInv(link)
      BY ExtrusionLinksSound, ListConcat DEF CallInv
    <2> HIDE DEF figure, links, elevation
    <2>3. /\ row.record = "entity" /\ row.links = links /\ row.elevation = elevation
          /\ row.figure = figure /\ row.tolerance = Tolerance
      BY DEF EntityRow
    <2> HIDE DEF row
    <2>4. RowInv(row)
      BY <1>2, <2>1, <2>2, <2>3 DEF RowInv
    <2>5. QED
      BY <1>2, <2>4
  <1>3. \/ \E id : LeafRow(call) = DeclineRow(call, id)
        \/ /\ ~Declined(figure) /\ ToleranceOk(figure.kind, Tolerance)
           /\ Finite(elevation) /\ LeafRow(call) = row
    BY DEF LeafRow
  <1>4. QED
    BY <1>1, <1>2, <1>3

\* The calls for the entities of a block, once its prefix and path are right.
LEMMA CallsSound ==
  ASSUME NEW entities, List(entities), Range(entities) \subseteq EntitiesOf(input.doc),
         NEW prefix, List(prefix), \A link \in Range(prefix) : LinkInv(link),
         NEW path, List(path), Range(path) \subseteq InsertNames,
         Cardinality(Range(path)) = Len(path),
         NEW holder, NEW z
  PROVE  /\ List(Calls(entities, holder, prefix, path, z))
         /\ \A call \in Range(Calls(entities, holder, prefix, path, z)) : CallInv(call)
  <1> DEFINE calls == Calls(entities, holder, prefix, path, z)
  <1>1. DOMAIN calls = DOMAIN entities /\ calls = [i \in DOMAIN entities |-> calls[i]]
    BY DEF Calls
  <1>2. ASSUME NEW i \in DOMAIN entities
        PROVE  CallInv(calls[i])
    <2> DEFINE call == calls[i]
    <2>1. call.entity = entities[i] /\ call.prefix = prefix /\ call.path = path
      BY DEF Calls, Call
    <2>2. entities[i] \in Range(entities)
      BY DEF Range
    <2> HIDE DEF calls
    <2>3. QED
      BY <2>1, <2>2 DEF CallInv
  <1> HIDE DEF calls
  <1>3. \A call \in Range(calls) : CallInv(call)
    BY <1>1, <1>2 DEF Range
  <1>4. List(calls)
    BY <1>1, ListMap
  <1>5. QED
    BY <1>3, <1>4 DEF calls

-----------------------------------------------------------------------------
(* Steps *)

LEMMA InitExtractInv == Init => ExtractInv
  <1> SUFFICES ASSUME Init PROVE ExtractInv
    OBVIOUS
  <1>1. InputInv
    BY DEF Init, InputInv
  <1>2. WalkInv /\ RowsInv
    BY EmptyList DEF Init, WalkInv, RowsInv
  <1>3. FileInv
    BY EmptyList DEF Init, FileInv
  <1>4. QED
    BY <1>1, <1>2, <1>3 DEF ExtractInv

\* The document of a run does not change, so what holds of a call stays.
LEMMA CallStays ==
  ASSUME UNCHANGED input
  PROVE  /\ InputInv => InputInv'
         /\ \A call : CallInv(call) => CallInv(call)'
  BY DEF InputInv, CallInv, InsertNames

LEMMA WalkStays ==
  ASSUME WalkInv, UNCHANGED <<input, todo>>
  PROVE  WalkInv'
  BY CallStays DEF WalkInv

LEMMA RowsStay ==
  ASSUME RowsInv, UNCHANGED rows
  PROVE  RowsInv'
  BY DEF RowsInv, RowInv

\* One more row, while nothing is written yet.
LEMMA AnswerStep ==
  ASSUME ExtractInv, pc = "walk", todo # <<>>, NEW row, RowInv(row), Answer(row)
  PROVE  ExtractInv'
  <1>1. /\ rows' = Append(rows, row) /\ todo' = Tail(todo)
        /\ UNCHANGED <<input, pc, out, exit>>
    BY DEF Answer
  <1>2. InputInv'
    BY <1>1, CallStays DEF ExtractInv
  <1>3. WalkInv'
    <2>1. List(Tail(todo)) /\ Range(Tail(todo)) \subseteq Range(todo)
      BY ListHeadTail DEF ExtractInv, WalkInv
    <2>2. QED
      BY <1>1, <2>1, CallStays DEF ExtractInv, WalkInv
  <1>4. RowsInv'
    <2>1. List(rows') /\ Range(rows') = Range(rows) \cup {row}
      BY <1>1, ListAppend DEF ExtractInv, RowsInv
    <2>2. \A r \in Range(rows') : RowInv(r)
      BY <2>1 DEF ExtractInv, RowsInv
    <2>3. QED
      BY <2>1, <2>2 DEF RowsInv, RowInv
  <1>5. FileInv'
    <2>1. Len(rows') = Len(rows) + 1 /\ Len(rows) \in Nat
      BY <1>1, ListAppend, ListDomain DEF ExtractInv, RowsInv
    <2>2. out.lines = <<>>
      BY DEF ExtractInv, FileInv
    <2>3. Len(out'.lines) = 0
      BY <1>1, <2>2, EmptyList
    <2>4. QED
      BY <1>1, <2>1, <2>2, <2>3 DEF ExtractInv, FileInv
  <1>6. QED
    BY <1>2, <1>3, <1>4, <1>5 DEF ExtractInv

LEMMA LeafStep ==
  ASSUME ExtractInv, Leaf
  PROVE  ExtractInv'
  <1>1. pc = "walk" /\ todo # <<>> /\ Answer(LeafRow(Head(todo)))
    BY DEF Leaf, Calling
  <1>2. CallInv(Head(todo))
    BY <1>1, ListHeadTail DEF ExtractInv, WalkInv
  <1>3. RowInv(LeafRow(Head(todo)))
    BY <1>2, LeafRowSound DEF ExtractInv
  <1>4. QED
    BY <1>1, <1>3, AnswerStep

LEMMA DeclineSteps ==
  ASSUME ExtractInv, DeclineUnits \/ DeclineInsert \/ EmptyBlock
  PROVE  ExtractInv'
  <1>1. pc = "walk" /\ todo # <<>> /\ \E id : Answer(DeclineRow(Head(todo), id))
    BY DEF DeclineUnits, DeclineInsert, EmptyBlock, Calling
  <1>2. QED
    BY <1>1, DeclineRowSound, AnswerStep

\* The run starts its walk, at the modelspace and below no block.
LEMMA ReadStep ==
  ASSUME ExtractInv, Read
  PROVE  ExtractInv'
  <1>1. /\ pc = "start" /\ pc' = "walk"
        /\ todo' = Calls(input.doc.model, "model", <<>>, <<>>, 0)
        /\ UNCHANGED <<input, rows, out, exit>>
    BY DEF Read
  <1>2. InputInv'
    BY <1>1, CallStays DEF ExtractInv
  <1>3. WalkInv'
    <2>1. List(input.doc.model)
      BY EntitiesReadable DEF ExtractInv
    <2>2. Range(input.doc.model) \subseteq EntitiesOf(input.doc)
      BY DEF EntitiesOf
    <2>3. Cardinality(Range(<<>>)) = Len(<<>>)
      BY EmptyList, FS_EmptySet
    <2>4. List(todo') /\ \A call \in Range(todo') : CallInv(call)
      BY <1>1, <2>1, <2>2, <2>3, EmptyList, CallsSound
    <2>5. QED
      BY <1>1, <2>4, CallStays DEF WalkInv
  <1>4. RowsInv'
    BY <1>1, RowsStay DEF ExtractInv
  <1>5. FileInv'
    BY <1>1 DEF ExtractInv, FileInv
  <1>6. QED
    BY <1>2, <1>3, <1>4, <1>5 DEF ExtractInv

\* Below one more block, which was not on the path before.
LEMMA ExpandStep ==
  ASSUME ExtractInv, Expand
  PROVE  ExtractInv'
  <1> DEFINE call == Head(todo)
             e == call.entity
             inner == Calls(Blocks[BlockOf(e)], BlockOf(e), ChildPrefix(e, call.prefix),
                            Append(call.path, e.name), Plus(call.z, e.insert[3]))
  <1>1. /\ pc = "walk" /\ todo # <<>> /\ e.type = "INSERT"
        /\ InsertDecline(call) = "none"
        /\ BlockOf(e) \in DOMAIN Blocks
        /\ todo' = inner \o Tail(todo)
        /\ UNCHANGED <<input, pc, rows, out, exit>>
    BY DEF Expand, Calling
  <1>2. CallInv(call) /\ List(Tail(todo)) /\ Range(Tail(todo)) \subseteq Range(todo)
    BY <1>1, ListHeadTail DEF ExtractInv, WalkInv
  <1>3. Readable(e)
    BY <1>2, EntitiesReadable DEF ExtractInv, CallInv
  <1>4. e.name \notin Range(call.path) /\ InsertLinkDecline(e) = "none"
    BY <1>1 DEF InsertDecline, Cyclic
  <1> DEFINE path == Append(call.path, e.name)
             prefix == ChildPrefix(e, call.prefix)
  <1>5. /\ List(path) /\ Range(path) \subseteq InsertNames
        /\ Cardinality(Range(path)) = Len(path)
    <2>1. /\ List(path) /\ Range(path) = Range(call.path) \cup {e.name}
          /\ Len(path) = Len(call.path) + 1
      BY <1>2, ListAppend DEF CallInv
    <2>2. IsFiniteSet(Range(call.path))
      BY <1>2, NamesFinite, FS_Subset DEF ExtractInv, CallInv
    <2>3. Cardinality(Range(call.path) \cup {e.name}) = Cardinality(Range(call.path)) + 1
      BY <1>4, <2>2, FS_AddElement
    <2>4. e.name \in InsertNames
      BY <1>1, <1>2, InsertIsNamed DEF CallInv
    <2>5. QED
      BY <1>2, <2>1, <2>3, <2>4 DEF CallInv
  <1>6. List(prefix) /\ \A link \in Range(prefix) : LinkInv(link)
    BY <1>1, <1>2, <1>3, <1>4, ChildPrefixSound DEF CallInv
  <1>7. List(Blocks[BlockOf(e)]) /\ Range(Blocks[BlockOf(e)]) \subseteq EntitiesOf(input.doc)
    <2>1. Blocks[BlockOf(e)] \in Range(Blocks)
      BY <1>1 DEF Range
    <2>2. QED
      BY <2>1, EntitiesReadable DEF ExtractInv, EntitiesOf, Blocks
  <1>8. List(inner) /\ \A c \in Range(inner) : CallInv(c)
    <2> HIDE DEF path, prefix, e, call
    <2>1. inner = Calls(Blocks[BlockOf(e)], BlockOf(e), prefix, path, Plus(call.z, e.insert[3]))
      BY DEF path, prefix
    <2>2. QED
      BY <1>5, <1>6, <1>7, <2>1, CallsSound
  <1> HIDE DEF inner
  <1>9. WalkInv'
    <2>1. List(todo') /\ \A c \in Range(todo') : CallInv(c)
      BY <1>1, <1>2, <1>8, ListConcat DEF ExtractInv, WalkInv
    <2>2. QED
      BY <1>1, <2>1, CallStays DEF WalkInv
  <1>10. InputInv' /\ RowsInv' /\ FileInv'
    BY <1>1, CallStays, RowsStay DEF ExtractInv, FileInv
  <1>11. QED
    BY <1>9, <1>10 DEF ExtractInv

\* The three ways to end without a file of one's own.
LEMMA RefuseStep ==
  ASSUME ExtractInv, Refuse \/ UndefinedBlock
  PROVE  ExtractInv'
  <1>1. /\ pc \in {"start", "walk"} /\ pc' = "done" /\ exit' \in {1, 2}
        /\ UNCHANGED <<input, todo, rows, out>>
    BY DEF Refuse, UndefinedBlock, Calling, Stop
  <1>2. InputInv' /\ WalkInv' /\ RowsInv'
    BY <1>1, CallStays, WalkStays, RowsStay DEF ExtractInv
  <1>3. FileInv'
    BY <1>1 DEF ExtractInv, FileInv
  <1>4. QED
    BY <1>2, <1>3 DEF ExtractInv

LEMMA OpenStep ==
  ASSUME ExtractInv, Open
  PROVE  ExtractInv'
  <1>1. /\ pc = "walk" /\ pc' = "write"
        /\ out' = [old |-> FALSE, lines |-> <<>>]
        /\ UNCHANGED <<input, todo, rows, exit>>
    BY DEF Open
  <1>2. InputInv' /\ WalkInv' /\ RowsInv'
    BY <1>1, CallStays, WalkStays, RowsStay DEF ExtractInv
  <1>3. FileInv'
    <2>1. Len(rows) \in Nat
      BY ListDomain DEF ExtractInv, RowsInv
    <2>2. out'.lines = <<>> /\ out'.old = FALSE
      BY <1>1
    <2>3. List(out'.lines) /\ Len(out'.lines) = 0
      BY <2>2, EmptyList
    <2>4. QED
      BY <1>1, <2>1, <2>2, <2>3 DEF ExtractInv, FileInv
  <1>4. QED
    BY <1>2, <1>3 DEF ExtractInv

\* A sound row has nothing that json refuses.
LEMMA RowDumps ==
  ASSUME NEW row, RowInv(row)
  PROVE  Dumps(row)
  BY DEF RowInv, LinkInv, Sound, Dumps

LEMMA WriteStep ==
  ASSUME ExtractInv, WriteRow
  PROVE  ExtractInv'
  <1> DEFINE n == Len(out.lines)
             row == rows[n + 1]
  <1>1. pc = "write" /\ n < Len(rows) /\ UNCHANGED <<input, todo, rows>>
    BY DEF WriteRow
  <1>2. /\ n \in Nat /\ Len(rows) \in Nat /\ List(out.lines)
        /\ \A i \in 1..n : out.lines[i] = rows[i]
    BY ListDomain DEF ExtractInv, RowsInv, FileInv
  <1>3. Dumps(row)
    <2>1. row \in Range(rows)
      BY <1>1, <1>2, ListDomain DEF ExtractInv, RowsInv
    <2>2. QED
      BY <2>1, RowDumps DEF ExtractInv, RowsInv
  <1>4. out' = [out EXCEPT !.lines = Append(@, row)] /\ UNCHANGED <<pc, exit>>
    BY <1>3 DEF WriteRow
  <1>5. out'.old = out.old /\ out'.lines = Append(out.lines, row)
        /\ out' = [old |-> out'.old, lines |-> out'.lines]
    BY <1>4 DEF ExtractInv, FileInv
  <1>6. /\ List(out'.lines) /\ Len(out'.lines) = n + 1
        /\ \A i \in 1..(n + 1) : out'.lines[i] = rows[i]
    <2>1. /\ List(Append(out.lines, row)) /\ Len(Append(out.lines, row)) = n + 1
          /\ Append(out.lines, row)[n + 1] = row
          /\ \A i \in 1..n : Append(out.lines, row)[i] = out.lines[i]
      BY <1>2, ListAppend
    <2>2. QED
      BY <1>2, <1>5, <2>1
  <1> HIDE DEF n, row
  <1>7. InputInv' /\ WalkInv' /\ RowsInv'
    BY <1>1, CallStays, WalkStays, RowsStay DEF ExtractInv
  <1>8. FileInv'
    BY <1>1, <1>2, <1>4, <1>5, <1>6 DEF ExtractInv, FileInv
  <1>9. QED
    BY <1>7, <1>8 DEF ExtractInv

LEMMA CloseStep ==
  ASSUME ExtractInv, Close
  PROVE  ExtractInv'
  <1>1. /\ pc = "write" /\ Len(out.lines) = Len(rows)
        /\ pc' = "done" /\ exit' = 0 /\ UNCHANGED <<input, todo, rows, out>>
    BY DEF Close, Stop
  <1>2. InputInv' /\ WalkInv' /\ RowsInv'
    BY <1>1, CallStays, WalkStays, RowsStay DEF ExtractInv
  <1>3. FileInv'
    BY <1>1 DEF ExtractInv, FileInv
  <1>4. QED
    BY <1>2, <1>3 DEF ExtractInv

-----------------------------------------------------------------------------
(* Theorems *)

\* The inductive invariant, for every document, mode and option.
THEOREM ExtractInvariant == Spec => []ExtractInv
  <1>1. ExtractInv /\ [Next]_vars => ExtractInv'
    <2> SUFFICES ASSUME ExtractInv, [Next]_vars
                 PROVE  ExtractInv'
      OBVIOUS
    <2>1. CASE Refuse \/ UndefinedBlock
      BY <2>1, RefuseStep
    <2>2. CASE Read
      BY <2>2, ReadStep
    <2>3. CASE DeclineUnits \/ DeclineInsert \/ EmptyBlock
      BY <2>3, DeclineSteps
    <2>4. CASE Expand
      BY <2>4, ExpandStep
    <2>5. CASE Leaf
      BY <2>5, LeafStep
    <2>6. CASE Open
      BY <2>6, OpenStep
    <2>7. CASE WriteRow
      BY <2>7, WriteStep
    <2>8. CASE Close
      BY <2>8, CloseStep
    <2>9. CASE UNCHANGED vars
      <3>1. UNCHANGED <<input, pc, todo, rows, out, exit>>
        BY <2>9 DEF vars
      <3>2. InputInv' /\ WalkInv' /\ RowsInv'
        BY <3>1, CallStays, WalkStays, RowsStay DEF ExtractInv
      <3>3. FileInv'
        BY <3>1 DEF ExtractInv, FileInv
      <3>4. QED
        BY <3>2, <3>3 DEF ExtractInv
    <2>10. QED
      BY <2>1, <2>2, <2>3, <2>4, <2>5, <2>6, <2>7, <2>8, <2>9 DEF Next
  <1>2. QED
    BY <1>1, InitExtractInv, PTL DEF Spec

\* The file holds the first rows in their order, and a run has an exit code
\* exactly when it has ended.
THEOREM ExtractTypeCorrect == Spec => []TypeOK
  <1>1. ExtractInv => TypeOK
    <2> SUFFICES ASSUME ExtractInv PROVE TypeOK
      OBVIOUS
    <2>1. \A row \in Range(rows) : row.record \in {"entity", "decline"}
      BY DEF ExtractInv, RowsInv, RowInv
    <2>2. \A i \in DOMAIN out.lines : out.lines[i] = rows[i]
      BY ListDomain DEF ExtractInv, FileInv
    <2>3. QED
      BY <2>1, <2>2 DEF ExtractInv, FileInv, TypeOK
  <1>2. QED
    BY <1>1, ExtractInvariant, PTL

\* However the blocks of a document insert each other, no INSERT is expanded
\* inside one of the same spelling.
THEOREM NoNameInsideItself == Spec => []NestingIsBounded
  <1>1. ExtractInv => NestingIsBounded
    BY DEF ExtractInv, WalkInv, CallInv, NestingIsBounded
  <1>2. QED
    BY <1>1, ExtractInvariant, PTL

\* So the recursion of emit is never deeper than the INSERTs of the document
\* have spellings, though a block has several and may lie inside itself.
THEOREM DepthIsBoundedByNames ==
  Spec => [](\A call \in Range(todo) : Len(call.path) <= Cardinality(InsertNames))
  <1>1. ExtractInv => \A call \in Range(todo) : Len(call.path) <= Cardinality(InsertNames)
    <2> SUFFICES ASSUME ExtractInv, NEW call \in Range(todo)
                 PROVE  Len(call.path) <= Cardinality(InsertNames)
      OBVIOUS
    <2>1. /\ Range(call.path) \subseteq InsertNames
          /\ Cardinality(Range(call.path)) = Len(call.path)
      BY DEF ExtractInv, WalkInv, CallInv
    <2>2. IsFiniteSet(InsertNames)
      BY NamesFinite DEF ExtractInv
    <2>3. QED
      BY <2>1, <2>2, FS_Subset
  <1>2. QED
    BY <1>1, ExtractInvariant, PTL

\* Every record and every member of a Compound is one the schema accepts,
\* with a tolerance that its kind can take.
THEOREM RecordsAccepted == Spec => []RecordsValid
  <1>1. ExtractInv => RecordsValid
    <2> SUFFICES ASSUME ExtractInv, NEW row \in Range(rows), row.record = "entity"
                 PROVE  /\ \A link \in Range(row.links) : link.scale > 0
                        /\ \A figure \in {row.figure} \cup Range(row.figure.members) :
                             FigureValid(figure) /\ ToleranceOk(figure.kind, row.tolerance)
      BY DEF RecordsValid
    <2>1. /\ \A link \in Range(row.links) : LinkInv(link)
          /\ Sound(row.figure) /\ ToleranceOk(row.figure.kind, row.tolerance)
      BY DEF ExtractInv, RowsInv, RowInv
    <2>2. ASSUME NEW figure \in Range(row.figure.members)
          PROVE  ToleranceOk(figure.kind, row.tolerance)
      <3>1. row.figure.members # <<>>
        BY DEF Range
      <3>2. row.figure.kind = "Compound"
        BY <2>1, <3>1 DEF Sound
      <3>3. row.tolerance \notin {"segmentCount", "angleStep"}
        BY <2>1, <3>2 DEF ToleranceOk, SegmentCountKinds, SteppedKinds, CircularKinds
      <3>4. QED
        BY <3>3 DEF ToleranceOk
    <2>3. QED
      BY <2>1, <2>2 DEF LinkInv, Sound
  <1>2. QED
    BY <1>1, ExtractInvariant, PTL

\* A run that ends with 0 has written every row; any other leaves the file of
\* an earlier run, since no row holds a number that the writer refuses.
THEOREM FilesAreWhole == Spec => []OutputIsWhole
  <1>1. ExtractInv => OutputIsWhole
    <2> SUFFICES ASSUME ExtractInv, pc = "done", exit = 0
                 PROVE  out.lines = rows
      BY DEF ExtractInv, FileInv, OutputIsWhole
    <2> DEFINE S == Range(out.lines) \cup Range(rows)
    <2>1. out.lines \in Seq(S) /\ rows \in Seq(S)
      BY SeqMonotonic DEF ExtractInv, FileInv, RowsInv, List
    <2>2. /\ Len(out.lines) = Len(rows)
          /\ \A i \in 1..Len(out.lines) : out.lines[i] = rows[i]
      BY DEF ExtractInv, FileInv
    <2> HIDE DEF S
    <2>3. QED
      BY <2>1, <2>2, SeqEqual
  <1>2. QED
    BY <1>1, ExtractInvariant, PTL

-----------------------------------------------------------------------------
(* Lists, place by place *)

LEMMA ListHeads ==
  ASSUME NEW s, List(s), s # <<>>
  PROVE  /\ Len(s) \in Nat \ {0} /\ Head(s) = s[1]
         /\ List(Tail(s)) /\ Len(Tail(s)) = Len(s) - 1
         /\ \A i \in 1..(Len(s) - 1) : Tail(s)[i] = s[i + 1]
  <1> DEFINE S == Range(s)
  <1>1. s \in Seq(S)
    BY DEF List
  <1>2. List(Tail(s))
    BY ListHeadTail
  <1> HIDE DEF S
  <1> QED
    BY <1>1, <1>2

LEMMA ListJoins ==
  ASSUME NEW s, NEW t, List(s), List(t)
  PROVE  /\ Len(s) \in Nat /\ Len(t) \in Nat /\ Len(s \o t) = Len(s) + Len(t)
         /\ \A i \in 1..Len(s) : (s \o t)[i] = s[i]
         /\ \A i \in 1..Len(t) : (s \o t)[Len(s) + i] = t[i]
  <1> DEFINE S == Range(s) \cup Range(t)
  <1>1. s \in Seq(S) /\ t \in Seq(S)
    BY SeqMonotonic DEF List
  <1> HIDE DEF S
  <1>2. /\ Len(s) \in Nat /\ Len(t) \in Nat /\ Len(s \o t) = Len(s) + Len(t)
        /\ \A i \in 1..(Len(s) + Len(t)) :
             (s \o t)[i] = IF i <= Len(s) THEN s[i] ELSE t[i - Len(s)]
    BY <1>1, ConcatProperties, LenProperties
  <1> QED
    BY <1>2

LEMMA Listed ==
  ASSUME NEW n \in Nat, NEW f, DOMAIN f = 1..n, f = [i \in 1..n |-> f[i]]
  PROVE  List(f) /\ Len(f) = n
  <1>1. f \in [1..n -> Range(f)]
    BY DEF Range
  <1> DEFINE S == Range(f)
  <1>2. f \in Seq(S)
    BY <1>1, SeqDef
  <1>3. Len(f) = n
    <2> HIDE DEF S
    <2>1. Len(f) \in Nat /\ DOMAIN f = 1..Len(f)
      BY <1>2, LenProperties
    <2> QED
      BY <2>1
  <1> QED
    BY <1>2, <1>3 DEF List

LEMMA ListsEqual ==
  ASSUME NEW s, NEW t, List(s), List(t), Len(s) = Len(t),
         \A i \in 1..Len(s) : s[i] = t[i]
  PROVE  s = t
  <1> DEFINE S == Range(s) \cup Range(t)
  <1>1. s \in Seq(S) /\ t \in Seq(S)
    BY SeqMonotonic DEF List
  <1> HIDE DEF S
  <1> QED
    BY <1>1, SeqEqual

LEMMA NoneListed ==
  ASSUME NEW f, DOMAIN f = 1..0, f = [i \in 1..0 |-> f[i]]
  PROVE  f = <<>>
  <1>1. List(f) /\ Len(f) = 0
    BY Listed
  <1>2. List(<<>>) /\ Len(<<>>) = 0
    BY EmptyList
  <1>3. \A i \in 1..0 : f[i] = <<>>[i]
    OBVIOUS
  <1> QED
    BY <1>1, <1>2, <1>3, ListsEqual

-----------------------------------------------------------------------------
(* Occurrences *)

Item(entities, i) == [at |-> i, entity |-> entities[i]]

\* What an occurrence is a list of.
Items == [at : Nat, entity : EntitiesOf(input.doc)]

LEMMA ItemsInside ==
  ASSUME NEW prefix \in Seq(Items),
         NEW entities, List(entities), Range(entities) \subseteq EntitiesOf(input.doc)
  PROVE  /\ Inside(prefix, entities) = {Append(prefix, Item(entities, i)) : i \in DOMAIN entities}
         /\ \A i \in DOMAIN entities : Item(entities, i) \in Items
         /\ Inside(prefix, entities) \in SUBSET Seq(Items)
         /\ IsFiniteSet(Inside(prefix, entities))
  <1>1. Inside(prefix, entities) = {Append(prefix, Item(entities, i)) : i \in DOMAIN entities}
    BY DEF Inside, Item
  <1>2. DOMAIN entities = 1..Len(entities) /\ Len(entities) \in Nat
    BY ListDomain
  <1>3. ASSUME NEW i \in DOMAIN entities PROVE Item(entities, i) \in Items
    <2>1. entities[i] \in EntitiesOf(input.doc) /\ i \in Nat
      BY <1>2, ListDomain
    <2> QED
      BY <2>1 DEF Item, Items
  <1>4. \A i \in DOMAIN entities : Append(prefix, Item(entities, i)) \in Seq(Items)
    <2> HIDE DEF Items
    <2> QED
      BY <1>3
  <1>5. IsFiniteSet(Inside(prefix, entities))
    <2> DEFINE f == [i \in DOMAIN entities |-> Append(prefix, Item(entities, i))]
    <2>1. f \in Surjection(DOMAIN entities, Inside(prefix, entities))
      BY <1>1 DEF Surjection
    <2>2. IsFiniteSet(DOMAIN entities)
      BY <1>2, FS_Interval
    <2> HIDE DEF f
    <2> QED
      BY <2>1, <2>2, FS_Surjection
  <1> QED
    BY <1>1, <1>3, <1>4, <1>5

\* The entities of a block that an INSERT names.
LEMMA BlockEntities ==
  ASSUME InputInv, NEW name \in DOMAIN Blocks
  PROVE  List(Blocks[name]) /\ Range(Blocks[name]) \subseteq EntitiesOf(input.doc)
  <1>1. Blocks[name] \in Range(Blocks)
    BY DEF Range
  <1> QED
    BY <1>1, EntitiesReadable DEF EntitiesOf, Blocks

LEMMA ModelEntities ==
  ASSUME InputInv
  PROVE  List(input.doc.model) /\ Range(input.doc.model) \subseteq EntitiesOf(input.doc)
  BY EntitiesReadable DEF EntitiesOf

LEMMA NestedTyped ==
  ASSUME InputInv, NEW S \in SUBSET Seq(Items)
  PROVE  /\ Nested(S) \in SUBSET Seq(Items)
         /\ IsFiniteSet(S) => IsFiniteSet(Nested(S))
  <1> DEFINE R == {p \in S : Replaced(p)}
             f == [o \in R |-> Inside(o, Blocks[BlockOf(Target(o))])]
             T == {Inside(o, Blocks[BlockOf(Target(o))]) : o \in R}
  <1>1. ASSUME NEW o \in R
        PROVE  /\ Inside(o, Blocks[BlockOf(Target(o))]) \in SUBSET Seq(Items)
               /\ IsFiniteSet(Inside(o, Blocks[BlockOf(Target(o))]))
    <2>1. BlockOf(Target(o)) \in DOMAIN Blocks
      BY DEF Replaced
    <2> QED
      BY <2>1, BlockEntities, ItemsInside
  <1>2. Nested(S) = UNION T
    BY DEF Nested
  <1>3. ASSUME IsFiniteSet(S) PROVE IsFiniteSet(UNION T)
    <2>1. IsFiniteSet(R)
      BY <1>3, FS_Subset
    <2>2. f \in Surjection(R, T)
      BY DEF Surjection
    <2>3. IsFiniteSet(T)
      <3> HIDE DEF f, T, R
      <3> QED
        BY <2>1, <2>2, FS_Surjection
    <2>4. \A x \in T : IsFiniteSet(x)
      BY <1>1
    <2> HIDE DEF T
    <2> QED
      BY <2>3, <2>4, FS_UNION
  <1> QED
    BY <1>1, <1>2, <1>3

Depth == Cardinality(InsertNames)

LEMMA DepthIsNat ==
  ASSUME InputInv
  PROVE  Depth \in Nat
  BY NamesFinite, FS_CardinalityType DEF Depth

Roots == Inside(<<>>, input.doc.model)

LEMMA LevelsFollow ==
  ASSUME InputInv
  PROVE  /\ Levels[0] = Roots
         /\ \A k \in 1..Depth : Levels[k] = Nested(Levels[k - 1])
         /\ \A k \in 0..Depth : Levels[k] \in SUBSET Seq(Items)
  <1> DEFINE n == Depth
             S == SUBSET Seq(Items)
             D(l) == [k \in 0..n |-> IF k = 0 THEN Roots ELSE Nested(l[k - 1])]
             step == [k \in 1..n |-> [x \in S |-> Nested(x)]]
  <1>0. n \in Nat
    BY DepthIsNat
  <1>1. Roots \in S
    <2>1. <<>> \in Seq(Items)
      BY EmptySeq
    <2> QED
      BY <2>1, ModelEntities, ItemsInside DEF Roots
  <1>2. \A x \in S : Nested(x) \in S
    BY NestedTyped
  <1>3. step \in [1..n -> [S -> S]]
    <2> HIDE DEF S
    <2> QED
      BY <1>2
  <1>4. PICK g \in [0..n -> S] : Follows(g, Roots, step, n)
    <2> HIDE DEF step, S, n
    <2> QED
      BY <1>0, <1>1, <1>3, IntervalRecursion
  <1> HIDE DEF n, S
  <1>5. ASSUME NEW k \in 1..n PROVE g[k] = Nested(g[k - 1])
    <2>1. g[k - 1] \in S
      BY <1>0
    <2> QED
      BY <1>4, <2>1 DEF Follows
  <1>6. g = D(g)
    BY <1>0, <1>4, <1>5 DEF Follows
  <1>7. Levels = CHOOSE l : l = D(l)
    BY DEF Levels, Roots, n, Depth
  <1>8. Levels = D(Levels)
    <2> HIDE DEF D
    <2> QED
      BY <1>6, <1>7
  <1>9. Levels[0] = Roots /\ \A k \in 1..n : Levels[k] = Nested(Levels[k - 1])
    BY <1>0, <1>8
  <1>10. \A k \in 0..n : Levels[k] \in S
    <2> DEFINE T == {k \in 0..n : Levels[k] \in S}
    <2>1. 0 \in T
      BY <1>0, <1>1, <1>9
    <2>2. \A k \in 1..n : k - 1 \in T => k \in T
      BY <1>0, <1>2, <1>9
    <2> HIDE DEF T
    <2>3. \A k \in 0..n : k \in T
      BY <1>0, <2>1, <2>2, IntervalInduction
    <2> QED
      BY <2>3 DEF T
  <1> QED
    BY <1>9, <1>10 DEF n, S

\* An occurrence of level k: it starts in the modelspace, goes k times into a
\* block by an INSERT that is replaced, and never twice under the same name.
Shape(o, k) ==
  /\ o \in Seq(Items) /\ Len(o) = k + 1
  /\ \E i \in DOMAIN input.doc.model : o[1] = Item(input.doc.model, i)
  /\ Names(o) \subseteq InsertNames
  /\ Cardinality(Names(o)) = k
  /\ \A m \in 1..k : \E q \in Levels[m - 1] :
       /\ Below(o, q) /\ Len(q) = m /\ Replaced(q)
       /\ \E i \in DOMAIN Blocks[BlockOf(Target(q))] :
            o[m + 1] = Item(Blocks[BlockOf(Target(q))], i)

\* A replaced INSERT has a name that the document spells.
LEMMA TargetIsNamed ==
  ASSUME NEW o \in Seq(Items), Len(o) \in Nat \ {0}, Replaced(o)
  PROVE  Target(o).name \in InsertNames
  <1>1. o[Len(o)] \in Items
    <2> HIDE DEF Items
    <2> QED
      BY ElementOfSeq
  <1>2. Target(o) \in EntitiesOf(input.doc)
    BY <1>1 DEF Target, Last, Items
  <1> QED
    BY <1>2, InsertIsNamed DEF Replaced

LEMMA AppendItem ==
  ASSUME NEW o \in Seq(Items), NEW x \in Items
  PROVE  /\ Append(o, x) \in Seq(Items)
         /\ Len(Append(o, x)) = Len(o) + 1 /\ Len(o) \in Nat
         /\ Append(o, x)[Len(o) + 1] = x
         /\ \A k \in 1..Len(o) : Append(o, x)[k] = o[k]
         /\ Target(Append(o, x)) = x.entity
         /\ Below(Append(o, x), o)
  <1>1. /\ Append(o, x) \in Seq(Items)
        /\ Len(Append(o, x)) = Len(o) + 1 /\ Len(o) \in Nat
        /\ Append(o, x)[Len(o) + 1] = x
        /\ \A k \in 1..Len(o) : Append(o, x)[k] = o[k]
    <2> HIDE DEF Items
    <2> QED
      OBVIOUS
  <1> QED
    BY <1>1 DEF Target, Last, Below

LEMMA RootShape ==
  ASSUME InputInv, NEW o \in Levels[0]
  PROVE  Shape(o, 0)
  <1> DEFINE none == <<>>
             model == input.doc.model
  <1>0. none \in Seq(Items) /\ Len(none) = 0
    BY EmptySeq
  <1>1. o \in Inside(none, model)
    BY LevelsFollow, DepthIsNat DEF Roots
  <1> HIDE DEF none
  <1>2. /\ Inside(none, model) = {Append(none, Item(model, i)) : i \in DOMAIN model}
        /\ \A i \in DOMAIN model : Item(model, i) \in Items
    BY <1>0, ModelEntities, ItemsInside
  <1>3. PICK i \in DOMAIN model : o = Append(none, Item(model, i))
    BY <1>1, <1>2
  <1>4. o \in Seq(Items) /\ Len(o) = 1 /\ o[1] = Item(model, i)
    BY <1>0, <1>2, <1>3, AppendItem
  <1>5. Names(o) = {}
    BY <1>4 DEF Names
  <1> QED
    BY <1>4, <1>5, FS_EmptySet DEF Shape

LEMMA NestedShape ==
  ASSUME InputInv, NEW k \in 1..Depth, \A q \in Levels[k - 1] : Shape(q, k - 1),
         NEW o \in Levels[k]
  PROVE  Shape(o, k)
  <1>1. PICK q \in Levels[k - 1] : Replaced(q) /\ o \in Inside(q, Blocks[BlockOf(Target(q))])
    BY LevelsFollow DEF Nested
  <1>2. Shape(q, k - 1) /\ q \in Seq(Items) /\ Len(q) = k
    <2>1. k \in Int /\ Shape(q, k - 1)
      BY DepthIsNat
    <2>2. q \in Seq(Items) /\ Len(q) = (k - 1) + 1
      BY <2>1 DEF Shape
    <2> QED
      BY <2>1, <2>2
  <1>3. BlockOf(Target(q)) \in DOMAIN Blocks /\ Target(q).name \notin Names(q)
    BY <1>1 DEF Replaced
  <1> DEFINE block == Blocks[BlockOf(Target(q))]
  <1>4. PICK i \in DOMAIN block : o = Append(q, Item(block, i))
    BY <1>1, <1>2, <1>3, BlockEntities, ItemsInside
  <1>5. Item(block, i) \in Items
    BY <1>2, <1>3, BlockEntities, ItemsInside
  <1> HIDE DEF block
  <1>6. /\ o \in Seq(Items) /\ Len(o) = k + 1 /\ o[k + 1] = Item(block, i)
        /\ \A m \in 1..k : o[m] = q[m]
        /\ Below(o, q)
    BY <1>2, <1>4, <1>5, AppendItem
  <1>7. Names(o) = Names(q) \cup {Target(q).name}
    <2>1. k \in Nat /\ k >= 1
      BY DepthIsNat
    <2>2. Target(q) = q[k].entity
      BY <1>2 DEF Target, Last
    <2>3. Names(o) = {o[m].entity.name : m \in 1..k}
      BY <1>6, <2>1 DEF Names
    <2>4. Names(q) = {q[m].entity.name : m \in 1..(k - 1)}
      BY <1>2, <2>1 DEF Names
    <2>5. 1..k = (1..(k - 1)) \cup {k}
      BY <2>1
    <2>6. Names(o) = {q[m].entity.name : m \in 1..k}
      BY <1>6, <2>3
    <2> QED
      BY <2>2, <2>4, <2>5, <2>6
  <1>8. Names(o) \subseteq InsertNames /\ Cardinality(Names(o)) = k
    <2>1. Names(q) \subseteq InsertNames /\ Cardinality(Names(q)) = k - 1
      BY <1>2 DEF Shape
    <2>2. IsFiniteSet(Names(q))
      BY <2>1, NamesFinite, FS_Subset
    <2>3. Cardinality(Names(q) \cup {Target(q).name}) = Cardinality(Names(q)) + 1
      BY <1>3, <2>2, FS_AddElement
    <2>4. Target(q).name \in InsertNames
      BY <1>1, <1>2, TargetIsNamed
    <2> QED
      BY <1>7, <2>1, <2>3, <2>4, DepthIsNat
  <1>9. \E j \in DOMAIN input.doc.model : o[1] = Item(input.doc.model, j)
    BY <1>2, <1>6, DepthIsNat DEF Shape
  <1>10. ASSUME NEW m \in 1..k
         PROVE  \E p \in Levels[m - 1] :
                  /\ Below(o, p) /\ Len(p) = m /\ Replaced(p)
                  /\ \E j \in DOMAIN Blocks[BlockOf(Target(p))] :
                       o[m + 1] = Item(Blocks[BlockOf(Target(p))], j)
    <2>1. CASE m = k
      BY <1>1, <1>2, <1>6, <2>1 DEF block
    <2>2. CASE m # k
      <3>1. m \in 1..(k - 1) /\ k \in Nat
        BY <2>2, DepthIsNat
      <3>2. PICK p \in Levels[m - 1] :
                  /\ Below(q, p) /\ Len(p) = m /\ Replaced(p)
                  /\ \E j \in DOMAIN Blocks[BlockOf(Target(p))] :
                       q[m + 1] = Item(Blocks[BlockOf(Target(p))], j)
        BY <1>2, <3>1 DEF Shape
      <3>3. Below(o, p)
        BY <1>2, <1>6, <3>1, <3>2 DEF Below
      <3>4. o[m + 1] = q[m + 1]
        BY <1>6, <3>1
      <3> QED
        BY <3>2, <3>3, <3>4
    <2> QED
      BY <2>1, <2>2
  <1> QED
    BY <1>6, <1>8, <1>9, <1>10 DEF Shape

LEMMA LevelShape ==
  ASSUME InputInv
  PROVE  \A k \in 0..Depth : IsFiniteSet(Levels[k]) /\ \A o \in Levels[k] : Shape(o, k)
  <1> DEFINE T == {k \in 0..Depth :
                     IsFiniteSet(Levels[k]) /\ \A o \in Levels[k] : Shape(o, k)}
  <1>0. Depth \in Nat
    BY DepthIsNat
  <1>1. 0 \in T
    <2>1. IsFiniteSet(Levels[0])
      <3>1. <<>> \in Seq(Items)
        BY EmptySeq
      <3> QED
        BY <3>1, LevelsFollow, ModelEntities, ItemsInside DEF Roots
    <2> QED
      BY <1>0, <2>1, RootShape
  <1>2. ASSUME NEW k \in 1..Depth, k - 1 \in T PROVE k \in T
    <2>1. k - 1 \in 0..Depth /\ k \in 0..Depth
      BY <1>0
    <2>2. IsFiniteSet(Levels[k])
      BY <1>2, <2>1, LevelsFollow, NestedTyped
    <2>3. \A o \in Levels[k] : Shape(o, k)
      BY <1>2, NestedShape
    <2> QED
      BY <2>1, <2>2, <2>3
  <1> HIDE DEF T
  <1>3. \A k \in 0..Depth : k \in T
    BY <1>0, <1>1, <1>2, IntervalInduction
  <1> QED
    BY <1>3 DEF T

LEMMA OccurrenceShape ==
  ASSUME InputInv, NEW o \in Occurrences
  PROVE  \E k \in 0..Depth : o \in Levels[k] /\ Shape(o, k)
  <1>1. Occurrences = UNION {Levels[k] : k \in 0..Depth}
    BY DEF Occurrences, Depth
  <1>2. PICK k \in 0..Depth : o \in Levels[k]
    BY <1>1
  <1> QED
    BY <1>2, LevelShape

LEMMA LevelsOccur ==
  ASSUME InputInv, NEW k \in 0..Depth, NEW o \in Levels[k]
  PROVE  o \in Occurrences
  BY DEF Occurrences, Depth

LEMMA OccurrenceTyped ==
  ASSUME InputInv, NEW o \in Occurrences
  PROVE  /\ o \in Seq(Items) /\ Len(o) \in Nat \ {0} /\ DOMAIN o = 1..Len(o)
         /\ \A k \in 1..Len(o) : o[k] \in Items
  <1>1. PICK k \in 0..Depth : Shape(o, k)
    BY OccurrenceShape
  <1>2. o \in Seq(Items) /\ Len(o) = k + 1 /\ k \in Nat
    BY <1>1, DepthIsNat DEF Shape
  <1> HIDE DEF Items
  <1> QED
    BY <1>2, LenProperties, ElementOfSeq

LEMMA OccurrencesFinite ==
  ASSUME InputInv
  PROVE  IsFiniteSet(Occurrences) /\ IsFiniteSet(Owed) /\ Cardinality(Owed) \in Nat
  <1> DEFINE L == {Levels[k] : k \in 0..Depth}
             f == [k \in 0..Depth |-> Levels[k]]
  <1>1. f \in Surjection(0..Depth, L)
    BY DEF Surjection
  <1>2. IsFiniteSet(0..Depth)
    BY DepthIsNat, FS_Interval
  <1>3. \A S \in L : IsFiniteSet(S)
    BY LevelShape
  <1>4. Occurrences = UNION L
    BY DEF Occurrences, Depth
  <1> HIDE DEF f, L
  <1>5. IsFiniteSet(UNION L)
    BY <1>1, <1>2, <1>3, FS_Surjection, FS_UNION
  <1>6. IsFiniteSet(Owed)
    BY <1>4, <1>5, FS_Subset DEF Owed
  <1> QED
    BY <1>4, <1>5, <1>6, FS_CardinalityType

\* The modelspace is where occurrences start.
LEMMA RootsOccur ==
  ASSUME InputInv
  PROVE  /\ \A i \in DOMAIN input.doc.model :
              /\ Item(input.doc.model, i) \in Items
              /\ Append(<<>>, Item(input.doc.model, i)) \in Occurrences
         /\ \A o \in Occurrences : \E i \in DOMAIN input.doc.model :
              Below(o, Append(<<>>, Item(input.doc.model, i)))
  <1> DEFINE none == <<>>
             model == input.doc.model
  <1>0. none \in Seq(Items) /\ Len(none) = 0
    BY EmptySeq
  <1>1. Inside(none, model) = Levels[0]
    BY LevelsFollow DEF Roots
  <1> HIDE DEF none
  <1>2. /\ Inside(none, model) = {Append(none, Item(model, i)) : i \in DOMAIN model}
        /\ \A i \in DOMAIN model : Item(model, i) \in Items
    BY <1>0, ModelEntities, ItemsInside
  <1>3. ASSUME NEW i \in DOMAIN model PROVE Append(none, Item(model, i)) \in Occurrences
    <2>1. Append(none, Item(model, i)) \in Levels[0]
      BY <1>1, <1>2
    <2>2. 0 \in 0..Depth
      BY DepthIsNat
    <2> QED
      BY <2>1, <2>2, LevelsOccur
  <1>4. ASSUME NEW o \in Occurrences
        PROVE  \E i \in DOMAIN model : Below(o, Append(none, Item(model, i)))
    <2>1. PICK k \in 0..Depth : Shape(o, k)
      BY OccurrenceShape
    <2>2. PICK i \in DOMAIN model : o[1] = Item(model, i)
      BY <2>1 DEF Shape
    <2> DEFINE r == Append(none, Item(model, i))
    <2>3. Len(r) = 1 /\ r[1] = Item(model, i)
      BY <1>0, <1>2, AppendItem
    <2> HIDE DEF r
    <2>4. Below(o, r)
      BY <2>2, <2>3, OccurrenceTyped DEF Below
    <2> QED
      BY <2>4 DEF r
  <1> QED
    BY <1>2, <1>3, <1>4 DEF none

\* What is inside the block of a replaced INSERT occurs.
LEMMA ChildOccurs ==
  ASSUME InputInv, NEW o \in Occurrences, Replaced(o),
         NEW i \in DOMAIN Blocks[BlockOf(Target(o))]
  PROVE  /\ Item(Blocks[BlockOf(Target(o))], i) \in Items
         /\ Append(o, Item(Blocks[BlockOf(Target(o))], i)) \in Occurrences
  <1> DEFINE block == Blocks[BlockOf(Target(o))]
  <1>1. PICK k \in 0..Depth : o \in Levels[k] /\ Shape(o, k)
    BY OccurrenceShape
  <1>2. BlockOf(Target(o)) \in DOMAIN Blocks /\ Target(o).name \notin Names(o)
    BY DEF Replaced
  <1>3. /\ Names(o) \subseteq InsertNames /\ Cardinality(Names(o)) = k
        /\ o \in Seq(Items)
    BY <1>1 DEF Shape
  <1>4. Item(block, i) \in Items /\ Append(o, Item(block, i)) \in Inside(o, block)
    <2>1. List(block) /\ Range(block) \subseteq EntitiesOf(input.doc)
      BY <1>2, BlockEntities
    <2>2. i \in DOMAIN block
      OBVIOUS
    <2> HIDE DEF block
    <2> QED
      BY <1>3, <2>1, <2>2, ItemsInside
  <1>5. k + 1 \in 1..Depth
    <2>1. IsFiniteSet(InsertNames)
      BY NamesFinite
    <2>2. IsFiniteSet(Names(o))
      BY <1>3, <2>1, FS_Subset
    <2>3. Cardinality(Names(o) \cup {Target(o).name}) = k + 1
      BY <1>2, <1>3, <2>2, FS_AddElement
    <2>5. Target(o).name \in InsertNames
      BY <1>3, TargetIsNamed, OccurrenceTyped
    <2>4. Cardinality(Names(o) \cup {Target(o).name}) <= Depth
      BY <1>3, <2>1, <2>5, FS_Subset DEF Depth
    <2> QED
      BY <2>3, <2>4, DepthIsNat
  <1>6. Levels[k + 1] = Nested(Levels[k])
    BY <1>5, LevelsFollow, DepthIsNat
  <1>7. Append(o, Item(block, i)) \in Levels[k + 1]
    BY <1>1, <1>4, <1>6 DEF Nested
  <1>8. Append(o, Item(block, i)) \in Occurrences
    BY <1>5, <1>7, LevelsOccur, DepthIsNat
  <1> QED
    BY <1>4, <1>8

\* An occurrence below another comes from an entity of the block that the
\* other inserts.
LEMMA BelowChild ==
  ASSUME InputInv, NEW o \in Occurrences, NEW p \in Occurrences, Below(p, o), p # o
  PROVE  /\ Replaced(o)
         /\ \E i \in DOMAIN Blocks[BlockOf(Target(o))] :
              Below(p, Append(o, Item(Blocks[BlockOf(Target(o))], i)))
  <1>1. PICK k \in 0..Depth : Shape(p, k)
    BY OccurrenceShape
  <1>2. /\ o \in Seq(Items) /\ p \in Seq(Items)
        /\ Len(o) \in Nat \ {0} /\ Len(p) \in Nat /\ Len(p) = k + 1
    BY <1>1, OccurrenceTyped DEF Shape
  <1> DEFINE m == Len(o)
  <1>3. m \in 1..k
    <2>1. ASSUME m = Len(p) PROVE FALSE
      BY <1>2, <2>1, SeqEqual DEF Below
    <2> QED
      BY <1>2, <2>1, DepthIsNat DEF Below
  <1>4. PICK q \in Levels[m - 1] :
          /\ Below(p, q) /\ Len(q) = m /\ Replaced(q)
          /\ \E i \in DOMAIN Blocks[BlockOf(Target(q))] :
               p[m + 1] = Item(Blocks[BlockOf(Target(q))], i)
    BY <1>1, <1>3 DEF Shape
  <1>5. q = o
    <2>1. q \in Seq(Items)
      BY <1>3, LevelsFollow, DepthIsNat
    <2>2. \A j \in 1..m : q[j] = o[j]
      BY <1>2, <1>4 DEF Below
    <2> QED
      BY <1>2, <1>4, <2>1, <2>2, SeqEqual
  <1>6. PICK i \in DOMAIN Blocks[BlockOf(Target(o))] :
          p[m + 1] = Item(Blocks[BlockOf(Target(o))], i)
    BY <1>4, <1>5
  <1> DEFINE c == Append(o, Item(Blocks[BlockOf(Target(o))], i))
  <1>7. Item(Blocks[BlockOf(Target(o))], i) \in Items
    BY <1>4, <1>5, ChildOccurs
  <1>8. Len(c) = m + 1 /\ c[m + 1] = p[m + 1] /\ \A j \in 1..m : c[j] = o[j]
    BY <1>2, <1>6, <1>7, AppendItem
  <1>9. Below(p, c)
    <2> HIDE DEF c
    <2>1. \A j \in 1..(m + 1) : j \in 1..m \/ j = m + 1
      BY <1>2
    <2> QED
      BY <1>2, <1>3, <1>8, <2>1, DepthIsNat DEF Below
  <1> QED
    BY <1>4, <1>5, <1>9

-----------------------------------------------------------------------------
(* Reading order *)

LEMMA BeforeIsAsymmetric ==
  ASSUME InputInv, NEW o \in Occurrences, NEW p \in Occurrences, Before(o, p)
  PROVE  ~Before(p, o)
  <1> SUFFICES ASSUME Before(p, o) PROVE FALSE
    OBVIOUS
  <1>1. PICK k \in DOMAIN o \cap DOMAIN p :
          o[k].at < p[k].at /\ \A j \in 1..(k - 1) : o[j].at = p[j].at
    BY DEF Before
  <1>2. PICK m \in DOMAIN p \cap DOMAIN o :
          p[m].at < o[m].at /\ \A j \in 1..(m - 1) : p[j].at = o[j].at
    BY DEF Before
  <1>3. /\ k \in 1..Len(o) /\ m \in 1..Len(o) /\ Len(o) \in Nat
        /\ o[k].at \in Nat /\ p[k].at \in Nat /\ o[m].at \in Nat /\ p[m].at \in Nat
    BY OccurrenceTyped DEF Items
  <1>4. CASE k < m
    BY <1>1, <1>2, <1>3, <1>4
  <1>5. CASE m < k
    BY <1>1, <1>2, <1>3, <1>5
  <1>6. CASE m = k
    BY <1>1, <1>2, <1>3, <1>6
  <1> QED
    BY <1>3, <1>4, <1>5, <1>6

LEMMA BelowDomain ==
  ASSUME InputInv, NEW o \in Occurrences, NEW p \in Occurrences, Below(p, o)
  PROVE  /\ DOMAIN o \subseteq DOMAIN p
         /\ \A k \in DOMAIN o : p[k] = o[k]
         /\ \A k \in DOMAIN o : 1..(k - 1) \subseteq DOMAIN o
  BY OccurrenceTyped DEF Below

\* What is below an occurrence comes where that occurrence does.
LEMMA BelowKeepsOrder ==
  ASSUME InputInv, NEW o \in Occurrences, NEW p \in Occurrences, Below(p, o),
         NEW q \in Occurrences
  PROVE  /\ Before(q, o) => Before(q, p)
         /\ Before(o, q) => Before(p, q)
  <1>1. ASSUME Before(q, o) PROVE Before(q, p)
    <2>1. PICK k \in DOMAIN q \cap DOMAIN o :
            q[k].at < o[k].at /\ \A j \in 1..(k - 1) : q[j].at = o[j].at
      BY <1>1 DEF Before
    <2>2. k \in DOMAIN q \cap DOMAIN p /\ p[k] = o[k]
          /\ \A j \in 1..(k - 1) : p[j] = o[j]
      BY <2>1, BelowDomain
    <2> QED
      BY <2>1, <2>2 DEF Before
  <1>2. ASSUME Before(o, q) PROVE Before(p, q)
    <2>1. PICK k \in DOMAIN o \cap DOMAIN q :
            o[k].at < q[k].at /\ \A j \in 1..(k - 1) : o[j].at = q[j].at
      BY <1>2 DEF Before
    <2>2. k \in DOMAIN p \cap DOMAIN q /\ p[k] = o[k]
          /\ \A j \in 1..(k - 1) : p[j] = o[j]
      BY <2>1, BelowDomain
    <2> QED
      BY <2>1, <2>2 DEF Before
  <1> QED
    BY <1>1, <1>2

\* Entities of one block come in the block's order.
LEMMA SiblingsInOrder ==
  ASSUME NEW o \in Seq(Items), NEW x \in Items, NEW y \in Items, x.at < y.at
  PROVE  Before(Append(o, x), Append(o, y))
  <1> DEFINE a == Append(o, x)
             b == Append(o, y)
             n == Len(o) + 1
  <1>1. /\ a \in Seq(Items) /\ Len(a) = n /\ Len(o) \in Nat /\ a[n] = x
        /\ \A k \in 1..Len(o) : a[k] = o[k]
    BY AppendItem
  <1>2. /\ b \in Seq(Items) /\ Len(b) = n /\ b[n] = y
        /\ \A k \in 1..Len(o) : b[k] = o[k]
    BY AppendItem
  <1> HIDE DEF a, b, Items
  <1>3. n \in DOMAIN a \cap DOMAIN b
    BY <1>1, <1>2, LenProperties
  <1>4. \A j \in 1..(n - 1) : a[j].at = b[j].at
    BY <1>1, <1>2
  <1> QED
    BY <1>1, <1>2, <1>3, <1>4 DEF Before, a, b

-----------------------------------------------------------------------------
(* Counting *)

LEMMA ImageCount ==
  ASSUME NEW n \in Nat, NEW f, 1..n \subseteq DOMAIN f,
         \A i, j \in 1..n : i < j => f[i] # f[j]
  PROVE  LET T == {f[i] : i \in 1..n} IN IsFiniteSet(T) /\ Cardinality(T) = n
  <1> DEFINE T == {f[i] : i \in 1..n}
             g == [i \in 1..n |-> f[i]]
  <1>1. g \in Surjection(1..n, T)
    BY DEF Surjection
  <1>2. g \in Injection(1..n, T)
    <2>1. g \in [1..n -> T]
      OBVIOUS
    <2>2. \A i, j \in 1..n : f[i] = f[j] => i = j
      <3> TAKE i, j \in 1..n
      <3>1. i < j \/ j < i \/ i = j
        OBVIOUS
      <3> QED
        BY <3>1
    <2> QED
      BY <2>1, <2>2 DEF Injection, IsInjective
  <1>3. IsFiniteSet(1..n) /\ Cardinality(1..n) = n
    BY FS_Interval
  <1> HIDE DEF g, T
  <1>4. IsFiniteSet(T) /\ Cardinality(T) = n
    BY <1>1, <1>2, <1>3, FS_Surjection
  <1> QED
    BY <1>4 DEF T

\* Owed occurrences that come earlier than o.
Earlier(o) == {q \in Owed : Before(q, o)}

LEMMA ConsideredCount ==
  ASSUME InputInv
  PROVE  /\ Len(Considered) = Cardinality(Owed)
         /\ \A i \in 1..Cardinality(Owed) :
              Considered[i] = CHOOSE o \in Owed : Cardinality(Earlier(o)) = i - 1
  <1>1. Considered = [i \in 1..Cardinality(Owed) |->
                        CHOOSE o \in Owed : Cardinality(Earlier(o)) = i - 1]
    BY DEF Considered, Earlier
  <1>2. Cardinality(Owed) \in Nat
    BY OccurrencesFinite
  <1>3. DOMAIN Considered = 1..Cardinality(Owed)
    BY <1>1
  <1>4. Considered \in Seq(Range(Considered))
    <2>1. Considered \in [1..Cardinality(Owed) -> Range(Considered)]
      BY <1>1, <1>3 DEF Range
    <2> QED
      BY <1>2, <2>1, SeqDef
  <1>5. Len(Considered) = Cardinality(Owed)
    BY <1>2, <1>3, <1>4, LenProperties
  <1> QED
    BY <1>1, <1>5

\* Answers in order, to occurrences that everything else comes after, are the
\* answers to the first of those considered.
LEMMA AnsweredFirst ==
  ASSUME InputInv,
         NEW n \in Nat, NEW m \in Nat,
         NEW a \in [1..n -> Owed], NEW p \in [1..m -> Occurrences],
         \A i, j \in 1..n : i < j => Before(a[i], a[j]),
         \A i \in 1..n, j \in 1..m : Before(a[i], p[j]),
         \A o \in Owed : (\E i \in 1..n : a[i] = o) \/ (\E j \in 1..m : Below(o, p[j]))
  PROVE  /\ n <= Len(Considered)
         /\ \A i \in 1..n : Considered[i] = a[i]
         /\ m = 0 => n = Len(Considered)
  <1>0. Owed \subseteq Occurrences
    BY DEF Owed
  <1>1. \A i, j \in 1..n : i < j => a[i] # a[j]
    <2> TAKE i, j \in 1..n
    <2> SUFFICES ASSUME i < j, a[i] = a[j] PROVE FALSE
      OBVIOUS
    <2>1. Before(a[i], a[i]) /\ a[i] \in Occurrences
      BY <1>0
    <2> QED
      BY <2>1, BeforeIsAsymmetric
  <1> DEFINE first(k) == {a[j] : j \in 1..k}
  <1>2. ASSUME NEW k \in 0..n
        PROVE  IsFiniteSet(first(k)) /\ Cardinality(first(k)) = k
    <2>1. k \in Nat /\ 1..k \subseteq DOMAIN a /\ \A i, j \in 1..k : i < j => a[i] # a[j]
      BY <1>1
    <2> QED
      BY <2>1, ImageCount
  <1>9. IsFiniteSet(first(n)) /\ Cardinality(first(n)) = n
    <2>1. n \in 0..n
      OBVIOUS
    <2> HIDE DEF first
    <2> QED
      BY <1>2, <2>1
  <1>3. ASSUME NEW i \in 1..n
        PROVE  Earlier(a[i]) = first(i - 1)
    <2>1. ASSUME NEW j \in 1..(i - 1) PROVE a[j] \in Earlier(a[i])
      BY DEF Earlier
    <2>2. ASSUME NEW q \in Earlier(a[i]) PROVE q \in first(i - 1)
      <3>1. q \in Owed /\ Before(q, a[i]) /\ q \in Occurrences /\ a[i] \in Occurrences
        BY <1>0 DEF Earlier
      <3>2. ~Before(a[i], q)
        BY <3>1, BeforeIsAsymmetric
      <3>3. CASE \E j \in 1..n : a[j] = q
        <4>1. PICK j \in 1..n : a[j] = q
          BY <3>3
        <4>2. ~(i < j)
          BY <3>2, <4>1
        <4>3. j # i
          BY <3>1, <3>2, <4>1
        <4>4. j \in 1..(i - 1)
          BY <4>2, <4>3
        <4> QED
          BY <4>1, <4>4
      <3>4. CASE \E j \in 1..m : Below(q, p[j])
        <4>1. PICK j \in 1..m : Below(q, p[j])
          BY <3>4
        <4>2. Before(a[i], q)
          BY <3>1, <4>1, BelowKeepsOrder
        <4> QED
          BY <3>2, <4>2
      <3> QED
        BY <3>1, <3>3, <3>4
    <2> HIDE DEF Earlier
    <2> QED
      BY <2>1, <2>2
  <1>4. ASSUME NEW i \in 1..n, NEW o \in Owed, Cardinality(Earlier(o)) = i - 1
        PROVE  o = a[i]
    <2>1. CASE \E j \in 1..n : a[j] = o
      <3>1. PICK j \in 1..n : a[j] = o
        BY <2>1
      <3>2. Cardinality(Earlier(o)) = j - 1
        <4>1. j - 1 \in 0..n
          OBVIOUS
        <4> HIDE DEF first
        <4> QED
          BY <1>2, <1>3, <3>1, <4>1
      <3>3. i = j
        BY <1>4, <3>2
      <3> QED
        BY <3>1, <3>3
    <2>2. CASE \E j \in 1..m : Below(o, p[j])
      <3>1. PICK j \in 1..m : Below(o, p[j])
        BY <2>2
      <3>2. ASSUME NEW k \in 1..n PROVE a[k] \in Earlier(o)
        <4>1. Before(a[k], o)
          BY <1>0, <3>1, BelowKeepsOrder
        <4> QED
          BY <4>1 DEF Earlier
      <3>3. first(n) \subseteq Earlier(o) /\ IsFiniteSet(Earlier(o))
        <4>1. Earlier(o) \subseteq Owed
          BY DEF Earlier
        <4>2. IsFiniteSet(Earlier(o))
          BY <4>1, OccurrencesFinite, FS_Subset
        <4>3. \A x \in first(n) : x \in Earlier(o)
          <5> HIDE DEF Earlier
          <5> QED
            BY <3>2
        <4> HIDE DEF first, Earlier
        <4> QED
          BY <4>2, <4>3
      <3>4. Cardinality(first(n)) = n /\ Cardinality(Earlier(o)) \in Nat
        BY <1>9, <3>3, FS_CardinalityType
      <3>5. Cardinality(first(n)) <= Cardinality(Earlier(o))
        BY <3>3, FS_Subset
      <3> HIDE DEF first
      <3>6. FALSE
        BY <1>4, <3>4, <3>5
      <3> QED
        BY <3>6
    <2> QED
      BY <2>1, <2>2
  <1>5. first(n) \subseteq Owed
    OBVIOUS
  <1>6. n <= Cardinality(Owed) /\ Cardinality(Owed) \in Nat
    <2>1. Cardinality(first(n)) = n
      BY <1>9
    <2> HIDE DEF first
    <2> QED
      BY <1>5, <2>1, OccurrencesFinite, FS_Subset
  <1>7. ASSUME NEW i \in 1..n PROVE Considered[i] = a[i]
    <2>1. Cardinality(Earlier(a[i])) = i - 1
      <3>1. i - 1 \in 0..n
        OBVIOUS
      <3> HIDE DEF first
      <3> QED
        BY <1>2, <1>3, <3>1
    <2>2. i \in 1..Cardinality(Owed)
      BY <1>6
    <2>3. Considered[i] = CHOOSE o \in Owed : Cardinality(Earlier(o)) = i - 1
      BY <2>2, ConsideredCount
    <2>4. a[i] \in Owed
      OBVIOUS
    <2> DEFINE c == CHOOSE o \in Owed : Cardinality(Earlier(o)) = i - 1
    <2>5. c \in Owed /\ Cardinality(Earlier(c)) = i - 1
      <3> HIDE DEF Earlier
      <3> QED
        BY <2>1, <2>4
    <2>6. Considered[i] = c
      BY <2>3
    <2> HIDE DEF c
    <2> QED
      BY <1>4, <2>5, <2>6
  <1>8. ASSUME m = 0 PROVE n = Cardinality(Owed)
    <2>1. Owed = first(n)
      BY <1>8
    <2>2. Cardinality(first(n)) = n
      BY <1>9
    <2> HIDE DEF first
    <2> QED
      BY <2>1, <2>2
  <1> QED
    BY <1>6, <1>7, <1>8, ConsideredCount

-----------------------------------------------------------------------------
(* Heights *)

\* The entities on the way to an occurrence are INSERTs that are replaced.
Way(e) ==
  /\ e \in EntitiesOf(input.doc) /\ Readable(e) /\ e.type = "INSERT"
  /\ ExtrusionDecline(e) = "none" /\ InsertLinkDecline(e) = "none"
  /\ Finite(e.insert[3])

LEMMA ReplacedWay ==
  ASSUME InputInv, NEW o \in Occurrences, Replaced(o)
  PROVE  Way(Target(o))
  <1>1. o[Len(o)] \in Items
    BY OccurrenceTyped
  <1>2. Target(o) \in EntitiesOf(input.doc)
    BY <1>1 DEF Target, Last, Items
  <1> QED
    BY <1>2, EntitiesReadable DEF Replaced, Way

LEMMA TrailInserts ==
  ASSUME InputInv, NEW o \in Occurrences, NEW m \in 1..(Len(o) - 1)
  PROVE  Way(o[m].entity)
  <1>1. PICK k \in 0..Depth : Shape(o, k)
    BY OccurrenceShape
  <1>2. Len(o) = k + 1 /\ k \in Nat /\ k <= Depth
    BY <1>1, DepthIsNat DEF Shape
  <1>3. PICK q \in Levels[m - 1] : Below(o, q) /\ Len(q) = m /\ Replaced(q)
    BY <1>1, <1>2 DEF Shape
  <1>4. q \in Occurrences
    BY <1>2, <1>3, DepthIsNat, LevelsOccur
  <1>5. o[m].entity = Target(q)
    BY <1>3 DEF Below, Target, Last
  <1> QED
    BY <1>3, <1>4, <1>5, ReplacedWay

LEMMA SumZFollows ==
  ASSUME InputInv, NEW o \in Occurrences
  PROVE  \E z \in [0..(Len(o) - 1) -> Number] :
           /\ z[0] = 0
           /\ \A k \in 1..(Len(o) - 1) : z[k] = Plus(z[k - 1], o[k].entity.insert[3])
           /\ SumZ(o) = z[Len(o) - 1]
  <1> DEFINE n == Len(o) - 1
             D(l) == [k \in 0..n |-> IF k = 0 THEN 0
                                     ELSE Plus(l[k - 1], o[k].entity.insert[3])]
             step == [k \in 1..n |-> [x \in Number |-> Plus(x, o[k].entity.insert[3])]]
  <1>0. n \in Nat
    BY OccurrenceTyped
  <1>1. 0 \in Number
    BY DEF Number
  <1>2. ASSUME NEW k \in 1..n, NEW x \in Number
        PROVE  Plus(x, o[k].entity.insert[3]) \in Number
    <2>1. o[k].entity.insert[3] \in Number
      BY TrailInserts DEF Way, Readable
    <2> QED
      BY <2>1 DEF Plus, Finite, Number
  <1>3. step \in [1..n -> [Number -> Number]]
    BY <1>2
  <1>4. PICK g \in [0..n -> Number] : Follows(g, 0, step, n)
    <2> HIDE DEF step, n
    <2> QED
      BY <1>0, <1>1, <1>3, IntervalRecursion
  <1>5. ASSUME NEW k \in 1..n PROVE g[k] = Plus(g[k - 1], o[k].entity.insert[3])
    <2>1. g[k - 1] \in Number
      BY <1>0
    <2> QED
      BY <1>4, <2>1 DEF Follows
  <1>6. g = D(g)
    BY <1>0, <1>4, <1>5 DEF Follows
  <1>7. SumZ(o) = (CHOOSE l : l = D(l))[n]
    BY DEF SumZ
  <1> DEFINE z == CHOOSE l : l = D(l)
  <1>8. z = D(z)
    <2> HIDE DEF D
    <2> QED
      BY <1>6
  <1> HIDE DEF z
  <1>9. z[0] = 0 /\ \A k \in 1..n : z[k] = Plus(z[k - 1], o[k].entity.insert[3])
    BY <1>0, <1>8
  <1>10. \A k \in 0..n : z[k] \in Number
    <2> DEFINE T == {k \in 0..n : z[k] \in Number}
    <2>1. 0 \in T
      BY <1>0, <1>1, <1>9
    <2>2. \A k \in 1..n : k - 1 \in T => k \in T
      BY <1>0, <1>2, <1>9
    <2> HIDE DEF T
    <2>3. \A k \in 0..n : k \in T
      BY <1>0, <2>1, <2>2, IntervalInduction
    <2> QED
      BY <2>3 DEF T
  <1>11. z \in [0..n -> Number]
    BY <1>8, <1>10
  <1> QED
    BY <1>7, <1>9, <1>11 DEF z

LEMMA SumZRoot ==
  ASSUME InputInv, NEW o \in Occurrences, Len(o) = 1
  PROVE  SumZ(o) = 0
  <1>1. PICK z : z[0] = 0 /\ SumZ(o) = z[Len(o) - 1]
    BY SumZFollows
  <1>2. Len(o) - 1 = 0
    OBVIOUS
  <1> QED
    BY <1>1, <1>2

LEMMA SumZChild ==
  ASSUME InputInv, NEW o \in Occurrences, NEW c \in Occurrences,
         Len(c) = Len(o) + 1, Below(c, o)
  PROVE  SumZ(c) = Plus(SumZ(o), Target(o).insert[3])
  <1> DEFINE n == Len(o) - 1
  <1>0. n \in Nat /\ Len(o) = n + 1 /\ Len(c) - 1 = n + 1
    BY OccurrenceTyped
  <1>1. PICK z \in [0..n -> Number] :
           /\ z[0] = 0
           /\ \A k \in 1..n : z[k] = Plus(z[k - 1], o[k].entity.insert[3])
           /\ SumZ(o) = z[n]
    BY SumZFollows
  <1>2. PICK w \in [0..(n + 1) -> Number] :
           /\ w[0] = 0
           /\ \A k \in 1..(n + 1) : w[k] = Plus(w[k - 1], c[k].entity.insert[3])
           /\ SumZ(c) = w[n + 1]
    BY <1>0, SumZFollows
  <1>3. \A k \in 1..(n + 1) : c[k] = o[k]
    BY <1>0 DEF Below
  <1> HIDE DEF n
  <1>4. w[n] = z[n]
    <2> DEFINE T == {k \in 0..n : w[k] = z[k]}
    <2>1. 0 \in T
      BY <1>0, <1>1, <1>2
    <2>2. ASSUME NEW k \in 1..n, k - 1 \in T PROVE k \in T
      <3>1. k \in 1..(n + 1) /\ c[k] = o[k] /\ w[k - 1] = z[k - 1]
        BY <1>0, <1>3, <2>2
      <3>2. z[k] = Plus(z[k - 1], o[k].entity.insert[3])
        BY <1>1
      <3>3. w[k] = Plus(w[k - 1], c[k].entity.insert[3])
        BY <1>2, <3>1
      <3> QED
        BY <3>1, <3>2, <3>3
    <2> HIDE DEF T
    <2>3. \A k \in 0..n : k \in T
      BY <1>0, <2>1, <2>2, IntervalInduction
    <2> QED
      BY <1>0, <2>3 DEF T
  <1>5. w[n + 1] = Plus(w[n], c[n + 1].entity.insert[3])
    BY <1>0, <1>2
  <1>6. c[n + 1].entity = Target(o)
    BY <1>0, <1>3 DEF Target, Last
  <1> QED
    BY <1>1, <1>2, <1>4, <1>5, <1>6

-----------------------------------------------------------------------------
(* Points *)

Point == Int \X Int

LEMMA RotatedPoint ==
  ASSUME NEW x \in Int, NEW y \in Int, NEW t \in Int
  PROVE  Rotated(<<x, y>>, t) \in Point
  BY DEF Rotated, Point

LEMMA HalfTurn ==
  ASSUME NEW x \in Int, NEW y \in Int, NEW t \in Int
  PROVE  Rotated(<<-x, -y>>, t + 2) = Rotated(<<x, y>>, t)
  <1>1. t % 4 \in 0..3 /\ (t + 2) % 4 = (IF t % 4 < 2 THEN (t % 4) + 2 ELSE (t % 4) - 2)
    OBVIOUS
  <1> QED
    BY <1>1 DEF Rotated

LEMMA NoTurn ==
  ASSUME NEW p
  PROVE  Rotated(p, 0) = p
  <1>1. 0 % 4 = 0
    OBVIOUS
  <1> QED
    BY <1>1 DEF Rotated

\* An INSERT on the way, with +Z extrusion, no mirror in y and no base.
Plainly(e) ==
  e.extrusion[3] > 0 /\ ~MirrorsY(e) /\ Base(e)[1] = 0 /\ Base(e)[2] = 0

LEMMA WayNumbers ==
  ASSUME NEW e, Way(e)
  PROVE  /\ e.sx \in Int /\ e.sy \in Int /\ e.rotation \in Int
         /\ e.insert[1] \in Int /\ e.insert[2] \in Int /\ e.extrusion[3] \in Int
         /\ e.sx # 0 /\ e.sy # 0 /\ (e.sx = e.sy \/ e.sx = -e.sy)
  <1>1. /\ AllFinite({e.sx, e.sy, e.rotation} \cup XY(e.insert))
        /\ e.sx # 0 /\ e.sy # 0 /\ Abs(e.sx) = Abs(e.sy)
    BY DEF Way, InsertLinkDecline
  <1>2. /\ {e.sx, e.sy, e.rotation} \subseteq Number
        /\ e.insert \in [1..3 -> Number] /\ e.extrusion \in [1..3 -> Number]
    BY DEF Way, Readable
  <1>3. e.sx \in Int /\ e.sy \in Int /\ e.rotation \in Int
    BY <1>1, <1>2 DEF AllFinite, Number
  <1>4. e.insert[1] \in Int /\ e.insert[2] \in Int
    BY <1>1, <1>2 DEF AllFinite, Number, XY
  <1>5. AllFinite(Range(e.extrusion))
    BY DEF Way, ExtrusionDecline
  <1>6. e.extrusion[3] \in Range(e.extrusion)
    BY <1>2 DEF Range
  <1>7. e.extrusion[3] \in Int
    BY <1>2, <1>5, <1>6 DEF AllFinite, Number
  <1> QED
    BY <1>1, <1>3, <1>4, <1>7 DEF Abs

\* Such an INSERT does to a point what its link does.
LEMMA InsertedIsLinked ==
  ASSUME NEW e, Way(e), Plainly(e), NEW p \in Point
  PROVE  Inserted(e, p) = ApplyLink(p, InsertLink(e)) /\ Inserted(e, p) \in Point
  <1> DEFINE link == InsertLink(e)
             x == e.sx * p[1]
             y == e.sy * p[2]
             turned == Rotated(<<x, y>>, e.rotation)
             lx == IF link.reflect THEN -p[1] ELSE p[1]
             lturned == Rotated(<<link.scale * lx, link.scale * p[2]>>, link.rotate)
  <1>1. /\ e.sx \in Int /\ e.sy \in Int /\ e.rotation \in Int
        /\ e.insert[1] \in Int /\ e.insert[2] \in Int /\ e.extrusion[3] \in Int
        /\ e.sx # 0 /\ e.sy # 0 /\ (e.sx = e.sy \/ e.sx = -e.sy)
    BY WayNumbers
  <1>2. p[1] \in Int /\ p[2] \in Int /\ x \in Int /\ y \in Int
    BY <1>1 DEF Point
  <1>3. turned \in Point
    BY <1>1, <1>2, RotatedPoint
  <1>4. /\ link.translate = <<e.insert[1], e.insert[2]>>
        /\ link.scale = Abs(e.sx)
        /\ link.reflect = ((e.sx < 0) # (e.sy < 0))
        /\ link.rotate = IF e.sx < 0 /\ e.sy < 0 THEN e.rotation + 2 ELSE e.rotation
    BY DEF InsertLink
  <1>5. lturned = turned
    <2>1. CASE e.sx > 0
      <3>1. e.sy = e.sx
        BY <1>1, <2>1 DEF Plainly, MirrorsY
      <3>2. link.scale = e.sx /\ link.rotate = e.rotation
        BY <1>1, <1>4, <2>1, <3>1 DEF Abs
      <3>4. (e.sx < 0) = (e.sy < 0)
        BY <3>1
      <3>5. ~link.reflect
        BY <3>4, Zenon DEF InsertLink
      <3> QED
        BY <3>1, <3>2, <3>5
    <2>2. CASE e.sx < 0 /\ e.sy > 0
      <3>1. e.sy = -e.sx
        BY <1>1, <2>2
      <3>2. link.scale = -e.sx /\ link.rotate = e.rotation
        BY <1>1, <1>4, <2>2, <3>1 DEF Abs
      <3>4. (e.sx < 0) # (e.sy < 0)
        BY <1>1, <2>2
      <3>5. link.reflect
        BY <3>4, Zenon DEF InsertLink
      <3>3. (-e.sx) * (-p[1]) = e.sx * p[1]
        BY <1>1, <1>2
      <3> QED
        BY <3>1, <3>2, <3>3, <3>5
    <2>3. CASE e.sx < 0 /\ e.sy < 0
      <3>1. e.sy = e.sx
        BY <1>1, <2>3
      <3>2. link.scale = -e.sx /\ link.rotate = e.rotation + 2
        BY <1>1, <1>4, <2>3, <3>1 DEF Abs
      <3>6. (e.sx < 0) = (e.sy < 0)
        BY <3>1
      <3>7. ~link.reflect
        BY <3>6, Zenon DEF InsertLink
      <3>3. (-e.sx) * p[1] = -x /\ (-e.sx) * p[2] = -y
        BY <1>1, <1>2, <3>1
      <3>4. lturned = Rotated(<<-x, -y>>, e.rotation + 2)
        BY <3>2, <3>3, <3>7
      <3> HIDE DEF x, y, lturned
      <3>5. Rotated(<<-x, -y>>, e.rotation + 2) = Rotated(<<x, y>>, e.rotation)
        BY <1>1, <1>2, HalfTurn
      <3> QED
        BY <3>4, <3>5
    <2> QED
      BY <1>1, <2>1, <2>2, <2>3
  <1>6. ApplyLink(p, link) = <<lturned[1] + e.insert[1], lturned[2] + e.insert[2]>>
    <2>1. ApplyLink(p, link) = <<lturned[1] + link.translate[1], lturned[2] + link.translate[2]>>
      BY DEF ApplyLink
    <2> HIDE DEF link, lturned
    <2> QED
      BY <1>4, <2>1
  <1>7. Inserted(e, p) = <<turned[1] + e.insert[1], turned[2] + e.insert[2]>>
    <2>1. ~(e.extrusion[3] < 0)
      BY <1>1 DEF Plainly
    <2>2. p[1] - Base(e)[1] = p[1] /\ p[2] - Base(e)[2] = p[2]
      BY <1>2 DEF Plainly
    <2> QED
      BY <2>1, <2>2 DEF Inserted, OutOfOcs
  <1>8. <<turned[1] + e.insert[1], turned[2] + e.insert[2]>> \in Point
    <2> HIDE DEF turned
    <2> QED
      BY <1>1, <1>3 DEF Point
  <1> HIDE DEF link, lturned, turned
  <1>9. Inserted(e, p) = ApplyLink(p, link)
    BY <1>5, <1>6, <1>7
  <1> QED
    BY <1>7, <1>8, <1>9 DEF link

\* A flip is what -Z extrusion does.
LEMMA FlippedIsLinked ==
  ASSUME NEW e, NEW p \in Point, NEW link \in {ExtrusionLinks(e)[1]}, e.extrusion[3] < 0
  PROVE  ApplyLink(p, link) = OutOfOcs(e, p)
  <1>1. link = [translate |-> <<0, 0>>, rotate |-> 0, scale |-> 1, reflect |-> TRUE]
    BY DEF ExtrusionLinks
  <1>2. p[1] \in Int /\ p[2] \in Int
    BY DEF Point
  <1>3. Rotated(<<-p[1], p[2]>>, 0) = <<-p[1], p[2]>>
    BY NoTurn
  <1>4. 1 * (-p[1]) = -p[1] /\ 1 * p[2] = p[2] /\ -p[1] + 0 = -p[1] /\ p[2] + 0 = p[2]
    BY <1>2
  <1>5. ApplyLink(p, link) = <<-p[1], p[2]>>
    BY <1>1, <1>2, <1>3, <1>4 DEF ApplyLink
  <1> QED
    BY <1>5 DEF OutOfOcs

-----------------------------------------------------------------------------
(* Where the links of a row put a point *)

\* The links of the INSERTs around an upright occurrence, from the inside out.
LinksOf(o) == [k \in 1..(Len(o) - 1) |-> InsertLink(o[Len(o) - k].entity)]

LEMMA DrawnFollows ==
  ASSUME InputInv, NEW o \in Occurrences, Upright(o), NEW q, OutOfOcs(Target(o), q) \in Point
  PROVE  \E d \in [0..(Len(o) - 1) -> Point] :
           /\ d[0] = OutOfOcs(Target(o), q)
           /\ \A k \in 1..(Len(o) - 1) : d[k] = ApplyLink(d[k - 1], LinksOf(o)[k])
           /\ Drawn(o, q) = d[Len(o) - 1]
  <1> DEFINE n == Len(o) - 1
             s == OutOfOcs(Target(o), q)
             own == IF Target(o).type \in OcsTypes THEN OutOfOcs(Target(o), q) ELSE q
             D(l) == [k \in 0..n |-> IF k > 0 THEN Inserted(o[n + 1 - k].entity, l[k - 1])
                                     ELSE own]
             step == [k \in 1..n |-> [x \in Point |-> Inserted(o[n + 1 - k].entity, x)]]
  <1>0. n \in Nat /\ Len(o) = n + 1
    BY OccurrenceTyped
  <1>1. s \in Point
    OBVIOUS
  <1>2. ASSUME NEW k \in 1..n, NEW x \in Point
        PROVE  /\ Inserted(o[n + 1 - k].entity, x) = ApplyLink(x, LinksOf(o)[k])
               /\ Inserted(o[n + 1 - k].entity, x) \in Point
    <2>1. n + 1 - k \in 1..(Len(o) - 1) /\ Len(o) - k = n + 1 - k
      BY <1>0
    <2>2. Way(o[n + 1 - k].entity) /\ Plainly(o[n + 1 - k].entity)
      BY <2>1, TrailInserts DEF Upright, Plainly
    <2>3. LinksOf(o)[k] = InsertLink(o[n + 1 - k].entity)
      BY <2>1 DEF LinksOf
    <2> QED
      BY <2>2, <2>3, InsertedIsLinked
  <1>3. step \in [1..n -> [Point -> Point]]
    BY <1>2
  <1>4. PICK g \in [0..n -> Point] : Follows(g, s, step, n)
    <2> HIDE DEF step, n, s
    <2> QED
      BY <1>0, <1>1, <1>3, IntervalRecursion
  <1>13. own = s
    BY DEF Upright, OutOfOcs
  <1> HIDE DEF s, own
  <1>5. ASSUME NEW k \in 1..n PROVE g[k] = Inserted(o[n + 1 - k].entity, g[k - 1])
    <2>1. g[k - 1] \in Point
      BY <1>0
    <2> QED
      BY <1>4, <2>1 DEF Follows
  <1>6. g = D(g)
    BY <1>0, <1>4, <1>5, <1>13 DEF Follows
  <1>7. Drawn(o, q) = (CHOOSE l : l = D(l))[n]
    BY DEF Drawn, own
  <1> DEFINE d == CHOOSE l : l = D(l)
  <1>8. d = D(d)
    <2> HIDE DEF D
    <2> QED
      BY <1>6
  <1> HIDE DEF d
  <1>9. d[0] = s /\ \A k \in 1..n : d[k] = Inserted(o[n + 1 - k].entity, d[k - 1])
    <2>1. d[0] = own
      BY <1>0, <1>8
    <2>2. \A k \in 1..n : d[k] = Inserted(o[n + 1 - k].entity, d[k - 1])
      BY <1>0, <1>8
    <2> QED
      BY <1>13, <2>1, <2>2
  <1>10. \A k \in 0..n : d[k] \in Point
    <2> DEFINE T == {k \in 0..n : d[k] \in Point}
    <2>1. 0 \in T
      BY <1>0, <1>1, <1>9
    <2>2. \A k \in 1..n : k - 1 \in T => k \in T
      BY <1>0, <1>2, <1>9
    <2> HIDE DEF T
    <2>3. \A k \in 0..n : k \in T
      BY <1>0, <2>1, <2>2, IntervalInduction
    <2> QED
      BY <2>3 DEF T
  <1>11. d \in [0..n -> Point]
    BY <1>8, <1>10
  <1>12. ASSUME NEW k \in 1..n PROVE d[k] = ApplyLink(d[k - 1], LinksOf(o)[k])
    <2>1. d[k - 1] \in Point
      BY <1>0, <1>10
    <2> QED
      BY <1>2, <1>9, <2>1
  <1> QED
    BY <1>7, <1>9, <1>11, <1>12 DEF d, s

\* Placed runs along any links that take points to points.
LEMMA PlacedFollows ==
  ASSUME NEW row, Len(row.links) \in Nat, NEW q \in Point,
         \A k \in 1..Len(row.links), x \in Point : ApplyLink(x, row.links[k]) \in Point
  PROVE  \E d \in [0..Len(row.links) -> Point] :
           /\ d[0] = q
           /\ \A k \in 1..Len(row.links) : d[k] = ApplyLink(d[k - 1], row.links[k])
           /\ Placed(row, q) = d[Len(row.links)]
  <1> DEFINE n == Len(row.links)
             D(l) == [k \in 0..n |-> IF k = 0 THEN q
                                     ELSE ApplyLink(l[k - 1], row.links[k])]
             step == [k \in 1..n |-> [x \in Point |-> ApplyLink(x, row.links[k])]]
  <1>3. step \in [1..n -> [Point -> Point]]
    OBVIOUS
  <1>4. PICK g \in [0..n -> Point] : Follows(g, q, step, n)
    <2> HIDE DEF step
    <2> QED
      BY <1>3, IntervalRecursion
  <1>5. ASSUME NEW k \in 1..n PROVE g[k] = ApplyLink(g[k - 1], row.links[k])
    <2>1. g[k - 1] \in Point
      OBVIOUS
    <2> QED
      BY <1>4, <2>1 DEF Follows
  <1>6. g = D(g)
    BY <1>4, <1>5 DEF Follows
  <1>7. Placed(row, q) = (CHOOSE l : l = D(l))[n]
    BY DEF Placed
  <1> DEFINE d == CHOOSE l : l = D(l)
  <1>8. d = D(d)
    <2> HIDE DEF D
    <2> QED
      BY <1>6
  <1>0. n \in Nat
    OBVIOUS
  <1> HIDE DEF d, n
  <1>9. d[0] = q /\ \A k \in 1..n : d[k] = ApplyLink(d[k - 1], row.links[k])
    BY <1>0, <1>8
  <1>10. \A k \in 0..n : d[k] \in Point
    <2> DEFINE T == {k \in 0..n : d[k] \in Point}
    <2>1. 0 \in T
      BY <1>0, <1>9
    <2>2. \A k \in 1..n : k - 1 \in T => k \in T
      BY <1>0, <1>9 DEF n
    <2> HIDE DEF T
    <2>3. \A k \in 0..n : k \in T
      BY <1>0, <2>1, <2>2, IntervalInduction
    <2> QED
      BY <2>3 DEF T
  <1>11. d \in [0..n -> Point]
    BY <1>8, <1>10
  <1> QED
    BY <1>7, <1>9, <1>11 DEF d, n

\* The links of a row put a point where the drawing has it.
LEMMA LinksPlace ==
  ASSUME InputInv, NEW o \in Occurrences, Upright(o), ExtrusionDecline(Target(o)) = "none",
         NEW row, row.links = ExtrusionLinks(Target(o)) \o LinksOf(o), NEW q \in Point
  PROVE  Placed(row, q) = Drawn(o, q)
  <1> DEFINE n == Len(o) - 1
             e == Target(o)
             own == ExtrusionLinks(e)
             up == LinksOf(o)
             s == Len(own)
  <1>0. n \in Nat /\ Len(o) = n + 1
    BY OccurrenceTyped
  <1>1. List(own) /\ ((e.extrusion[3] < 0 /\ s = 1) \/ (~(e.extrusion[3] < 0) /\ s = 0))
    <2>1. List(own)
      BY ExtrusionLinksSound
    <2>2. ~(e.extrusion[3] < 0) => own = <<>>
      BY DEF ExtrusionLinks
    <2>3. e.extrusion[3] < 0 => \E x : own = <<x>>
      BY DEF ExtrusionLinks
    <2>4. \A x : Len(<<x>>) = 1
      OBVIOUS
    <2> HIDE DEF own, e
    <2>5. CASE e.extrusion[3] < 0
      <3>1. s = 1
        BY <2>3, <2>4, <2>5 DEF s
      <3> QED
        BY <2>1, <2>5, <3>1, Zenon
    <2>6. CASE ~(e.extrusion[3] < 0)
      <3>1. s = 0
        BY <2>2, <2>6, EmptyList DEF s
      <3> QED
        BY <2>1, <2>6, <3>1, Zenon
    <2> QED
      BY <2>5, <2>6
  <1>2. List(up) /\ Len(up) = n
    <2>1. up \in [1..n -> Range(up)]
      BY DEF LinksOf, Range
    <2>2. up \in Seq(Range(up))
      BY <1>0, <2>1, SeqDef
    <2> HIDE DEF up, n
    <2>3. DOMAIN up = 1..n /\ DOMAIN up = 1..Len(up) /\ Len(up) \in Nat
      BY <2>1, <2>2, LenProperties
    <2> QED
      BY <1>0, <2>2, <2>3 DEF List
  <1>3. /\ Len(row.links) = s + n
        /\ \A k \in 1..s : row.links[k] = own[k]
        /\ \A k \in 1..n : row.links[s + k] = up[k]
    <2> DEFINE S == Range(own) \cup Range(up)
    <2>1. own \in Seq(S) /\ up \in Seq(S)
      BY <1>1, <1>2, SeqMonotonic DEF List
    <2>2. /\ Len(own \o up) = s + n
          /\ \A i \in 1..(s + n) : (own \o up)[i] = IF i <= s THEN own[i] ELSE up[i - s]
      <3> HIDE DEF S, own, up, s, n
      <3>1. /\ Len(own \o up) = Len(own) + Len(up)
            /\ \A i \in 1..(Len(own) + Len(up)) :
                 (own \o up)[i] = IF i <= Len(own) THEN own[i] ELSE up[i - Len(own)]
        BY <2>1, ConcatProperties
      <3> QED
        BY <1>2, <3>1 DEF s
    <2>3. s \in Nat
      BY <1>1
    <2>4. row.links = own \o up
      OBVIOUS
    <2> HIDE DEF own, up, s, n
    <2>5. \A k \in 1..s : row.links[k] = own[k]
      BY <1>0, <2>2, <2>3, <2>4
    <2>6. ASSUME NEW k \in 1..n PROVE row.links[s + k] = up[k]
      <3>1. s + k \in 1..(s + n) /\ ~(s + k <= s) /\ (s + k) - s = k
        BY <1>0, <2>3
      <3> QED
        BY <2>2, <2>4, <3>1
    <2> QED
      BY <2>2, <2>4, <2>5, <2>6
  <1>4. \A x \in Point : e.extrusion[3] < 0 => ApplyLink(x, own[1]) = OutOfOcs(e, x)
    BY FlippedIsLinked
  <1>5. \A x \in Point : OutOfOcs(e, x) \in Point
    BY DEF OutOfOcs, Point
  <1>6. PICK d \in [0..n -> Point] :
          /\ d[0] = OutOfOcs(e, q)
          /\ \A k \in 1..n : d[k] = ApplyLink(d[k - 1], up[k])
          /\ Drawn(o, q) = d[n]
    BY <1>5, DrawnFollows
  <1>7. ASSUME NEW k \in 1..n, NEW x \in Point
        PROVE  ApplyLink(x, up[k]) \in Point
    <2>1. n + 1 - k \in 1..(Len(o) - 1) /\ Len(o) - k = n + 1 - k
      BY <1>0
    <2>2. Way(o[n + 1 - k].entity) /\ Plainly(o[n + 1 - k].entity)
      BY <2>1, TrailInserts DEF Upright, Plainly
    <2>3. up[k] = InsertLink(o[n + 1 - k].entity)
      BY <2>1 DEF LinksOf
    <2> QED
      BY <2>2, <2>3, InsertedIsLinked
  <1> HIDE DEF n, e, own, up, s
  <1>8. ASSUME NEW k \in 1..(s + n), NEW x \in Point
        PROVE  ApplyLink(x, row.links[k]) \in Point
    <2>1. CASE k <= s
      <3>1. s = 1 /\ k = 1 /\ e.extrusion[3] < 0
        BY <1>0, <1>1, <2>1
      <3> QED
        BY <1>3, <1>4, <1>5, <3>1
    <2>2. CASE ~(k <= s)
      <3>1. k - s \in 1..n /\ s + (k - s) = k
        BY <1>0, <1>1, <2>2
      <3> QED
        BY <1>3, <1>7, <3>1
    <2> QED
      BY <2>1, <2>2
  <1>9. Len(row.links) \in Nat
    BY <1>0, <1>1, <1>3
  <1>10. PICK g \in [0..(s + n) -> Point] :
           /\ g[0] = q
           /\ \A k \in 1..(s + n) : g[k] = ApplyLink(g[k - 1], row.links[k])
           /\ Placed(row, q) = g[s + n]
    <2>1. \A k \in 1..Len(row.links), x \in Point : ApplyLink(x, row.links[k]) \in Point
      BY <1>3, <1>8
    <2>2. \E g \in [0..Len(row.links) -> Point] :
            /\ g[0] = q
            /\ \A k \in 1..Len(row.links) : g[k] = ApplyLink(g[k - 1], row.links[k])
            /\ Placed(row, q) = g[Len(row.links)]
      BY <1>9, <2>1, PlacedFollows
    <2>3. Len(row.links) = s + n
      BY <1>3
    <2> QED
      BY <2>2, <2>3, Zenon
  <1>11. g[s] = d[0]
    <2>1. CASE e.extrusion[3] < 0 /\ s = 1
      <3>1. g[1] = ApplyLink(g[0], row.links[1]) /\ row.links[1] = own[1]
        BY <1>0, <1>3, <1>10, <2>1
      <3> QED
        BY <1>4, <1>6, <1>10, <2>1, <3>1
    <2>2. CASE ~(e.extrusion[3] < 0) /\ s = 0
      BY <1>6, <1>10, <2>2 DEF OutOfOcs
    <2> QED
      BY <1>1, <2>1, <2>2
  <1>12. g[s + n] = d[n]
    <2> DEFINE T == {k \in 0..n : g[s + k] = d[k]}
    <2>1. 0 \in T
      BY <1>0, <1>1, <1>11
    <2>2. ASSUME NEW k \in 1..n, k - 1 \in T PROVE k \in T
      <3>1. s + k \in 1..(s + n) /\ (s + k) - 1 = s + (k - 1)
        BY <1>0, <1>1
      <3>2. g[s + (k - 1)] = d[k - 1]
        BY <2>2
      <3>3. g[s + k] = ApplyLink(g[s + (k - 1)], up[k])
        BY <1>3, <1>10, <3>1
      <3> QED
        BY <1>0, <1>6, <3>2, <3>3
    <2> HIDE DEF T
    <2>3. \A k \in 0..n : k \in T
      BY <1>0, <2>1, <2>2, IntervalInduction
    <2> QED
      BY <1>0, <2>3 DEF T
  <1> QED
    BY <1>6, <1>10, <1>12

-----------------------------------------------------------------------------
(* Heights *)

\* The common z is the z of any of the points.
LEMMA ConstZHeight ==
  ASSUME NEW zs, NEW z \in zs, ~Declined(ConstZ(zs))
  PROVE  ConstZ(zs).z = z
  <1>1. ConstZ(zs) = [z |-> CHOOSE x \in zs : TRUE] /\ \A a, b \in zs : a = b
    BY DegenerateDeclined, DeclineDeclined DEF ConstZ
  <1>2. (CHOOSE x \in zs : TRUE) \in zs
    OBVIOUS
  <1> QED
    BY <1>1, <1>2

LEMMA RingHeight ==
  ASSUME NEW contours, NEW z, ~Declined(Ring(contours, z))
  PROVE  Ring(contours, z).elevation = z
  BY DegenerateDeclined DEF Ring, Figure

\* The elevation of a figure is the height its entity is stored with.
LEMMA MappedHeight ==
  ASSUME NEW e, Readable(e), NEW mode, ~Declined(MapGeometry(e, mode)),
         e.type = "POLYLINE" => Height(e) = 0
  PROVE  MapGeometry(e, mode).elevation = Height(e) /\ Height(e) \in Number
  <1> DEFINE m == MapGeometry(e, mode)
  <1>1. CASE e.type \in HatchTypes
    <2>1. m = MapHatch(e) /\ Height(e) = e.elevation
      BY <1>1 DEF MapGeometry, HatchTypes, TextTypes, DimensionTypes, Height
    <2>2. MapHatch(e) = Ring([i \in DOMAIN e.paths |-> PathContour(e.paths[i])], e.elevation)
      BY <2>1, DegenerateDeclined, DeclineDeclined DEF MapHatch
    <2> QED
      BY <1>1, <2>1, <2>2, RingHeight DEF Readable
  <1>2. CASE e.type = "POLYLINE"
    <2>1. m = MapPolyline(e) /\ Height(e) = e.elevation
      BY <1>2 DEF MapGeometry, HatchTypes, TextTypes, DimensionTypes, Height
    <2>2. m.elevation = 0
      BY <2>1, DegenerateDeclined, DeclineDeclined DEF MapPolyline, Figure
    <2> QED
      BY <1>2, <2>1, <2>2 DEF Number
  <1>3. CASE e.type = "LINE"
    <2>1. m = MapLine(e) /\ Height(e) = e.start[3]
      BY <1>3 DEF MapGeometry, HatchTypes, TextTypes, DimensionTypes, ThreeDTypes, Height
    <2>2. /\ ~Declined(ConstZ({e.start[3], e.end[3]}))
          /\ m.elevation = ConstZ({e.start[3], e.end[3]}).z
      BY <2>1, DegenerateDeclined DEF MapLine, Figure
    <2>3. m.elevation = e.start[3]
      BY <2>2, ConstZHeight
    <2> QED
      BY <1>3, <2>1, <2>3 DEF Readable
  <1>4. CASE e.type = "LWPOLYLINE"
    <2>1. m = MapLwPolyline(e, mode) /\ Height(e) = e.elevation
      BY <1>4 DEF MapGeometry, HatchTypes, TextTypes, DimensionTypes, ThreeDTypes, Height
    <2>2. m.elevation = e.elevation
      BY <2>1, DegenerateDeclined, RingHeight DEF MapLwPolyline, Figure
    <2> QED
      BY <1>4, <2>1, <2>2 DEF Readable
  <1>5. CASE e.type = "ARC"
    <2>1. m = MapArc(e) /\ Height(e) = e.center[3]
      BY <1>5 DEF MapGeometry, HatchTypes, TextTypes, DimensionTypes, ThreeDTypes, Height
    <2>2. /\ ~Declined(ConstZ({e.center[3]})) /\ m.elevation = ConstZ({e.center[3]}).z
      BY <2>1, DegenerateDeclined DEF MapArc, Figure
    <2>3. m.elevation = e.center[3]
      BY <2>2, ConstZHeight
    <2> QED
      BY <1>5, <2>1, <2>3 DEF Readable
  <1>6. CASE e.type = "CIRCLE"
    <2>1. m = MapCircle(e) /\ Height(e) = e.center[3]
      BY <1>6 DEF MapGeometry, HatchTypes, TextTypes, DimensionTypes, ThreeDTypes, Height
    <2>2. /\ ~Declined(ConstZ({e.center[3]})) /\ m.elevation = ConstZ({e.center[3]}).z
      BY <2>1, DegenerateDeclined DEF MapCircle, Figure
    <2>3. m.elevation = e.center[3]
      BY <2>2, ConstZHeight
    <2> QED
      BY <1>6, <2>1, <2>3 DEF Readable
  <1>7. CASE e.type = "ELLIPSE"
    <2>1. m = MapEllipse(e, mode) /\ Height(e) = e.center[3]
      BY <1>7 DEF MapGeometry, HatchTypes, TextTypes, DimensionTypes, ThreeDTypes, Height
    <2>2. /\ ~Declined(ConstZ({e.center[3], e.major[3]}))
          /\ m.elevation = ConstZ({e.center[3], e.major[3]}).z
      BY <2>1, DegenerateDeclined, DeclineDeclined DEF MapEllipse, Figure
    <2>3. m.elevation = e.center[3]
      BY <2>2, ConstZHeight
    <2> QED
      BY <1>7, <2>1, <2>3 DEF Readable
  <1>8. CASE e.type = "SPLINE"
    <2> DEFINE zs == {p[3] : p \in Range(e.controls)}
    <2>1. m = MapSpline(e) /\ Height(e) = e.controls[1][3]
      BY <1>8 DEF MapGeometry, HatchTypes, TextTypes, DimensionTypes, ThreeDTypes, Height
    <2>2. ~Declined(ConstZ(zs)) /\ m.elevation = ConstZ(zs).z /\ Len(e.controls) # 0
      <3> HIDE DEF zs
      <3>1. Len(e.controls) # 0
        BY <2>1, DegenerateDeclined, DeclineDeclined DEF MapSpline
      <3>2. ~Declined(ConstZ(zs)) /\ m.elevation = ConstZ(zs).z
        BY <2>1, <3>1, DegenerateDeclined, DeclineDeclined DEF MapSpline, Figure, zs
      <3> QED
        BY <3>1, <3>2
    <2>3. List(e.controls) /\ \A p \in Range(e.controls) : p[3] \in Number
      BY <1>8 DEF Readable
    <2>4. e.controls[1] \in Range(e.controls)
      BY <2>2, <2>3, ListDomain
    <2>5. e.controls[1][3] \in zs
      BY <2>4
    <2> HIDE DEF zs
    <2> QED
      BY <2>1, <2>2, <2>3, <2>4, <2>5, ConstZHeight
  <1> QED
    BY <1>1, <1>2, <1>3, <1>4, <1>5, <1>6, <1>7, <1>8, DeclineDeclined DEF MapGeometry

\* An INSERT that leaves heights to its z: unscaled, or around none.
LEMMA InsertedHeightIsSum ==
  ASSUME NEW e, Way(e), Plainly(e), Base(e)[3] = 0, Finite(e.sz), NEW z \in Int,
         e.sz = 1 \/ z = 0
  PROVE  /\ e.insert[3] \in Int
         /\ InsertedHeight(e, z) = z + e.insert[3]
  <1>1. e.sz \in Int /\ e.insert[3] \in Int
    BY DEF Way, Readable, Number, Finite
  <1>2. ~(e.extrusion[3] < 0)
    BY WayNumbers DEF Plainly
  <1>3. e.sz * (z - Base(e)[3]) = z
    <2>1. z - Base(e)[3] = z
      OBVIOUS
    <2>2. CASE e.sz = 1
      BY <2>1, <2>2
    <2>3. CASE z = 0
      <3>1. e.sz * 0 = 0
        BY <1>1
      <3> QED
        BY <2>1, <2>3, <3>1
    <2> QED
      BY <2>2, <2>3
  <1> QED
    BY <1>1, <1>2, <1>3 DEF InsertedHeight, HeightOutOfOcs

\* Everything from the k-th entity from the inside inwards is at height 0.
Flat(o, k) ==
  /\ Height(Target(o)) = 0
  /\ \A j \in (Len(o) - k)..(Len(o) - 1) : o[j].entity.insert[3] = 0

\* In a level drawing the height is the sum of the heights on the way.
LEMMA LevelPlaces ==
  ASSUME InputInv, NEW o \in Occurrences, Upright(o), Level(o),
         ~Declined(MapGeometry(Target(o), Mode)),
         NEW elevation, elevation = Plus(MapGeometry(Target(o), Mode).elevation, SumZ(o)),
         Finite(elevation)
  PROVE  elevation = DrawnHeight(o)
  <1> DEFINE n == Len(o) - 1
             H == Height(Target(o))
             own == IF Target(o).type \in OcsTypes THEN HeightOutOfOcs(Target(o), H) ELSE H
             E(k) == o[n + 1 - k].entity
             D(l) == [k \in 0..n |-> IF k > 0 THEN InsertedHeight(E(k), l[k - 1]) ELSE own]
  <1>0. n \in Nat /\ Len(o) = n + 1
    BY OccurrenceTyped
  <1>1. MapGeometry(Target(o), Mode).elevation = H /\ H \in Number
    <2>1. Target(o) \in EntitiesOf(input.doc)
      BY OccurrenceTyped DEF Target, Last, Items
    <2> QED
      BY <2>1, EntitiesReadable, MappedHeight DEF Level
  <1>2. PICK z \in [0..n -> Number] :
           /\ z[0] = 0
           /\ \A k \in 1..n : z[k] = Plus(z[k - 1], o[k].entity.insert[3])
           /\ SumZ(o) = z[n]
    BY SumZFollows
  <1>3. H \in Int /\ z[n] \in Int /\ elevation = H + z[n]
    BY <1>0, <1>1, <1>2 DEF Plus, Finite, Number
  <1>4. own = H
    <2>1. Target(o).extrusion[3] < 0 => H = 0
      BY DEF Level
    <2> HIDE DEF H
    <2> QED
      BY <1>3, <2>1 DEF HeightOutOfOcs
  <1>5. ASSUME NEW k \in 1..n
        PROVE  /\ Way(E(k)) /\ Plainly(E(k)) /\ Base(E(k))[3] = 0 /\ Finite(E(k).sz)
               /\ E(k).sz = 1 \/ Flat(o, k - 1)
    <2>1. n + 1 - k \in 1..(Len(o) - 1)
      BY <1>0
    <2>2. Way(E(k)) /\ Plainly(E(k))
      BY <2>1, TrailInserts DEF Upright, Plainly
    <2>3. /\ Base(E(k))[3] = 0 /\ Finite(E(k).sz)
          /\ E(k).sz = 1 \/ FlatBelow(o, n + 1 - k)
      BY <2>1 DEF Level
    <2>4. (n + 1 - k) + 1 = Len(o) - (k - 1)
      BY <1>0
    <2>5. FlatBelow(o, n + 1 - k) => Flat(o, k - 1)
      BY <2>4 DEF FlatBelow, Flat
    <2> QED
      BY <2>2, <2>3, <2>5
  <1>6. ASSUME NEW k \in 1..n PROVE E(k).insert[3] \in Int
    <2>1. Way(E(k))
      BY <1>5
    <2> QED
      BY <2>1 DEF Way, Readable, Number, Finite
  <1> HIDE DEF H, own
  <1> DEFINE step == [k \in 1..n |-> [x \in Int |-> x + E(k).insert[3]]]
  <1>7. ASSUME NEW k \in 1..n
        PROVE  z[n - (k - 1)] = Plus(z[n - k], E(k).insert[3])
    <2>1. n + 1 - k \in 1..n /\ (n + 1 - k) - 1 = n - k /\ n - (k - 1) = n + 1 - k
      BY <1>0
    <2> QED
      BY <1>2, <2>1
  <1>8. step \in [1..n -> [Int -> Int]]
    <2> HIDE DEF E
    <2> QED
      BY <1>6
  <1>9. PICK g \in [0..n -> Int] : Follows(g, H, step, n)
    <2> HIDE DEF step, n
    <2> QED
      BY <1>0, <1>3, <1>8, IntervalRecursion
  <1> HIDE DEF E
  <1>10. g[0] = H /\ \A k \in 1..n : g[k] = g[k - 1] + E(k).insert[3]
    <2>1. ASSUME NEW k \in 1..n PROVE g[k] = g[k - 1] + E(k).insert[3]
      <3>1. g[k - 1] \in Int
        BY <1>0
      <3> QED
        BY <1>9, <3>1 DEF Follows
    <2> QED
      BY <1>9, <2>1 DEF Follows
  <1>11. \A k \in 0..n : z[k] \in Int
    <2> DEFINE T == {k \in 0..n : z[k] \in Int}
    <2>1. 0 \in T
      BY <1>0, <1>2
    <2>2. ASSUME NEW k \in 1..n, k - 1 \in T PROVE k \in T
      <3>1. /\ n + 1 - k \in 1..n /\ k \in 0..n
            /\ n - (n + 1 - k) = k - 1 /\ n - ((n + 1 - k) - 1) = k
        BY <1>0
      <3>2. z[k] = Plus(z[k - 1], E(n + 1 - k).insert[3])
        BY <1>7, <3>1
      <3> QED
        BY <1>6, <2>2, <3>1, <3>2 DEF Plus, Finite
    <2> HIDE DEF T
    <2>3. \A k \in 0..n : k \in T
      BY <1>0, <2>1, <2>2, IntervalInduction
    <2> QED
      BY <2>3 DEF T
  <1>12. \A k \in 0..n : g[k] + z[n - k] = H + z[n]
    <2> DEFINE T == {k \in 0..n : g[k] + z[n - k] = H + z[n]}
    <2>1. 0 \in T
      BY <1>0, <1>10
    <2>2. ASSUME NEW k \in 1..n, k - 1 \in T PROVE k \in T
      <3>1. /\ k \in 0..n /\ k - 1 \in 0..n /\ n - k \in 0..n /\ n - (k - 1) \in 0..n
        BY <1>0
      <3>2. z[n - k] \in Int /\ g[k - 1] \in Int /\ E(k).insert[3] \in Int
        BY <1>6, <1>11, <3>1
      <3>3. z[n - (k - 1)] = z[n - k] + E(k).insert[3]
        <4>1. \A x, y \in Int : Plus(x, y) = x + y
          BY NonFiniteAssumption DEF Plus, Finite
        <4> QED
          BY <1>7, <3>2, <4>1
      <3>4. g[k] = g[k - 1] + E(k).insert[3]
        BY <1>10
      <3>5. g[k - 1] + z[n - (k - 1)] = H + z[n]
        BY <2>2
      <3>6. g[k] + z[n - k] = g[k - 1] + z[n - (k - 1)]
        BY <3>2, <3>3, <3>4
      <3> QED
        BY <3>1, <3>5, <3>6
    <2> HIDE DEF T
    <2>3. \A k \in 0..n : k \in T
      BY <1>0, <2>1, <2>2, IntervalInduction
    <2> QED
      BY <2>3 DEF T
  <1>13. \A k \in 0..n : Flat(o, k) => g[k] = 0
    <2> DEFINE T == {k \in 0..n : Flat(o, k) => g[k] = 0}
    <2>1. 0 \in T
      BY <1>0, <1>10 DEF Flat, H
    <2>2. ASSUME NEW k \in 1..n, k - 1 \in T PROVE k \in T
      <3>1. Flat(o, k) => Flat(o, k - 1) /\ E(k).insert[3] = 0
        BY <1>0 DEF Flat, E
      <3> QED
        BY <1>10, <2>2, <3>1
    <2> HIDE DEF T
    <2>3. \A k \in 0..n : k \in T
      BY <1>0, <2>1, <2>2, IntervalInduction
    <2> QED
      BY <2>3 DEF T
  <1>14. ASSUME NEW k \in 1..n
         PROVE  InsertedHeight(E(k), g[k - 1]) = g[k]
    <2>1. k - 1 \in 0..n /\ g[k - 1] \in Int
      BY <1>0
    <2>2. E(k).sz = 1 \/ g[k - 1] = 0
      BY <1>5, <1>13, <2>1
    <2>3. InsertedHeight(E(k), g[k - 1]) = g[k - 1] + E(k).insert[3]
      BY <1>5, <2>1, <2>2, InsertedHeightIsSum
    <2> QED
      BY <1>10, <2>3
  <1>15. g = D(g)
    BY <1>0, <1>4, <1>10, <1>14
  <1>16. DrawnHeight(o) = (CHOOSE l : l = D(l))[n]
    BY DEF DrawnHeight, own, E, H
  <1> DEFINE h == CHOOSE l : l = D(l)
  <1>17. h = D(h)
    <2> HIDE DEF D
    <2> QED
      BY <1>15
  <1> HIDE DEF h
  <1>18. h[0] = H /\ \A k \in 1..n : h[k] = InsertedHeight(E(k), h[k - 1])
    BY <1>0, <1>4, <1>17
  <1>19. \A k \in 0..n : h[k] = g[k]
    <2> DEFINE T == {k \in 0..n : h[k] = g[k]}
    <2>1. 0 \in T
      BY <1>0, <1>10, <1>18
    <2>2. \A k \in 1..n : k - 1 \in T => k \in T
      BY <1>0, <1>14, <1>18
    <2> HIDE DEF T
    <2>3. \A k \in 0..n : k \in T
      BY <1>0, <2>1, <2>2, IntervalInduction
    <2> QED
      BY <2>3 DEF T
  <1>20. DrawnHeight(o) = g[n]
    BY <1>0, <1>16, <1>19 DEF h
  <1>21. g[n] + z[0] = H + z[n] /\ g[n] \in Int
    BY <1>0, <1>12
  <1> QED
    BY <1>2, <1>3, <1>20, <1>21

\* The row of a call for an occurrence answers it.
LEMMA LeafAnswers ==
  ASSUME InputInv, NEW o \in Occurrences, NEW call, Visits(call, o)
  PROVE  Answers(LeafRow(call), o)
  <1> DEFINE e == call.entity
             figure == MapGeometry(e, Mode)
             links == ExtrusionLinks(e) \o call.prefix
             elevation == Plus(figure.elevation, call.z)
             row == EntityRow(call, figure, links, elevation)
  <1>1. CASE \E id : LeafRow(call) = DeclineRow(call, id)
    BY <1>1 DEF DeclineRow, Answers, Visits
  <1>2. CASE /\ ExtrusionDecline(e) = "none" /\ ~Declined(figure)
             /\ Finite(elevation) /\ LeafRow(call) = row
    <2> HIDE DEF figure, links, elevation
    <2>1. /\ row.handle = call.handle /\ row.path = call.path /\ row.links = links
          /\ row.elevation = elevation
      BY DEF EntityRow
    <2> HIDE DEF row
    <2>2. ASSUME Upright(o) PROVE AsDrawn(row, o)
      <3>1. row.links = ExtrusionLinks(Target(o)) \o LinksOf(o)
        BY <2>1, <2>2 DEF Visits, LinksOf, links
      <3>2. ExtrusionDecline(Target(o)) = "none"
        BY <1>2 DEF Visits
      <3>3. Points \subseteq Point
        BY DEF Points, Point
      <3>4. \A q \in Points : Placed(row, q) = Drawn(o, q)
        BY <2>2, <3>1, <3>2, <3>3, LinksPlace
      <3>5. ASSUME Level(o) PROVE row.elevation = DrawnHeight(o)
        <4>1. elevation = Plus(MapGeometry(Target(o), Mode).elevation, SumZ(o))
          BY DEF Visits, elevation, figure
        <4>2. ~Declined(MapGeometry(Target(o), Mode))
          BY <1>2 DEF Visits, figure
        <4> QED
          BY <1>2, <2>1, <2>2, <3>5, <4>1, <4>2, LevelPlaces
      <3> QED
        BY <3>4, <3>5 DEF AsDrawn
    <2> QED
      BY <1>2, <2>1, <2>2 DEF Answers, Visits
  <1>3. \/ \E id : LeafRow(call) = DeclineRow(call, id)
        \/ /\ ExtrusionDecline(e) = "none" /\ ~Declined(figure)
           /\ Finite(elevation) /\ LeafRow(call) = row
    BY DEF LeafRow
  <1> QED
    BY <1>1, <1>2, <1>3

LEMMA DeclineAnswers ==
  ASSUME NEW o, NEW call, Visits(call, o), NEW id
  PROVE  Answers(DeclineRow(call, id), o)
  BY DEF DeclineRow, Answers, Visits

-----------------------------------------------------------------------------
(* The walk beside the occurrences *)

\* The document does not change, and with it what is owed.
LEMMA OwedStays ==
  ASSUME UNCHANGED input
  PROVE  Occurrences' = Occurrences /\ Owed' = Owed
  BY DEF Owed, Occurrences, Levels, Nested, Inside, Replaced, Blocks, InsertNames

\* Nor does the drawing.
LEMMA DrawnStays ==
  ASSUME UNCHANGED input
  PROVE  \A o, row : /\ Upright(o)' <=> Upright(o)
                     /\ Identity(o)' = Identity(o)
                     /\ AsDrawn(row, o)' <=> AsDrawn(row, o)
  <1>1. \A e : Base(e)' = Base(e)
    BY DEF Base
  <1>2. \A o, q : Drawn(o, q)' = Drawn(o, q)
    BY DEF Drawn, Inserted, Base
  <1>3. \A o : DrawnHeight(o)' = DrawnHeight(o)
    BY DEF DrawnHeight, InsertedHeight, Base
  <1>4. \A o : Level(o)' <=> Level(o)
    BY <1>1 DEF Level
  <1>5. \A o, row : AsDrawn(row, o)' <=> AsDrawn(row, o)
    BY <1>2, <1>3, <1>4 DEF AsDrawn
  <1>6. \A o : Upright(o)' <=> Upright(o)
    BY <1>1 DEF Upright
  <1> QED
    BY <1>5, <1>6 DEF Identity

\* What a step has to give for the walk to stay beside the occurrences.
LEMMA WalkedNext ==
  ASSUME UNCHANGED input, pc' # "start", pc' = "write" => todo' = <<>>,
         NEW a \in [1..Len(rows') -> Owed], NEW p \in [1..Len(todo') -> Occurrences],
         \A i \in 1..Len(rows') : Answers(rows'[i], a[i]),
         \A i \in 1..Len(todo') : Visits(todo'[i], p[i]),
         \A i, j \in 1..Len(rows') : i < j => Before(a[i], a[j]),
         \A i, j \in 1..Len(todo') : i < j => Before(p[i], p[j]),
         \A i \in 1..Len(rows'), j \in 1..Len(todo') : Before(a[i], p[j]),
         \A o \in Owed : \/ \E i \in 1..Len(rows') : a[i] = o
                         \/ \E j \in 1..Len(todo') : Below(o, p[j])
  PROVE  AnswerInv'
  <1>1. DOMAIN a = 1..Len(rows') /\ DOMAIN p = 1..Len(todo')
    OBVIOUS
  <1>2. Occurrences' = Occurrences /\ Owed' = Owed
    BY OwedStays
  <1>3. \A i \in DOMAIN a : Answers(rows[i], a[i])'
    <2>1. \A o, row : (Upright(o)' <=> Upright(o)) /\ (Identity(o)' = Identity(o))
                     /\ (AsDrawn(row, o)' <=> AsDrawn(row, o))
      BY DrawnStays
    <2> QED
      BY <1>1, <2>1 DEF Answers
  <1>4. \A i \in DOMAIN p : Visits(todo[i], p[i])'
    BY <1>1, DrawnStays DEF Visits
  <1>5. Walked(a, p)'
    BY <1>1, <1>2, <1>3, <1>4 DEF Walked
  <1>6. a \in [1..Len(rows') -> Owed'] /\ p \in [1..Len(todo') -> Occurrences']
    BY <1>2
  <1> QED
    BY <1>5, <1>6 DEF AnswerInv

\* The block path of a call names the INSERTs around its occurrence.
LEMMA PathNames ==
  ASSUME NEW o, NEW call, Visits(call, o)
  PROVE  Range(call.path) = Names(o)
  <1>1. call.path = [k \in 1..(Len(o) - 1) |-> o[k].entity.name]
    BY DEF Visits, Identity
  <1> QED
    BY <1>1 DEF Names, Range

\* A call whose INSERT is fit to expand visits an occurrence that is replaced.
LEMMA FitIsReplaced ==
  ASSUME NEW o, NEW call, Visits(call, o)
  PROVE  Replaced(o) <=> /\ input.doc.units
                         /\ call.entity.type = "INSERT"
                         /\ InsertDecline(call) = "none"
                         /\ BlockOf(call.entity) \in DOMAIN Blocks
                         /\ Blocks[BlockOf(call.entity)] # <<>>
  <1> DEFINE e == Target(o)
  <1>1. call.entity = e
    BY DEF Visits
  <1>2. Cyclic(e, call.path) <=> e.name \in Names(o)
    BY PathNames DEF Cyclic
  <1>3. InsertDecline(call) = "none" <=> /\ e.name \notin Names(o)
                                         /\ ExtrusionDecline(e) = "none"
                                         /\ InsertLinkDecline(e) = "none"
                                         /\ Finite(e.insert[3])
    <2> HIDE DEF e
    <2> QED
      BY <1>1, <1>2 DEF InsertDecline
  <1> QED
    BY <1>1, <1>3 DEF Replaced

\* One more row answers the occurrence that the next call visits.
LEMMA AnswerWalks ==
  ASSUME ExtractInv, AnswerInv, pc = "walk", todo # <<>>, NEW row, Answer(row),
         \A o \in Occurrences : Visits(Head(todo), o) => ~Replaced(o) /\ Answers(row, o)
  PROVE  AnswerInv'
  <1> DEFINE n == Len(rows)
             m == Len(todo)
  <1>1. PICK a \in [1..n -> Owed], p \in [1..m -> Occurrences] : Walked(a, p)
    BY DEF AnswerInv
  <1>2. InputInv /\ List(rows) /\ List(todo)
    BY DEF ExtractInv, WalkInv, RowsInv
  <1>3. /\ n \in Nat /\ m \in Nat \ {0} /\ Head(todo) = todo[1]
        /\ Len(rows') = n + 1 /\ rows'[n + 1] = row /\ \A i \in 1..n : rows'[i] = rows[i]
        /\ Len(todo') = m - 1 /\ \A i \in 1..(m - 1) : todo'[i] = todo[i + 1]
        /\ UNCHANGED <<input, pc>>
    BY <1>2, ListDomain, ListAppend, ListHeads DEF Answer
  <1> HIDE DEF n, m
  <1>4. p[1] \in Occurrences /\ Visits(Head(todo), p[1])
    BY <1>1, <1>3 DEF Walked
  <1>5. p[1] \in Owed /\ ~Replaced(p[1]) /\ Answers(row, p[1])
    BY <1>4 DEF Owed
  <1> DEFINE b == [i \in 1..(n + 1) |-> IF i <= n THEN a[i] ELSE p[1]]
             q == [j \in 1..(m - 1) |-> p[j + 1]]
  <1>6. b \in [1..Len(rows') -> Owed] /\ q \in [1..Len(todo') -> Occurrences]
    BY <1>3, <1>5
  <1>7. /\ b[n + 1] = p[1] /\ \A i \in 1..n : b[i] = a[i]
        /\ \A j \in 1..(m - 1) : q[j] = p[j + 1] /\ j + 1 \in 1..m
        /\ \A i \in 1..(n + 1) : i \in 1..n \/ i = n + 1
        /\ \A j \in 1..m : j = 1 \/ (j - 1 \in 1..(m - 1) /\ (j - 1) + 1 = j)
        /\ 1 \in 1..m
    BY <1>3
  <1> HIDE DEF b, q
  <1>8. /\ \A i \in 1..n : Answers(rows[i], a[i])
        /\ \A i \in 1..m : Visits(todo[i], p[i])
        /\ \A i, j \in 1..n : i < j => Before(a[i], a[j])
        /\ \A i, j \in 1..m : i < j => Before(p[i], p[j])
        /\ \A i \in 1..n, j \in 1..m : Before(a[i], p[j])
        /\ \A o \in Owed : (\E i \in 1..n : a[i] = o) \/ (\E j \in 1..m : Below(o, p[j]))
    BY <1>1 DEF Walked
  <1>9. \A i \in 1..(n + 1) : Answers(rows'[i], b[i])
    BY <1>3, <1>5, <1>7, <1>8
  <1>10. \A i \in 1..(m - 1) : Visits(todo'[i], q[i])
    BY <1>3, <1>7, <1>8
  <1>11. \A i, j \in 1..(n + 1) : i < j => Before(b[i], b[j])
    <2> TAKE i, j \in 1..(n + 1)
    <2> HAVE i < j
    <2>1. i \in 1..n
      BY <1>3
    <2> QED
      BY <1>7, <1>8, <2>1
  <1>12. \A i, j \in 1..(m - 1) : i < j => Before(q[i], q[j])
    <2> TAKE i, j \in 1..(m - 1)
    <2> HAVE i < j
    <2>1. i + 1 < j + 1 /\ i + 1 \in 1..m /\ j + 1 \in 1..m
      BY <1>3
    <2> QED
      BY <1>7, <1>8, <2>1
  <1>13. \A i \in 1..(n + 1), j \in 1..(m - 1) : Before(b[i], q[j])
    <2> TAKE i \in 1..(n + 1), j \in 1..(m - 1)
    <2>1. 1 < j + 1 /\ j + 1 \in 1..m /\ q[j] = p[j + 1]
      BY <1>3, <1>7
    <2>2. CASE i \in 1..n
      BY <1>7, <1>8, <2>1, <2>2
    <2>3. CASE i = n + 1
      BY <1>7, <1>8, <2>1, <2>3
    <2> QED
      BY <1>7, <2>2, <2>3
  <1>14. ASSUME NEW o \in Owed
         PROVE  \/ \E i \in 1..(n + 1) : b[i] = o
                \/ \E j \in 1..(m - 1) : Below(o, q[j])
    <2>1. CASE \E i \in 1..n : a[i] = o
      <3>1. PICK i \in 1..n : a[i] = o
        BY <2>1
      <3>2. i \in 1..(n + 1) /\ b[i] = o
        BY <1>3, <1>7, <3>1
      <3> QED
        BY <3>2
    <2>2. CASE Below(o, p[1])
      <3>1. o \in Occurrences
        BY DEF Owed
      <3>2. o = p[1]
        BY <1>2, <1>4, <1>5, <2>2, <3>1, BelowChild
      <3>3. n + 1 \in 1..(n + 1) /\ b[n + 1] = o
        BY <1>3, <1>7, <3>2
      <3> QED
        BY <3>3
    <2>3. CASE \E j \in 1..m : j # 1 /\ Below(o, p[j])
      <3>1. PICK j \in 1..m : j # 1 /\ Below(o, p[j])
        BY <2>3
      <3>2. j - 1 \in 1..(m - 1) /\ q[j - 1] = p[j]
        BY <1>7, <3>1
      <3> QED
        BY <3>1, <3>2
    <2> QED
      BY <1>8, <2>1, <2>2, <2>3
  <1>15. pc' # "start" /\ ~(pc' = "write")
    BY <1>3
  <1>16. Len(rows') = n + 1 /\ Len(todo') = m - 1 /\ UNCHANGED input
    BY <1>3
  <1>17. /\ \A i \in 1..Len(rows') : Answers(rows'[i], b[i])
         /\ \A i \in 1..Len(todo') : Visits(todo'[i], q[i])
         /\ \A i, j \in 1..Len(rows') : i < j => Before(b[i], b[j])
         /\ \A i, j \in 1..Len(todo') : i < j => Before(q[i], q[j])
         /\ \A i \in 1..Len(rows'), j \in 1..Len(todo') : Before(b[i], q[j])
         /\ \A o \in Owed : \/ \E i \in 1..Len(rows') : b[i] = o
                         \/ \E j \in 1..Len(todo') : Below(o, q[j])
    BY <1>9, <1>10, <1>11, <1>12, <1>13, <1>14, <1>16, Zenon
  <1> QED
    BY <1>6, <1>15, <1>16, <1>17, WalkedNext

LEMMA LeafWalks ==
  ASSUME ExtractInv, AnswerInv, Leaf
  PROVE  AnswerInv'
  <1>1. InputInv /\ pc = "walk" /\ todo # <<>> /\ Answer(LeafRow(Head(todo)))
    BY DEF Leaf, Calling, ExtractInv
  <1>2. ASSUME NEW o \in Occurrences, Visits(Head(todo), o)
        PROVE  ~Replaced(o) /\ Answers(LeafRow(Head(todo)), o)
    <2>1. Answers(LeafRow(Head(todo)), o)
      BY <1>1, <1>2, LeafAnswers
    <2>2. Head(todo).entity.type # "INSERT"
      BY DEF Leaf, Calling
    <2> QED
      BY <1>2, <2>1, <2>2, FitIsReplaced
  <1> QED
    BY <1>1, <1>2, AnswerWalks

LEMMA DeclineWalks ==
  ASSUME ExtractInv, AnswerInv, DeclineUnits \/ DeclineInsert \/ EmptyBlock
  PROVE  AnswerInv'
  <1>1. pc = "walk" /\ todo # <<>>
    BY DEF DeclineUnits, DeclineInsert, EmptyBlock, Calling
  <1>2. PICK id : Answer(DeclineRow(Head(todo), id))
    BY DEF DeclineUnits, DeclineInsert, EmptyBlock
  <1>3. \/ ~input.doc.units
        \/ InsertDecline(Head(todo)) # "none"
        \/ Blocks[BlockOf(Head(todo).entity)] = <<>>
    BY DEF DeclineUnits, DeclineInsert, EmptyBlock
  <1>4. ASSUME NEW o \in Occurrences, Visits(Head(todo), o)
        PROVE  ~Replaced(o) /\ Answers(DeclineRow(Head(todo), id), o)
    BY <1>3, <1>4, FitIsReplaced, DeclineAnswers
  <1> QED
    BY <1>1, <1>2, <1>4, AnswerWalks

\* The entity of a block, as an occurrence.
Child(o, i) == Append(o, Item(Blocks[BlockOf(Target(o))], i))

\* The calls that emit makes for a block's entities.
BlockCalls(call) ==
  LET e == call.entity
  IN Calls(Blocks[BlockOf(e)], BlockOf(e), ChildPrefix(e, call.prefix),
           Append(call.path, e.name), Plus(call.z, e.insert[3]))

LEMMA ChildTyped ==
  ASSUME InputInv, NEW o \in Occurrences, Replaced(o),
         NEW i \in DOMAIN Blocks[BlockOf(Target(o))]
  PROVE  /\ Child(o, i) \in Occurrences
         /\ Len(Child(o, i)) = Len(o) + 1 /\ Len(o) \in Nat \ {0}
         /\ Child(o, i)[Len(o) + 1] = Item(Blocks[BlockOf(Target(o))], i)
         /\ \A k \in 1..Len(o) : Child(o, i)[k] = o[k]
         /\ Target(Child(o, i)) = Blocks[BlockOf(Target(o))][i]
         /\ Below(Child(o, i), o)
  <1>1. /\ Item(Blocks[BlockOf(Target(o))], i) \in Items
        /\ Child(o, i) \in Occurrences
    BY ChildOccurs DEF Child
  <1>2. o \in Seq(Items) /\ Len(o) \in Nat \ {0}
    BY OccurrenceTyped
  <1>3. Item(Blocks[BlockOf(Target(o))], i).entity = Blocks[BlockOf(Target(o))][i]
    BY DEF Item
  <1> QED
    BY <1>1, <1>2, <1>3, AppendItem DEF Child

\* The path of a child names one more INSERT.
LEMMA ChildPath ==
  ASSUME InputInv, NEW o \in Occurrences, NEW c \in Occurrences,
         Len(c) = Len(o) + 1, \A k \in 1..Len(o) : c[k] = o[k]
  PROVE  Append([k \in 1..(Len(o) - 1) |-> o[k].entity.name], Target(o).name)
           = [k \in 1..(Len(c) - 1) |-> c[k].entity.name]
  <1> DEFINE n == Len(o)
             s == [k \in 1..(n - 1) |-> o[k].entity.name]
             t == [k \in 1..n |-> c[k].entity.name]
  <1>1. n \in Nat \ {0} /\ Len(c) - 1 = n
    BY OccurrenceTyped
  <1>2. List(s) /\ Len(s) = n - 1
    BY <1>1, Listed
  <1>3. List(t) /\ Len(t) = n
    BY <1>1, Listed
  <1>4. /\ List(Append(s, Target(o).name)) /\ Len(Append(s, Target(o).name)) = n
        /\ Append(s, Target(o).name)[n] = Target(o).name
        /\ \A k \in 1..(n - 1) : Append(s, Target(o).name)[k] = s[k]
    <2> HIDE DEF s, n
    <2> QED
      BY <1>1, <1>2, ListAppend
  <1>5. t[n] = Target(o).name
    BY <1>1 DEF Target, Last
  <1>6. \A k \in 1..(n - 1) : t[k] = s[k]
    BY <1>1
  <1> HIDE DEF s, t, n
  <1>7. \A k \in 1..n : Append(s, Target(o).name)[k] = t[k]
    BY <1>1, <1>4, <1>5, <1>6
  <1>8. Append(s, Target(o).name) = t
    BY <1>3, <1>4, <1>7, ListsEqual
  <1> QED
    BY <1>1, <1>8 DEF s, t, n

\* The prefix of a child of a plain INSERT starts with that INSERT's link.
LEMMA ChildLinks ==
  ASSUME InputInv, NEW o \in Occurrences, NEW c \in Occurrences,
         Len(c) = Len(o) + 1, \A k \in 1..Len(o) : c[k] = o[k], Plainly(Target(o)),
         Way(Target(o))
  PROVE  ChildPrefix(Target(o), LinksOf(o)) = LinksOf(c)
  <1> DEFINE n == Len(o)
             s == LinksOf(o)
             t == LinksOf(c)
             l == InsertLink(Target(o))
  <1>1. n \in Nat \ {0} /\ Len(c) - 1 = n /\ Len(c) = n + 1
    BY OccurrenceTyped
  <1>2. List(s) /\ Len(s) = n - 1
    BY <1>1, Listed DEF LinksOf
  <1>3. List(t) /\ Len(t) = n
    BY <1>1, Listed DEF LinksOf
  <1>4. ExtrusionLinks(Target(o)) = <<>>
    BY WayNumbers DEF Plainly, ExtrusionLinks
  <1>5. List(<<l>>) /\ Len(<<l>>) = 1 /\ <<l>>[1] = l
    BY OneList
  <1>6. <<>> \o <<l>> = <<l>>
    OBVIOUS
  <1>7. ChildPrefix(Target(o), s) = <<l>> \o s
    BY <1>4, <1>6 DEF ChildPrefix
  <1>8. t[1] = l
    <2>1. 1 \in 1..(Len(c) - 1) /\ Len(c) - 1 = n /\ c[n] = o[n]
      BY <1>1
    <2> QED
      BY <2>1 DEF LinksOf, Target, Last
  <1>9. ASSUME NEW k \in 1..(n - 1) PROVE t[1 + k] = s[k]
    <2>1. /\ 1 + k \in 1..(Len(c) - 1) /\ k \in 1..(Len(o) - 1)
          /\ Len(c) - (1 + k) = n - k /\ n - k \in 1..n
      BY <1>1
    <2> QED
      BY <2>1 DEF LinksOf
  <1>10. /\ Len(<<l>> \o s) = n /\ List(<<l>> \o s)
         /\ (<<l>> \o s)[1] = l
         /\ \A k \in 1..(n - 1) : (<<l>> \o s)[1 + k] = s[k]
    <2> DEFINE h == <<l>>
    <2>1. List(h) /\ Len(h) = 1 /\ h[1] = l
      BY <1>5
    <2> HIDE DEF h, s, l, n
    <2>0. /\ Len(h \o s) = Len(h) + Len(s)
          /\ \A i \in 1..Len(h) : (h \o s)[i] = h[i]
          /\ \A i \in 1..Len(s) : (h \o s)[Len(h) + i] = s[i]
      <3>1. List(h) /\ List(s)
        BY <1>2, <2>1
      <3> QED
        BY <3>1, ListJoins
    <2>2. /\ Len(h \o s) = 1 + Len(s)
          /\ \A i \in 1..1 : (h \o s)[i] = h[i]
          /\ \A i \in 1..Len(s) : (h \o s)[1 + i] = s[i]
      BY <2>0, <2>1, Zenon
    <2>3. List(h \o s)
      BY <1>2, <2>1, ListConcat
    <2>4. Len(h \o s) = n
      BY <1>1, <1>2, <2>2
    <2>5. (h \o s)[1] = l
      BY <2>1, <2>2
    <2>6. \A k \in 1..(n - 1) : (h \o s)[1 + k] = s[k]
      BY <1>2, <2>2
    <2> QED
      BY <2>3, <2>4, <2>5, <2>6 DEF h
  <1> DEFINE g == <<l>> \o s
  <1>11. \A k \in 1..n : g[k] = t[k]
    <2> HIDE DEF s, t, l, n
    <2> TAKE k \in 1..n
    <2>1. CASE k = 1
      BY <1>8, <1>10, <2>1
    <2>2. CASE k # 1
      <3>1. k - 1 \in 1..(n - 1) /\ 1 + (k - 1) = k
        BY <1>1, <2>2
      <3> QED
        BY <1>9, <1>10, <3>1
    <2> QED
      BY <2>1, <2>2
  <1>12. List(g) /\ Len(g) = n
    BY <1>10
  <1> HIDE DEF g, t, n
  <1>13. g = t
    BY <1>3, <1>11, <1>12, ListsEqual
  <1> QED
    BY <1>7, <1>13 DEF g, t

\* The calls for a block's entities visit the children of its occurrence.
LEMMA ChildVisited ==
  ASSUME InputInv, NEW o \in Occurrences, Replaced(o), NEW call, Visits(call, o),
         NEW i \in DOMAIN Blocks[BlockOf(Target(o))]
  PROVE  Visits(BlockCalls(call)[i], Child(o, i))
  <1> DEFINE c == Child(o, i)
             e == Target(o)
             inner == BlockCalls(call)[i]
  <1>1. /\ c \in Occurrences /\ Len(c) = Len(o) + 1 /\ Len(o) \in Nat \ {0}
        /\ c[Len(o) + 1] = Item(Blocks[BlockOf(e)], i)
        /\ \A k \in 1..Len(o) : c[k] = o[k]
        /\ Target(c) = Blocks[BlockOf(e)][i] /\ Below(c, o)
    BY ChildTyped
  <1>2. /\ call.entity = e /\ call.z = SumZ(o)
        /\ call.path = [k \in 1..(Len(o) - 1) |-> o[k].entity.name]
        /\ Upright(o) => call.prefix = LinksOf(o)
    BY DEF Visits, Identity, LinksOf
  <1>3. inner = Call(Blocks[BlockOf(e)][i], <<BlockOf(e), i>>, ChildPrefix(e, call.prefix),
                     Append(call.path, e.name), Plus(call.z, e.insert[3]))
    BY <1>2 DEF BlockCalls, Calls
  <1> HIDE DEF c, inner
  <1>4. inner.entity = Target(c)
    BY <1>1, <1>3 DEF Call
  <1>5. inner.z = SumZ(c)
    BY <1>1, <1>2, <1>3, SumZChild DEF Call
  <1>6. inner.path = [k \in 1..(Len(c) - 1) |-> c[k].entity.name]
    <2>1. inner.path = Append(call.path, e.name)
      BY <1>3 DEF Call
    <2>2. Append([k \in 1..(Len(o) - 1) |-> o[k].entity.name], e.name)
            = [k \in 1..(Len(c) - 1) |-> c[k].entity.name]
      BY <1>1, ChildPath, Zenon
    <2> QED
      BY <1>2, <2>1, <2>2, Zenon
  <1>7. inner.handle = <<BlockOf(e), i>>
    BY <1>3 DEF Call
  <1>8. /\ Len(c) # 1 /\ c[Len(c) - 1].entity = e /\ Last(c).at = i
    <2>1. Len(c) - 1 = Len(o) /\ Len(c) # 1 /\ c[Len(o)] = o[Len(o)]
      BY <1>1
    <2>2. Last(c).at = i
      BY <1>1 DEF Last, Item
    <2> QED
      BY <2>1, <2>2 DEF Target, Last
  <1>9. <<inner.handle, inner.path>> = Identity(c)
    BY <1>6, <1>7, <1>8 DEF Identity
  <1>10. ASSUME Upright(c) PROVE inner.prefix = LinksOf(c)
    <2>1. \A k \in 1..Len(o) : Plainly(o[k].entity)
      BY <1>1, <1>10 DEF Upright, Plainly
    <2>2. Upright(o) /\ Plainly(e)
      <3>1. e = o[Len(o)].entity
        BY DEF Target, Last
      <3>2. Plainly(e) /\ \A k \in 1..(Len(o) - 1) : Plainly(o[k].entity)
        BY <1>1, <2>1, <3>1
      <3>3. ~(e.extrusion[3] < 0)
        <4>1. Way(e)
          BY ReplacedWay
        <4> HIDE DEF e
        <4>2. e.extrusion[3] \in Int
          BY <4>1, WayNumbers
        <4> QED
          BY <3>2, <4>2 DEF Plainly
      <3> QED
        BY <3>2, <3>3 DEF Upright, Plainly
    <2>3. Way(e)
      BY ReplacedWay
    <2>4. inner.prefix = ChildPrefix(e, LinksOf(o))
      BY <1>2, <1>3, <2>2 DEF Call
    <2> HIDE DEF e
    <2> QED
      BY <1>1, <2>2, <2>3, <2>4, ChildLinks DEF e
  <1> QED
    BY <1>4, <1>5, <1>9, <1>10 DEF Visits, LinksOf, c, inner

\* The walk goes on with the block's entities instead of its INSERT.
LEMMA ExpandWalks ==
  ASSUME ExtractInv, AnswerInv, Expand
  PROVE  AnswerInv'
  <1> DEFINE n == Len(rows)
             m == Len(todo)
             call == Head(todo)
             B == Blocks[BlockOf(call.entity)]
             k == Len(B)
             cs == BlockCalls(call)
  <1>1. PICK a \in [1..n -> Owed], p \in [1..m -> Occurrences] : Walked(a, p)
    BY DEF AnswerInv, Expand, Calling
  <1>2. InputInv /\ List(rows) /\ List(todo) /\ todo # <<>>
    BY DEF ExtractInv, WalkInv, RowsInv, Expand, Calling
  <1>3. /\ todo' = cs \o Tail(todo) /\ UNCHANGED <<input, pc, rows>> /\ pc = "walk"
        /\ input.doc.units /\ call.entity.type = "INSERT" /\ InsertDecline(call) = "none"
        /\ BlockOf(call.entity) \in DOMAIN Blocks /\ B # <<>>
    BY DEF Expand, Calling, BlockCalls
  <1>4. List(B)
    BY <1>2, <1>3, BlockEntities
  <1>5. k \in Nat /\ DOMAIN B = 1..k
    BY <1>4, ListDomain
  <1>6. List(cs) /\ Len(cs) = k
    <2>1. DOMAIN cs = 1..k /\ cs = [i \in 1..k |-> cs[i]]
      BY <1>5 DEF BlockCalls, Calls
    <2> HIDE DEF cs, k
    <2> QED
      BY <1>5, <2>1, Listed
  <1>7. /\ n \in Nat /\ m \in Nat \ {0} /\ call = todo[1]
        /\ List(Tail(todo)) /\ Len(Tail(todo)) = m - 1
        /\ \A i \in 1..(m - 1) : Tail(todo)[i] = todo[i + 1]
    BY <1>2, ListDomain, ListHeads
  <1>8. /\ Len(todo') = k + (m - 1)
        /\ \A i \in 1..k : todo'[i] = cs[i]
        /\ \A i \in 1..(m - 1) : todo'[k + i] = todo[i + 1]
    <2> HIDE DEF cs, k, m
    <2>1. /\ Len(cs \o Tail(todo)) = Len(cs) + Len(Tail(todo))
          /\ \A i \in 1..Len(cs) : (cs \o Tail(todo))[i] = cs[i]
          /\ \A i \in 1..Len(Tail(todo)) : (cs \o Tail(todo))[Len(cs) + i] = Tail(todo)[i]
      <3>1. List(cs) /\ List(Tail(todo))
        BY <1>6, <1>7
      <3> QED
        BY <3>1, ListJoins
    <2> QED
      BY <1>3, <1>6, <1>7, <2>1
  <1> DEFINE o == p[1]
  <1>9. o \in Occurrences /\ Visits(call, o) /\ Replaced(o) /\ Target(o) = call.entity
    <2>1. o \in Occurrences /\ Visits(call, o)
      <3> HIDE DEF n, m, call
      <3> QED
        BY <1>1, <1>7 DEF Walked
    <2> HIDE DEF o, call
    <2>2. Replaced(o)
      BY <1>3, <2>1, FitIsReplaced
    <2> QED
      BY <2>1, <2>2 DEF Visits
  <1>10. /\ \A i \in 1..n : Answers(rows[i], a[i])
         /\ \A i \in 1..m : Visits(todo[i], p[i])
         /\ \A i, j \in 1..n : i < j => Before(a[i], a[j])
         /\ \A i, j \in 1..m : i < j => Before(p[i], p[j])
         /\ \A i \in 1..n, j \in 1..m : Before(a[i], p[j])
         /\ \A x \in Owed : (\E i \in 1..n : a[i] = x) \/ (\E j \in 1..m : Below(x, p[j]))
    <2> HIDE DEF n, m
    <2> QED
      BY <1>1 DEF Walked
  <1>11. \A i \in 1..n : a[i] \in Occurrences
    BY <1>1 DEF Owed
  <1> HIDE DEF n, m, k, cs
  <1>12. \A i \in 1..k : /\ Child(o, i) \in Occurrences /\ Below(Child(o, i), o)
                         /\ Visits(cs[i], Child(o, i))
    <2> TAKE i \in 1..k
    <2>1. i \in DOMAIN Blocks[BlockOf(Target(o))]
      BY <1>5, <1>9
    <2> HIDE DEF o, call, B
    <2> QED
      BY <1>2, <1>9, <2>1, ChildTyped, ChildVisited DEF cs
  <1>13. \A i, j \in 1..k : i < j => Before(Child(o, i), Child(o, j))
    <2> TAKE i, j \in 1..k
    <2> HAVE i < j
    <2>1. i \in DOMAIN Blocks[BlockOf(Target(o))] /\ j \in DOMAIN Blocks[BlockOf(Target(o))]
      BY <1>5, <1>9
    <2> HIDE DEF o, call, B
    <2>2. o \in Seq(Items)
      BY <1>2, <1>9, OccurrenceTyped
    <2>3. /\ Item(Blocks[BlockOf(Target(o))], i) \in Items /\ Item(Blocks[BlockOf(Target(o))], j) \in Items
      BY <1>2, <1>9, <2>1, ChildOccurs
    <2>4. Item(Blocks[BlockOf(Target(o))], i).at < Item(Blocks[BlockOf(Target(o))], j).at
      BY DEF Item
    <2> QED
      BY <2>2, <2>3, <2>4, SiblingsInOrder DEF Child
  <1> DEFINE q == [j \in 1..(k + (m - 1)) |-> IF j <= k THEN Child(o, j) ELSE p[(j - k) + 1]]
  <1>14. /\ \A i \in 1..k : q[i] = Child(o, i) /\ i \in 1..(k + (m - 1))
         /\ \A i \in 1..(m - 1) : /\ q[k + i] = p[i + 1] /\ i + 1 \in 1..m /\ 1 < i + 1
                                  /\ k + i \in 1..(k + (m - 1))
         /\ \A j \in 1..(k + (m - 1)) : j \in 1..k \/ \E i \in 1..(m - 1) : j = k + i
    <2> HIDE DEF o
    <2>1. \A i \in 1..k : q[i] = Child(o, i) /\ i \in 1..(k + (m - 1))
      BY <1>5, <1>7
    <2>2. ASSUME NEW i \in 1..(m - 1)
          PROVE  /\ q[k + i] = p[i + 1] /\ i + 1 \in 1..m /\ 1 < i + 1
                 /\ k + i \in 1..(k + (m - 1))
      <3>1. (k + i) - k = i /\ ~(k + i <= k) /\ k + i \in 1..(k + (m - 1))
        BY <1>5, <1>7
      <3> QED
        BY <1>7, <3>1
    <2>3. ASSUME NEW j \in 1..(k + (m - 1)), j \notin 1..k
          PROVE  \E i \in 1..(m - 1) : j = k + i
      <3>1. j - k \in 1..(m - 1) /\ j = k + (j - k)
        BY <1>5, <1>7, <2>3
      <3> QED
        BY <3>1
    <2> QED
      BY <2>1, <2>2, <2>3
  <1>15. \A i \in 1..m : p[i] \in Occurrences
    BY <1>1
  <1>16. 1 \in 1..m
    BY <1>7
  <1>17. q \in [1..(k + (m - 1)) -> Occurrences]
    <2>1. \A j \in 1..(k + (m - 1)) : q[j] \in Occurrences
      <3> HIDE DEF q, o
      <3> QED
        BY <1>12, <1>14, <1>15
    <2>2. DOMAIN q = 1..(k + (m - 1)) /\ q = [j \in 1..(k + (m - 1)) |-> q[j]]
      OBVIOUS
    <2> HIDE DEF q
    <2> QED
      BY <2>1, <2>2
  <1> HIDE DEF q
  <1>18. \A j \in 1..(k + (m - 1)) : Visits(todo'[j], q[j])
    <2> HIDE DEF o, call, B
    <2> TAKE j \in 1..(k + (m - 1))
    <2>1. CASE j \in 1..k
      BY <1>8, <1>12, <1>14, <2>1
    <2>2. CASE \E i \in 1..(m - 1) : j = k + i
      <3>1. PICK i \in 1..(m - 1) : j = k + i
        BY <2>2
      <3> QED
        BY <1>8, <1>10, <1>14, <3>1
    <2> QED
      BY <1>14, <2>1, <2>2
  <1>19. \A i \in 1..(m - 1) : Before(o, p[i + 1])
    BY <1>10, <1>14, <1>16
  <1>20. \A i \in 1..n : Before(a[i], o)
    BY <1>10, <1>16
  <1> HIDE DEF o
  <1>21. \A i \in 1..k, j \in 1..(m - 1) : Before(Child(o, i), p[j + 1])
    <2> TAKE i \in 1..k, j \in 1..(m - 1)
    <2>1. p[j + 1] \in Occurrences /\ Before(o, p[j + 1])
      BY <1>14, <1>15, <1>19
    <2> QED
      BY <1>2, <1>9, <1>12, <2>1, BelowKeepsOrder
  <1>22. \A i \in 1..n, j \in 1..k : Before(a[i], Child(o, j))
    <2> TAKE i \in 1..n, j \in 1..k
    <2> QED
      BY <1>2, <1>9, <1>11, <1>12, <1>20, BelowKeepsOrder
  <1>23. \A i, j \in 1..(k + (m - 1)) : i < j => Before(q[i], q[j])
    <2> TAKE i, j \in 1..(k + (m - 1))
    <2> HAVE i < j
    <2>1. CASE i \in 1..k /\ j \in 1..k
      BY <1>13, <1>14, <2>1
    <2>2. CASE i \in 1..k /\ \E h \in 1..(m - 1) : j = k + h
      BY <1>14, <1>21, <2>2
    <2>3. CASE \E h \in 1..(m - 1) : i = k + h
      <3>1. PICK h \in 1..(m - 1) : i = k + h
        BY <2>3
      <3>2. j \notin 1..k
        BY <1>5, <3>1
      <3>3. PICK l \in 1..(m - 1) : j = k + l
        BY <1>14, <3>2
      <3>4. h + 1 < l + 1
        BY <1>5, <1>7, <3>1, <3>3
      <3> QED
        BY <1>10, <1>14, <3>1, <3>3, <3>4
    <2> QED
      BY <1>14, <2>1, <2>2, <2>3
  <1>24. \A i \in 1..n, j \in 1..(k + (m - 1)) : Before(a[i], q[j])
    <2> TAKE i \in 1..n, j \in 1..(k + (m - 1))
    <2>1. CASE j \in 1..k
      BY <1>14, <1>22, <2>1
    <2>2. CASE \E h \in 1..(m - 1) : j = k + h
      BY <1>10, <1>14, <2>2
    <2> QED
      BY <1>14, <2>1, <2>2
  <1>25. ASSUME NEW x \in Owed
         PROVE  \/ \E i \in 1..n : a[i] = x
                \/ \E j \in 1..(k + (m - 1)) : Below(x, q[j])
    <2>0. x \in Occurrences /\ ~Replaced(x)
      BY DEF Owed
    <2>1. CASE Below(x, p[1])
      <3>1. Below(x, o) /\ x # o
        BY <1>9, <2>0, <2>1 DEF o
      <3>2. PICK i \in DOMAIN Blocks[BlockOf(Target(o))] : Below(x, Child(o, i))
        BY <1>2, <1>9, <2>0, <3>1, BelowChild DEF Child
      <3>3. i \in 1..k
        BY <1>5, <1>9
      <3> QED
        BY <1>14, <3>2, <3>3
    <2>2. CASE \E j \in 1..m : j # 1 /\ Below(x, p[j])
      <3>1. PICK j \in 1..m : j # 1 /\ Below(x, p[j])
        BY <2>2
      <3>2. j - 1 \in 1..(m - 1) /\ (j - 1) + 1 = j
        BY <1>7, <3>1
      <3>3. q[k + (j - 1)] = p[j] /\ k + (j - 1) \in 1..(k + (m - 1))
        BY <1>14, <3>2
      <3> QED
        BY <3>1, <3>3
    <2> QED
      BY <1>10, <2>1, <2>2
  <1>26. Len(rows') = n /\ \A i \in 1..n : rows'[i] = rows[i]
    BY <1>3 DEF n
  <1>27. pc' # "start" /\ ~(pc' = "write") /\ UNCHANGED input
    BY <1>3
  <1>28. \A i \in 1..n : Answers(rows'[i], a[i])
    BY <1>10, <1>26
  <1>29. a \in [1..Len(rows') -> Owed] /\ q \in [1..Len(todo') -> Occurrences]
    BY <1>1, <1>8, <1>17, <1>26
  <1>30. /\ \A i \in 1..Len(rows') : Answers(rows'[i], a[i])
         /\ \A i \in 1..Len(todo') : Visits(todo'[i], q[i])
         /\ \A i, j \in 1..Len(rows') : i < j => Before(a[i], a[j])
         /\ \A i, j \in 1..Len(todo') : i < j => Before(q[i], q[j])
         /\ \A i \in 1..Len(rows'), j \in 1..Len(todo') : Before(a[i], q[j])
         /\ \A x \in Owed : \/ \E i \in 1..Len(rows') : a[i] = x
                         \/ \E j \in 1..Len(todo') : Below(x, q[j])
    BY <1>8, <1>10, <1>18, <1>23, <1>24, <1>25, <1>26, <1>28, Zenon
  <1> QED
    BY <1>27, <1>29, <1>30, WalkedNext

\* The first calls visit the entities of the modelspace, in order.
LEMMA RootVisited ==
  ASSUME InputInv, NEW i \in DOMAIN input.doc.model
  PROVE  Visits(Calls(input.doc.model, "model", <<>>, <<>>, 0)[i],
                Append(<<>>, Item(input.doc.model, i)))
  <1> DEFINE o == Append(<<>>, Item(input.doc.model, i))
             call == Calls(input.doc.model, "model", <<>>, <<>>, 0)[i]
  <1>1. call = Call(input.doc.model[i], <<"model", i>>, <<>>, <<>>, 0)
    BY DEF Calls
  <1>2. Item(input.doc.model, i) \in Items /\ o \in Occurrences
    BY RootsOccur
  <1>3. <<>> \in Seq(Items) /\ Len(<<>>) + 1 = 1
    OBVIOUS
  <1>4. Len(o) = 1 /\ o[1] = Item(input.doc.model, i)
    BY <1>2, <1>3, AppendItem
  <1> HIDE DEF o, call
  <1>5. Target(o) = input.doc.model[i] /\ Last(o).at = i
    BY <1>4 DEF Target, Last, Item
  <1>6. SumZ(o) = 0
    BY <1>2, <1>4, SumZRoot
  <1>7. Len(o) - 1 = 0
    BY <1>4
  <1>8. [k \in 1..0 |-> o[k].entity.name] = <<>>
    BY NoneListed
  <1>9. /\ [k \in 1..(Len(o) - 1) |-> o[k].entity.name] = <<>>
        /\ [k \in 1..(Len(o) - 1) |-> InsertLink(o[Len(o) - k].entity)] = <<>>
    <2>1. [k \in 1..0 |-> InsertLink(o[Len(o) - k].entity)] = <<>>
      BY NoneListed
    <2> QED
      BY <1>7, <1>8, <2>1, Zenon
  <1>10. Identity(o) = <<<<"model", i>>, <<>>>>
    BY <1>4, <1>5, <1>9 DEF Identity
  <1>11. call.entity = Target(o) /\ call.z = SumZ(o) /\ call.prefix = <<>>
         /\ <<call.handle, call.path>> = Identity(o)
    BY <1>1, <1>5, <1>6, <1>10 DEF Call
  <1> QED
    BY <1>9, <1>11 DEF Visits, o, call

LEMMA ReadWalks ==
  ASSUME ExtractInv, AnswerInv, Read
  PROVE  AnswerInv'
  <1> DEFINE model == input.doc.model
             m == Len(model)
             a == [i \in 1..0 |-> i]
             p == [i \in 1..m |-> Append(<<>>, Item(model, i))]
  <1>1. InputInv /\ List(model)
    BY ModelEntities DEF ExtractInv
  <1>2. m \in Nat /\ DOMAIN model = 1..m
    BY <1>1, ListDomain
  <1>3. rows = <<>> /\ UNCHANGED <<input, rows>> /\ pc' = "walk"
    BY DEF AnswerInv, Read
  <1>4. todo' = Calls(model, "model", <<>>, <<>>, 0)
    BY DEF Read
  <1>5. Len(todo') = m
    <2>1. DOMAIN todo' = 1..m /\ todo' = [i \in 1..m |-> todo'[i]]
      BY <1>2, <1>4 DEF Calls
    <2> HIDE DEF m
    <2> QED
      BY <1>2, <2>1, Listed
  <1>6. Len(rows') = 0
    BY <1>3, EmptyList
  <1>7. ASSUME NEW i \in 1..m
        PROVE  /\ p[i] = Append(<<>>, Item(model, i)) /\ p[i] \in Occurrences
               /\ Visits(todo'[i], p[i])
    BY <1>1, <1>2, <1>4, RootsOccur, RootVisited
  <1>8. a \in [1..0 -> Owed]
    OBVIOUS
  <1>9. p \in [1..m -> Occurrences]
    BY <1>7
  <1>10. \A i, j \in 1..m : i < j => Before(p[i], p[j])
    <2> TAKE i, j \in 1..m
    <2> HAVE i < j
    <2> HIDE DEF m
    <2>1. Item(model, i) \in Items /\ Item(model, j) \in Items
      BY <1>1, <1>2, RootsOccur
    <2>2. Item(model, i).at < Item(model, j).at
      BY DEF Item
    <2>3. <<>> \in Seq(Items)
      OBVIOUS
    <2>4. Before(Append(<<>>, Item(model, i)), Append(<<>>, Item(model, j)))
      BY <2>1, <2>2, <2>3, SiblingsInOrder
    <2> QED
      BY <1>7, <2>4
  <1>11. ASSUME NEW o \in Owed
         PROVE  \E j \in 1..m : Below(o, p[j])
    <2>1. o \in Occurrences
      BY DEF Owed
    <2>2. PICK i \in DOMAIN model : Below(o, Append(<<>>, Item(model, i)))
      BY <1>1, <2>1, RootsOccur
    <2> QED
      BY <1>2, <1>7, <2>2
  <1> HIDE DEF a, p, m
  <1>12. \A i \in 1..0 : FALSE
    OBVIOUS
  <1>13. /\ \A i \in 1..Len(rows') : Answers(rows'[i], a[i])
         /\ \A i \in 1..Len(todo') : Visits(todo'[i], p[i])
         /\ \A i, j \in 1..Len(rows') : i < j => Before(a[i], a[j])
         /\ \A i, j \in 1..Len(todo') : i < j => Before(p[i], p[j])
         /\ \A i \in 1..Len(rows'), j \in 1..Len(todo') : Before(a[i], p[j])
         /\ \A o \in Owed : \/ \E i \in 1..Len(rows') : a[i] = o
                         \/ \E j \in 1..Len(todo') : Below(o, p[j])
    BY <1>5, <1>6, <1>7, <1>10, <1>11, <1>12, Zenon
  <1>14. a \in [1..Len(rows') -> Owed] /\ p \in [1..Len(todo') -> Occurrences]
    BY <1>5, <1>6, <1>8, <1>9, Zenon
  <1>15. UNCHANGED input /\ pc' # "start" /\ ~(pc' = "write")
    BY <1>3
  <1> QED
    BY <1>13, <1>14, <1>15, WalkedNext

\* Steps that neither answer nor call.
LEMMA StillWalks ==
  ASSUME AnswerInv, UNCHANGED <<input, todo, rows>>, pc' = "write" => todo = <<>>,
         pc' = pc \/ (pc \in {"walk", "write"} /\ pc' \in {"walk", "write", "done"})
  PROVE  AnswerInv'
  <1>1. CASE rows = <<>> /\ pc \in {"start", "done"}
    BY <1>1 DEF AnswerInv
  <1>2. CASE /\ pc # "start"
             /\ \E a \in [1..Len(rows) -> Owed], p \in [1..Len(todo) -> Occurrences] :
                  Walked(a, p)
    <2>1. PICK a \in [1..Len(rows) -> Owed], p \in [1..Len(todo) -> Occurrences] :
            Walked(a, p)
      BY <1>2
    <2>2. DOMAIN a = 1..Len(rows) /\ DOMAIN p = 1..Len(todo)
      BY <2>1
    <2>3. /\ \A i \in 1..Len(rows) : Answers(rows[i], a[i])
          /\ \A i \in 1..Len(todo) : Visits(todo[i], p[i])
          /\ \A i, j \in 1..Len(rows) : i < j => Before(a[i], a[j])
          /\ \A i, j \in 1..Len(todo) : i < j => Before(p[i], p[j])
          /\ \A i \in 1..Len(rows), j \in 1..Len(todo) : Before(a[i], p[j])
          /\ \A o \in Owed : \/ \E i \in 1..Len(rows) : a[i] = o
                          \/ \E j \in 1..Len(todo) : Below(o, p[j])
      BY <2>1, <2>2 DEF Walked
    <2>4. rows' = rows /\ todo' = todo /\ UNCHANGED input
      OBVIOUS
    <2>5. pc' # "start" /\ (pc' = "write" => todo' = <<>>)
      BY <1>2
    <2>6. /\ \A i \in 1..Len(rows') : Answers(rows'[i], a[i])
          /\ \A i \in 1..Len(todo') : Visits(todo'[i], p[i])
          /\ \A i, j \in 1..Len(rows') : i < j => Before(a[i], a[j])
          /\ \A i, j \in 1..Len(todo') : i < j => Before(p[i], p[j])
          /\ \A i \in 1..Len(rows'), j \in 1..Len(todo') : Before(a[i], p[j])
          /\ \A o \in Owed : \/ \E i \in 1..Len(rows') : a[i] = o
                          \/ \E j \in 1..Len(todo') : Below(o, p[j])
      BY <2>3, <2>4, Zenon
    <2>7. a \in [1..Len(rows') -> Owed] /\ p \in [1..Len(todo') -> Occurrences]
      BY <2>1, <2>4, Zenon
    <2> QED
      BY <2>4, <2>5, <2>6, <2>7, WalkedNext
  <1> QED
    BY <1>1, <1>2 DEF AnswerInv

LEMMA RefuseWalks ==
  ASSUME AnswerInv, Refuse
  PROVE  AnswerInv'
  <1>1. rows = <<>> /\ rows' = rows /\ pc' = "done"
    BY DEF AnswerInv, Refuse, Stop
  <1> QED
    BY <1>1 DEF AnswerInv

\* The invariant: beside ExtractInv, the walk stays beside the occurrences
\* (emit and main, from the modelspace to the last row).
THEOREM AnswersFollow == Spec => [](ExtractInv /\ AnswerInv)
  <1>1. Init => AnswerInv
    BY DEF Init, AnswerInv
  <1>2. ExtractInv /\ AnswerInv /\ [Next]_vars => AnswerInv'
    <2> SUFFICES ASSUME ExtractInv, AnswerInv, [Next]_vars PROVE AnswerInv'
      OBVIOUS
    <2>1. CASE Refuse
      BY <2>1, RefuseWalks
    <2>2. CASE Read
      BY <2>2, ReadWalks
    <2>3. CASE DeclineUnits \/ DeclineInsert \/ EmptyBlock
      BY <2>3, DeclineWalks
    <2>4. CASE UndefinedBlock
      BY <2>4, StillWalks DEF UndefinedBlock, Calling, Stop
    <2>5. CASE Expand
      BY <2>5, ExpandWalks
    <2>6. CASE Leaf
      BY <2>6, LeafWalks
    <2>7. CASE Open
      BY <2>7, StillWalks DEF Open
    <2>8. CASE WriteRow
      <3>1. pc = "write" /\ UNCHANGED <<input, todo, rows>> /\ (pc' = "done" \/ pc' = pc)
        BY <2>8 DEF WriteRow, Stop
      <3>2. todo = <<>>
        BY <3>1 DEF AnswerInv
      <3> QED
        BY <3>1, <3>2, StillWalks
    <2>9. CASE Close
      BY <2>9, StillWalks DEF Close, Stop
    <2>10. CASE UNCHANGED vars
      <3>1. UNCHANGED <<input, todo, rows, pc>>
        BY <2>10 DEF vars
      <3>2. pc = "write" => todo = <<>>
        BY DEF AnswerInv
      <3> QED
        BY <3>1, <3>2, StillWalks
    <2> QED
      BY <2>1, <2>2, <2>3, <2>4, <2>5, <2>6, <2>7, <2>8, <2>9, <2>10 DEF Next
  <1> QED
    BY <1>1, <1>2, ExtractInvariant, PTL DEF Spec

\* Rows answer the occurrences considered first, and all of them once no call
\* is left.
LEMMA RowsAnswer ==
  ASSUME ExtractInv, AnswerInv
  PROVE  /\ \A i \in DOMAIN rows : Answers(rows[i], Considered[i])
         /\ pc = "walk" => Len(rows) <= Len(Considered)
         /\ pc = "write" => Len(rows) = Len(Considered)
  <1>1. InputInv /\ List(rows) /\ List(todo)
    BY DEF ExtractInv, WalkInv, RowsInv
  <1>2. /\ Len(rows) \in Nat /\ DOMAIN rows = 1..Len(rows)
        /\ Len(todo) \in Nat
    BY <1>1, ListDomain
  <1>3. CASE rows = <<>> /\ pc \in {"start", "done"}
    <2>1. DOMAIN rows = {}
      BY <1>2, <1>3, EmptyList
    <2> QED
      BY <1>3, <2>1
  <1>4. CASE /\ pc = "write" => todo = <<>>
             /\ \E a \in [1..Len(rows) -> Owed], p \in [1..Len(todo) -> Occurrences] :
                  Walked(a, p)
    <2>1. PICK a \in [1..Len(rows) -> Owed], p \in [1..Len(todo) -> Occurrences] :
            Walked(a, p)
      BY <1>4
    <2>2. DOMAIN a = 1..Len(rows) /\ DOMAIN p = 1..Len(todo)
      BY <2>1
    <2>3. /\ \A i \in 1..Len(rows) : Answers(rows[i], a[i])
          /\ \A i, j \in 1..Len(rows) : i < j => Before(a[i], a[j])
          /\ \A i \in 1..Len(rows), j \in 1..Len(todo) : Before(a[i], p[j])
          /\ \A o \in Owed : \/ \E i \in 1..Len(rows) : a[i] = o
                          \/ \E j \in 1..Len(todo) : Below(o, p[j])
      BY <2>1, <2>2 DEF Walked
    <2>4. /\ Len(rows) <= Len(Considered)
          /\ \A i \in 1..Len(rows) : Considered[i] = a[i]
          /\ Len(todo) = 0 => Len(rows) = Len(Considered)
      BY <1>1, <1>2, <2>1, <2>3, AnsweredFirst
    <2>5. pc = "write" => Len(todo) = 0
      BY <1>4, EmptyList
    <2>6. \A i \in DOMAIN rows : Answers(rows[i], Considered[i])
      BY <1>2, <2>3, <2>4
    <2> QED
      BY <2>4, <2>5, <2>6
  <1> QED
    BY <1>3, <1>4 DEF AnswerInv

\* Nothing is dropped: the rows answer the considered entities one by one, in
\* reading order, each under its own handle and block path, for every document
\* and however its blocks nest (emit, main).
THEOREM EntitiesAreAnswered == Spec => []EveryEntityAnswered
  <1>1. ExtractInv /\ AnswerInv => EveryEntityAnswered
    BY RowsAnswer DEF EveryEntityAnswered, Answers
  <1> QED
    BY <1>1, AnswersFollow, PTL

\* The links and the elevation of a record put the entity where the drawing
\* has it, at any depth of INSERTs that are +Z and do not mirror in y alone
\* (_insert_link, _extrusion_links and the prefix of emit).
THEOREM PlacementsAreDrawn == Spec => []PlacedAsDrawn
  <1>1. ExtractInv /\ AnswerInv => PlacedAsDrawn
    BY RowsAnswer DEF PlacedAsDrawn, Answers
  <1> QED
    BY <1>1, AnswersFollow, PTL
=============================================================================
