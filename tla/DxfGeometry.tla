----------------------------- MODULE DxfGeometry -----------------------------
(***************************************************************************)
(* The pure half of tools/cad/dxf_extract.py: what one DXF entity that is  *)
(* no INSERT maps to, or the id it is declined with.                       *)
(*                                                                         *)
(* Coordinates, radii, weights, knots and bulges are small integers, so    *)
(* that "within 1e-9" is equality; NonFinite stands for NaN and the        *)
(* infinities.  Angles are quarter turns.  A figure keeps of its params    *)
(* what the schema constrains: every number (nums), those that must be     *)
(* positive, the lengths of its lists, its members and orientations.       *)
(***************************************************************************)
EXTENDS Integers, Sequences, SequencesExt

CONSTANT NonFinite
ASSUME NonFiniteAssumption == NonFinite \notin Int

Finite(x) == x # NonFinite
AllFinite(S) == NonFinite \notin S
Plus(a, b) == IF Finite(a) /\ Finite(b) THEN a + b ELSE NonFinite
XY(p) == {p[1], p[2]}

TextTypes == {"TEXT", "MTEXT", "ATTRIB", "ATTDEF", "ARCALIGNEDTEXT"}
DimensionTypes == {"DIMENSION", "LEADER", "MULTILEADER", "MLEADER"}
HatchTypes == {"HATCH", "MPOLYGON"}
ThreeDTypes == {"3DFACE", "3DSOLID", "BODY", "MESH", "SURFACE", "REGION",
                "SOLID"}
CircularKinds == {"Arc", "Circle", "BulgePolyline", "Ring"}
SteppedKinds == CircularKinds \cup {"Spiral"}
\* Bug: a Compound takes a segment count, its Chord members do not.
SegmentCountKinds_Compound == SteppedKinds \cup {"Bezier", "Compound"}
SegmentCountKinds == SteppedKinds \cup {"Bezier"}

Decline(id) == [decline |-> id]
Declined(m) == "decline" \in DOMAIN m
Degenerate == Decline("ID_DegenerateEntity")

Figure(kind, elevation, nums, positive, sizes) ==
  [kind |-> kind, elevation |-> elevation, nums |-> nums,
   positive |-> positive, sizes |-> sizes, members |-> <<>>,
   orientation |-> <<>>]

\* What parse_tolerance makes of an option: a kind, or the id it is refused
\* with.  "none" is text without a colon that is not a name of the default.
ParseTolerance(spec) ==
  LET kinds == [sagitta |-> "sagitta", count |-> "segmentCount", angle |-> "angleStep"]
      least == IF spec.name = "count" THEN spec.value >= 1 /\ spec.whole ELSE spec.value > 0
  IN IF spec.name = "source" THEN [kind |-> "sourceDefault"]
     ELSE IF spec.name = "none" THEN Decline("ID_ToleranceKindUnsupported")
     ELSE IF ~spec.parses THEN Decline("ID_ToleranceNonPositive")
     ELSE IF spec.name \notin DOMAIN kinds THEN Decline("ID_ToleranceKindUnsupported")
     ELSE IF ~Finite(spec.value) \/ ~least THEN Decline("ID_ToleranceNonPositive")
     ELSE [kind |-> kinds[spec.name]]

ToleranceOk(kind, tol) ==
  /\ tol = "segmentCount" => kind \in SegmentCountKinds
  /\ tol = "angleStep" => kind \in SteppedKinds

-----------------------------------------------------------------------------
(* Segments *)

\* Bug: the bulge is not tested.
SegmentOk_AnyBulge(s) ==
  /\ AllFinite(XY(s.start) \cup XY(s.end))
  /\ s.start # s.end

SegmentOk(s) ==
  /\ AllFinite(XY(s.start) \cup XY(s.end) \cup {s.bulge})
  /\ s.start # s.end

SegmentNums(s) == XY(s.start) \cup XY(s.end) \cup {s.bulge}

\* Points <<x, y, bulge>>; segment i leaves point i with that point's bulge.
BulgeSegments(points, closed) ==
  [i \in 1..(IF closed THEN Len(points) ELSE Len(points) - 1) |->
     LET q == points[(i % Len(points)) + 1]
     IN [start |-> <<points[i][1], points[i][2]>>,
         end |-> <<q[1], q[2]>>, bulge |-> points[i][3]]]

BulgeSegmentsOk(points, closed) ==
  /\ Len(points) >= 2
  /\ closed => Len(points) >= 3
  /\ \A s \in Range(BulgeSegments(points, closed)) : SegmentOk(s)

NumsOf(segments) == UNION {SegmentNums(s) : s \in Range(segments)}

\* The common z of the points of an entity; 0 if it has none.
ConstZ(zs) ==
  IF zs = {} THEN [z |-> 0]
  ELSE IF ~AllFinite(zs) THEN Degenerate
  ELSE IF \E a, b \in zs : a # b THEN Decline("ID_ThreeDNotYet")
  ELSE [z |-> CHOOSE z \in zs : TRUE]

-----------------------------------------------------------------------------
(* Splines *)

KnotClamped(knots, degree, count) ==
  /\ degree >= 1
  /\ count >= degree + 1
  /\ Len(knots) = count + degree + 1
  /\ \A i \in 1..(degree + 1) : knots[i] = knots[1]
  /\ \A i \in 0..degree : knots[Len(knots) - i] = knots[Len(knots) - degree]

\* No weights means unit weights.
SplineWeights(spline, count) ==
  IF spline.weights = <<>> THEN [i \in 1..count |-> 1] ELSE spline.weights

SplineWeightsOk(weights, count) ==
  /\ Len(weights) = count
  /\ \A w \in Range(weights) : Finite(w) /\ w > 0

\* A single span over 0..0, 1..1 with unit weights.
IsBezier(e, weights) ==
  /\ \A w \in Range(weights) : w = 1
  /\ e.degree \in {2, 3}
  /\ Len(e.controls) = e.degree + 1
  /\ \A i \in 1..Len(e.knots) :
        e.knots[i] = IF i <= e.degree + 1 THEN 0 ELSE 1

MapSpline(e) ==
  LET count == Len(e.controls)
      zs == ConstZ({p[3] : p \in Range(e.controls)})
      weights == SplineWeights(e, count)
      xys == UNION {XY(p) : p \in Range(e.controls)}
  IN IF e.periodic THEN Decline("ID_PeriodicSpline")
     ELSE IF count = 0
     THEN IF e.fits THEN Decline("ID_FitPointSpline") ELSE Degenerate
     ELSE IF Declined(zs) THEN zs
     ELSE IF ~AllFinite(Range(e.knots)) THEN Degenerate
     ELSE IF ~KnotClamped(e.knots, e.degree, count)
     THEN Decline("ID_UnclampedKnots")
     ELSE IF ~SplineWeightsOk(weights, count) \/ ~AllFinite(xys) THEN Degenerate
     ELSE IF IsBezier(e, weights)
     THEN Figure("Bezier", zs.z, xys, {}, <<count, 2 * (e.degree + 1)>>)
     ELSE Figure("BSpline", zs.z, xys \cup Range(e.knots), Range(weights),
                 <<count, Len(e.knots)>>)

-----------------------------------------------------------------------------
(* Rings, chains and hatches *)

\* Twice the area of the polygon of the chords.
SignedArea(segments) ==
  FoldLeft(LAMBDA a, s : a + s.start[1] * s.end[2] - s.end[1] * s.start[2],
           0, segments)

Orientation(segments) == IF SignedArea(segments) > 0 THEN "ccw" ELSE "cw"

Ring(contours, elevation) ==
  IF \E c \in Range(contours) : SignedArea(c) = 0 THEN Degenerate
  ELSE [Figure("Ring", elevation, UNION {NumsOf(c) : c \in Range(contours)},
               {}, [i \in DOMAIN contours |-> Len(contours[i])])
          EXCEPT !.orientation = [i \in DOMAIN contours |->
                                    Orientation(contours[i])]]

ChainMember(s) ==
  IF s.bulge = 0
  THEN Figure("Chord", 0, XY(s.start) \cup XY(s.end), {}, <<>>)
  ELSE Figure("BulgePolyline", 0, SegmentNums(s), {}, <<1>>)

MapPolyline(e) ==
  IF ~e.flat \/ \E v \in Range(e.vertices) : v[4] # 0
  THEN Decline("ID_ThreeDNotYet")
  ELSE IF ~BulgeSegmentsOk(e.vertices, e.closed) THEN Degenerate
  ELSE LET segments == BulgeSegments(e.vertices, e.closed)
       IN [Figure("Compound", 0, {}, {}, <<Len(segments)>>)
             EXCEPT !.members = [i \in DOMAIN segments |->
                                   ChainMember(segments[i])]]

\* Styles 0 (odd parity) and 2 (entire area) state a winding rule.
HatchRule(e) == e.style \in {0, 2}

Quarter == <<<<1, 0>>, <<0, 1>>, <<-1, 0>>, <<0, -1>>>>
On(edge, angle) ==
  <<edge.center[1] + edge.radius * Quarter[(angle % 4) + 1][1],
    edge.center[2] + edge.radius * Quarter[(angle % 4) + 1][2]>>

Sweep(edge) == IF edge.ccw THEN (edge.to - edge.from) % 4
               ELSE (edge.from - edge.to) % 4

ArcEdgeOk(edge) ==
  /\ AllFinite({edge.radius, edge.from, edge.to} \cup XY(edge.center))
  /\ edge.radius > 0
  /\ Sweep(edge) # 0

\* tan(sweep / 4) is the sweep, up to scale; its sign is the direction.
ArcEdgeSegment(edge) ==
  [start |-> On(edge, edge.from), end |-> On(edge, edge.to),
   bulge |-> IF edge.ccw THEN Sweep(edge) ELSE -Sweep(edge)]

EdgeSegment(edge) ==
  IF edge.type = "ArcEdge" THEN ArcEdgeSegment(edge)
  ELSE [start |-> edge.start, end |-> edge.end, bulge |-> 0]

EdgeDecline(edge) ==
  IF edge.type \notin {"LineEdge", "ArcEdge"} THEN "ID_HatchRegion"
  ELSE IF edge.type = "ArcEdge" /\ ~ArcEdgeOk(edge) THEN "ID_DegenerateEntity"
  ELSE IF ~SegmentOk(EdgeSegment(edge)) THEN "ID_DegenerateEntity"
  ELSE "none"

\* The first edge that is refused names the refusal.
EdgesDecline(edges) ==
  LET bad == {i \in DOMAIN edges : EdgeDecline(edges[i]) # "none"}
  IN IF bad = {} THEN "none"
     ELSE EdgeDecline(edges[CHOOSE i \in bad : \A j \in bad : i <= j])

PathContour(path) ==
  IF path.type = "PolylinePath" THEN BulgeSegments(path.points, TRUE)
  ELSE [i \in DOMAIN path.edges |-> EdgeSegment(path.edges[i])]

PathDecline(path) ==
  IF path.type = "PolylinePath"
  THEN IF ~path.closed THEN "ID_HatchRegion"
       ELSE IF BulgeSegmentsOk(path.points, TRUE) THEN "none"
       ELSE "ID_DegenerateEntity"
  ELSE IF EdgesDecline(path.edges) # "none" THEN EdgesDecline(path.edges)
  ELSE IF Len(path.edges) < 3 THEN "ID_HatchRegion"
  ELSE IF PathContour(path)[1].start # Last(PathContour(path)).end
  THEN "ID_HatchRegion"
  ELSE "none"

MapHatch(e) ==
  LET bad == {i \in DOMAIN e.paths : PathDecline(e.paths[i]) # "none"}
  IN IF ~HatchRule(e) \/ e.paths = <<>> THEN Decline("ID_HatchRegion")
     ELSE IF bad # {}
     THEN Decline(PathDecline(e.paths[CHOOSE i \in bad :
                                        \A j \in bad : i <= j]))
     ELSE IF ~Finite(e.elevation) THEN Degenerate
     ELSE Ring([i \in DOMAIN e.paths |-> PathContour(e.paths[i])],
               e.elevation)

-----------------------------------------------------------------------------
(* _map_geometry, one definition per branch *)

MapLine(e) ==
  LET zs == ConstZ({e.start[3], e.end[3]})
      nums == XY(e.start) \cup XY(e.end)
  IN IF Declined(zs) THEN zs
     ELSE IF ~AllFinite(nums) \/ <<e.start[1], e.start[2]>> = <<e.end[1], e.end[2]>>
     THEN Degenerate
     ELSE Figure("Chord", zs.z, nums, {}, <<>>)

MapLwPolyline(e, mode) ==
  LET segments == BulgeSegments(e.points, e.closed)
  IN IF ~BulgeSegmentsOk(e.points, e.closed) \/ ~Finite(e.elevation)
     THEN Degenerate
     ELSE IF mode = "lenient" /\ e.closed THEN Ring(<<segments>>, e.elevation)
     ELSE Figure("BulgePolyline", e.elevation, NumsOf(segments), {},
                 <<Len(segments)>>)

MapArc(e) ==
  LET zs == ConstZ({e.center[3]})
      nums == XY(e.center) \cup {e.radius, e.from, e.to}
  IN IF Declined(zs) THEN zs
     ELSE IF ~AllFinite(nums) \/ e.radius <= 0 \/ e.from = e.to THEN Degenerate
     ELSE Figure("Arc", zs.z, nums, {e.radius}, <<>>)

MapCircle(e) ==
  LET zs == ConstZ({e.center[3]})
      nums == XY(e.center) \cup {e.radius}
  IN IF Declined(zs) THEN zs
     ELSE IF ~AllFinite(nums) \/ e.radius <= 0 THEN Degenerate
     ELSE Figure("Circle", zs.z, nums, {e.radius}, <<>>)

\* The major axes of the inputs lie on a coordinate axis, where hypot is a sum.
Radius(major) ==
  IF AllFinite(XY(major))
  THEN (IF major[1] < 0 THEN -major[1] ELSE major[1])
         + (IF major[2] < 0 THEN -major[2] ELSE major[2])
  ELSE NonFinite

MapEllipse(e, mode) ==
  LET zs == ConstZ({e.center[3], e.major[3]})
      nums == XY(e.center) \cup {Radius(e.major), e.from, e.to}
  IN IF mode # "lenient" THEN Decline("ID_EllipseNotYet")
     ELSE IF ~Finite(e.ratio) THEN Degenerate
     ELSE IF e.ratio # 1 THEN Decline("ID_EllipseNotYet")
     ELSE IF Declined(zs) THEN zs
     ELSE IF ~AllFinite(nums) \/ Radius(e.major) <= 0 \/ e.from = e.to
     THEN Degenerate
     ELSE Figure("Arc", zs.z, nums, {Radius(e.major)}, <<>>)

MapGeometry(e, mode) ==
  IF e.type \in TextTypes THEN Decline("ID_TextEntity")
  ELSE IF e.type \in DimensionTypes THEN Decline("ID_DimensionEntity")
  ELSE IF e.type \in HatchTypes THEN MapHatch(e)
  ELSE IF e.type = "POLYLINE" THEN MapPolyline(e)
  ELSE IF e.type \in ThreeDTypes THEN Decline("ID_ThreeDNotYet")
  ELSE IF e.type = "LINE" THEN MapLine(e)
  ELSE IF e.type = "LWPOLYLINE" THEN MapLwPolyline(e, mode)
  ELSE IF e.type = "ARC" THEN MapArc(e)
  ELSE IF e.type = "CIRCLE" THEN MapCircle(e)
  ELSE IF e.type = "ELLIPSE" THEN MapEllipse(e, mode)
  ELSE IF e.type = "SPLINE" THEN MapSpline(e)
  ELSE Decline("ID_UnsupportedEntity")
=============================================================================
