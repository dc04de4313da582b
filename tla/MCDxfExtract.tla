---------------------------- MODULE MCDxfExtract ----------------------------
(***************************************************************************)
(* Documents for TLC: every small graph of two blocks, and every single    *)
(* entity over small fields.                                               *)
(***************************************************************************)
EXTENDS DxfExtractInv

Up == <<0, 0, 1>>
Down == <<0, 0, -1>>
NF == NonFinite

Source == [name |-> "source", parses |-> TRUE, value |-> 0, whole |-> TRUE]
Option(name, value) ==
  [name |-> name, parses |-> TRUE, value |-> value, whole |-> TRUE]
Options == {Source, Option("sagitta", 1), Option("count", 2),
            Option("angle", 1)}
BadOptions ==
  [name : {"none", "sagitta", "count", "angle", "other"}, parses : BOOLEAN,
   value : {NF, -1, 0, 1}, whole : BOOLEAN]

-----------------------------------------------------------------------------
(* Block graphs *)

Line == [type |-> "LINE", extrusion |-> Up, start |-> <<0, 0, 1>>,
         end |-> <<1, 0, 1>>]
FlippedArc == [type |-> "ARC", extrusion |-> Down, center |-> <<0, 0, 0>>,
               radius |-> 1, from |-> 0, to |-> 1]
Tilted == [Line EXCEPT !.extrusion = <<1, 0, 1>>]
Text == [type |-> "TEXT", extrusion |-> Up]

MCBlockKey == [P |-> "p", p |-> "p", Q |-> "q", R |-> "r"]
Origin == <<0, 0, 0>>

Insert(name, sx, sy, rotation, insert) ==
  [type |-> "INSERT", extrusion |-> Up, name |-> name, sx |-> sx, sy |-> sy,
   sz |-> 1, rotation |-> rotation, insert |-> insert]
Plain == Insert("P", 2, 2, 1, <<1, 0, 1>>)
MirrorX == Insert("Q", -1, 1, 1, <<0, 2, 2>>)
HalfTurn == Insert("Q", -1, -1, 0, <<1, 1, 0>>)
Back == Insert("P", 1, 1, 0, <<0, 0, 0>>)
Uneven == Insert("Q", 1, 2, 0, <<0, 0, 0>>)
NoBlock == Insert("R", 1, 1, 0, <<0, 0, 0>>)
NoHeight == Insert("Q", 1, 1, 0, <<0, 0, NF>>)
MirrorY == Insert("Q", 1, -1, 0, <<1, 0, 0>>)
Respelled == Insert("p", 1, 1, 0, <<0, 1, 0>>)
Raised == Insert("Q", 1, 1, 0, <<0, 0, 2>>)
Tall == [Plain EXCEPT !.sz = 2]
DownLine == [Line EXCEPT !.extrusion = Down]
HighArc == [FlippedArc EXCEPT !.center = <<1, 0, 1>>]
Circle == [type |-> "CIRCLE", extrusion |-> Up, center |-> <<1, 0, 0>>, radius |-> 1]

UpTo2(S) == UNION {[1..n -> S] : n \in 0..2}

WalkDocs ==
  [units : {TRUE}, model : UpTo2({Line, Plain, MirrorX, NoHeight}),
   blocks : [p : UpTo2({FlippedArc, MirrorX, HalfTurn, Text, Uneven}),
             q : UpTo2({Line, Back, NoBlock, Tilted})],
   bases : {[p |-> Origin, q |-> Origin]}]

\* A block whose name is spelled in two ways, inside itself.
RespelledDocs ==
  [units : {TRUE}, model : UpTo2({Plain, Respelled}),
   blocks : [p : UpTo2({Line, MirrorX, Respelled, Back}),
             q : UpTo2({Respelled, Back})],
   bases : {[p |-> Origin, q |-> Origin]}]

\* Heights, scales of heights, undersides and bases.
HeightDocs ==
  [units : {TRUE}, model : UpTo2({Tall, Raised, HighArc, DownLine}),
   blocks : [p : UpTo2({Line, Circle, Raised, MirrorX}),
             q : UpTo2({Line, Circle})],
   bases : [p : {Origin, <<1, 0, 0>>}, q : {Origin, <<0, 0, 1>>}]]

MirrorDocs ==
  [units : {TRUE}, model : UpTo2({Plain, MirrorX, MirrorY}),
   blocks : [p : UpTo2({MirrorX, MirrorY}), q : {<<Line>>}],
   bases : {[p |-> Origin, q |-> Origin]}]

UnknownUnits ==
  [units : {FALSE}, model : UpTo2({Line, Plain}), blocks : {[p |-> <<Text>>]},
   bases : {[p |-> Origin]}]

-----------------------------------------------------------------------------
(* Single entities *)

Lines == [type : {"LINE"}, extrusion : {Up},
          start : {<<0, 0, 0>>, <<1, 0, 0>>, <<NF, 0, 0>>, <<0, 0, 1>>},
          end : {<<0, 0, 0>>, <<1, 0, 1>>, <<0, NF, 0>>, <<0, 0, NF>>}]
LwPolylines ==
  [type : {"LWPOLYLINE"}, extrusion : {Up}, closed : BOOLEAN,
   elevation : {1, NF},
   points : UNION {[1..n -> {<<0, 0, 0>>, <<1, 0, 1>>, <<0, 1, NF>>,
                             <<1, 1, 0>>}] : n \in 0..3}]
Arcs == [type : {"ARC"}, extrusion : {Up, Down, <<0, 0, NF>>},
         center : {<<0, 0, 0>>, <<NF, 0, 0>>, <<0, 0, NF>>},
         radius : {0, 1, NF}, from : {0, 1, NF}, to : {0, 1}]
Circles == [type : {"CIRCLE"}, extrusion : {Up},
            center : {<<0, 0, 0>>, <<NF, 0, 0>>}, radius : {-1, 0, 1, NF}]
Ellipses ==
  [type : {"ELLIPSE"}, extrusion : {Up}, center : {<<0, 0, 0>>, <<0, 0, 1>>, <<0, 0, NF>>},
   major : {<<1, 0, 0>>, <<0, 0, 0>>, <<0, 1, 1>>, <<NF, 0, 0>>},
   ratio : {1, 2, NF}, from : {0, 1, NF}, to : {0, 1}]
Splines ==
  [type : {"SPLINE"}, extrusion : {Up}, periodic : {FALSE}, fits : BOOLEAN,
   controls : {<<>>, <<<<0, 0, 0>>, <<1, 0, 0>>>>,
               <<<<0, 0, 0>>, <<1, 0, 0>>, <<1, 1, 0>>>>,
               <<<<0, 0, 0>>, <<1, NF, 0>>, <<1, 1, 0>>>>,
               <<<<0, 0, 0>>, <<1, 0, 1>>>>},
   degree : 0..2,
   knots : {<<0, 0, 1, 1>>, <<0, 0, 0, 1, 1, 1>>, <<0, 0, 0, 2, 2, 2>>,
            <<0, 1, 2, 3>>, <<0, 0, NF, NF>>},
   weights : {<<>>, <<1, 2>>, <<1, 0>>, <<1, 1, NF>>, <<2, 1, 1>>}]
Periodic == [CHOOSE s \in Splines : TRUE EXCEPT !.periodic = TRUE]

Edge(type, start, end) == [type |-> type, start |-> start, end |-> end]
ArcEdge(from, to, ccw, radius) ==
  [type |-> "ArcEdge", center |-> <<0, 0>>, radius |-> radius,
   from |-> from, to |-> to, ccw |-> ccw]
PathOf(edges) == [type |-> "EdgePath", edges |-> edges]
Polygon(points, closed) ==
  [type |-> "PolylinePath", points |-> points, closed |-> closed]
ArcsAround == <<ArcEdge(0, 1, TRUE, 1), ArcEdge(1, 3, TRUE, 1),
                ArcEdge(3, 0, TRUE, 1)>>
Paths ==
  {Polygon(<<<<0, 0, 0>>, <<1, 0, 0>>, <<0, 1, 1>>>>, c) : c \in BOOLEAN}
  \cup {Polygon(<<<<0, 0, 0>>, <<1, 0, 1>>>>, TRUE),
        Polygon(<<<<0, 0, 0>>, <<1, 0, NF>>, <<0, 1, 1>>>>, TRUE),
        Polygon(<<<<0, 0, 0>>, <<1, 0, 0>>, <<2, 0, 0>>>>, TRUE),
        PathOf(<<>>), PathOf(ArcsAround), PathOf(Front(ArcsAround)),
        PathOf(Append(ArcsAround, ArcEdge(0, 0, TRUE, 1))),
        PathOf(<<ArcEdge(1, 0, FALSE, NF)>> \o ArcsAround),
        PathOf(Append(ArcsAround, Edge("LineEdge", <<1, 0>>, <<2, 0>>))),
        PathOf(<<Edge("EllipseEdge", <<0, 0>>, <<1, 0>>)>>),
        PathOf(<<Edge("LineEdge", <<0, 0>>, <<0, 1>>),
                 Edge("LineEdge", <<0, 1>>, <<1, 1>>),
                 Edge("LineEdge", <<1, 1>>, <<0, 0>>)>>)}
Hatches == [type : {"HATCH"}, extrusion : {Up}, style : 0..2,
            elevation : {0, NF}, paths : UpTo2(Paths)]
Polylines ==
  [type : {"POLYLINE"}, extrusion : {Up}, flat : BOOLEAN, closed : BOOLEAN,
   elevation : {0, 1},
   vertices : UNION {[1..n -> {<<0, 0, 0, 0>>, <<1, 0, 1, 0>>,
                               <<0, 1, NF, 0>>, <<1, 1, 0, 1>>}] :
                       n \in 0..3}]
Others == [type : {"MTEXT", "LEADER", "3DFACE", "POINT"}, extrusion : {Up}]

Single(leaves) ==
  [units : {TRUE}, model : [1..1 -> leaves], blocks : {<<>>}, bases : {<<>>}]

-----------------------------------------------------------------------------
Runs(docs, modes, options) ==
  [doc : docs, mode : modes, tolerance : options, exists : {TRUE}]
Every(leaves) == Runs(Single(leaves), {"strict", "lenient"}, Options)

MCInputs ==
  <<Runs(WalkDocs, {"strict"}, {Source}),
    Runs(RespelledDocs, {"strict"}, {Source}),
    Runs(HeightDocs, {"strict"}, {Source}),
    Runs(UnknownUnits, {"strict"}, {Source}),
    [doc : Single({Line}), mode : {"strict"}, exists : BOOLEAN,
     tolerance : BadOptions \cup {Source}],
    Every(Lines), Every(LwPolylines), Every(Arcs), Every(Circles),
    Every(Ellipses), Every(Splines), Every({Periodic}), Every(Hatches),
    Every(Polylines), Every(Others)>>

MirrorInputs == <<Runs(MirrorDocs, {"strict"}, {Source})>>
=============================================================================
