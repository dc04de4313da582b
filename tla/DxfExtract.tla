------------------------------ MODULE DxfExtract ------------------------------
(***************************************************************************)
(* tools/cad/dxf_extract.py as a program: main parses its options, walks   *)
(* the modelspace, replaces each INSERT by the entities of its block, and  *)
(* writes one line per row.                                                *)
(*                                                                         *)
(* The recursion of emit is the stack `todo` of the calls still to make,   *)
(* the next one first.  A document is the input; its entities are records  *)
(* with a type, an extrusion and the numbers that type reads.              *)
(***************************************************************************)
EXTENDS DxfGeometry, FiniteSets

CONSTANTS
  Inputs,    \* families of command lines [doc, mode, tolerance, exists]
  BlockKey   \* ezdxf's key of a name: names that differ in case alone have one

EntitiesOf(doc) ==
  UNION ({Range(doc.model)} \cup {Range(b) : b \in Range(doc.blocks)})

Number == Int \cup {NonFinite}

List(s) == s \in Seq(Range(s))

\* What ezdxf hands over: lists where it reads lists, and numbers in the fields
\* that the walk computes with or compares.
Readable(e) ==
  /\ e.extrusion \in [1..3 -> Number]
  /\ e.type = "INSERT" =>
       /\ {e.sx, e.sy, e.sz, e.rotation} \subseteq Number
       /\ e.insert \in [1..3 -> Number]
       /\ e.name \in DOMAIN BlockKey
  /\ e.type = "LINE" => e.start[3] \in Number
  /\ e.type \in {"ARC", "CIRCLE"} => e.radius \in Number
  /\ e.type \in {"ARC", "CIRCLE", "ELLIPSE"} => e.center[3] \in Number
  /\ e.type = "ELLIPSE" => XY(e.major) \subseteq Number
  /\ e.type = "SPLINE" =>
       /\ List(e.controls) /\ \A p \in Range(e.controls) : p[3] \in Number
       /\ e.degree \in Int
  /\ e.type = "LWPOLYLINE" => List(e.points)
  /\ e.type = "POLYLINE" => List(e.vertices)
  /\ e.type \in {"LWPOLYLINE", "POLYLINE"} \cup HatchTypes => e.elevation \in Number
  /\ e.type \in HatchTypes =>
       /\ List(e.paths)
       /\ \A path \in Range(e.paths) :
            IF path.type = "PolylinePath" THEN List(path.points) ELSE List(path.edges)

ASSUME InputsAssumption ==
  \A k \in DOMAIN Inputs : \A i \in Inputs[k] :
    /\ List(i.doc.model)
    /\ IsFiniteSet(DOMAIN i.doc.blocks)
    /\ \A b \in Range(i.doc.blocks) : List(b)
    /\ i.doc.bases \in [DOMAIN i.doc.blocks -> [1..3 -> Int]]
    /\ \A e \in EntitiesOf(i.doc) : Readable(e)

VARIABLES
  input,   \* the command line of this run
  pc,      \* "start", "walk", "write" or "done"
  todo,    \* calls of emit still to make
  rows,    \* the list of records and declines
  out,     \* the output file: that of an earlier run, or the lines written
  exit     \* the exit code, or -1

vars == <<input, pc, todo, rows, out, exit>>

-----------------------------------------------------------------------------
(* Placement *)

ExtrusionDecline(e) ==
  IF ~AllFinite(Range(e.extrusion)) THEN "ID_DegenerateEntity"
  ELSE IF e.extrusion[1] # 0 \/ e.extrusion[2] # 0 \/ e.extrusion[3] = 0
  THEN "ID_TiltedPlacement"
  ELSE "none"

\* -Z is a reflection, +Z is no link.
ExtrusionLinks(e) ==
  IF e.extrusion[3] < 0
  THEN <<[translate |-> <<0, 0>>, rotate |-> 0, scale |-> 1,
          reflect |-> TRUE]>>
  ELSE <<>>

Abs(x) == IF x < 0 THEN -x ELSE x

InsertLinkDecline(e) ==
  IF ~AllFinite({e.sx, e.sy, e.rotation} \cup XY(e.insert)) \/ e.sx = 0 \/ e.sy = 0
  THEN "ID_DegenerateEntity"
  ELSE IF Abs(e.sx) # Abs(e.sy) THEN "ID_NotSimilarityPlacement"
  ELSE "none"

\* Two negative scales are a half turn.
InsertLink(e) ==
  [translate |-> <<e.insert[1], e.insert[2]>>,
   rotate |-> IF e.sx < 0 /\ e.sy < 0 THEN e.rotation + 2 ELSE e.rotation,
   scale |-> Abs(e.sx),
   reflect |-> (e.sx < 0) # (e.sy < 0)]

DetSign(links) ==
  IF Cardinality({i \in DOMAIN links : links[i].reflect}) % 2 = 1
  THEN -1 ELSE 1

\* Bug: outermost INSERT first.
ChildPrefix_Outer(e, prefix) ==
  prefix \o ExtrusionLinks(e) \o <<InsertLink(e)>>

\* The links of an INSERT go in front of those of the INSERTs around it.
ChildPrefix(e, prefix) == ExtrusionLinks(e) \o <<InsertLink(e)>> \o prefix

-----------------------------------------------------------------------------
(* The walk *)

\* The block table, by key, and the key under which doc.blocks.get looks.
Blocks == input.doc.blocks
BlockOf(e) == BlockKey[e.name]

Mode == input.mode
Tolerance == ParseTolerance(input.tolerance).kind

\* A call of emit.  block_path and stack hold the same names, in one field,
\* as the INSERTs spell them.
Call(e, handle, prefix, path, z) ==
  [entity |-> e, handle |-> handle, prefix |-> prefix, path |-> path, z |-> z]

Calls(entities, holder, prefix, path, z) ==
  [i \in DOMAIN entities |->
     Call(entities[i], <<holder, i>>, prefix, path, z)]

DeclineRow(call, id) ==
  [record |-> "decline", id |-> id, handle |-> call.handle,
   path |-> call.path]

\* Members of a Compound are entities with the row's links and tolerance.
EntityRow(call, figure, links, elevation) ==
  [record |-> "entity", handle |-> call.handle, path |-> call.path,
   links |-> links, s |-> DetSign(links), elevation |-> elevation,
   figure |-> figure, tolerance |-> Tolerance]

\* Bug: only an INSERT of the name directly around it is a cycle.
Cyclic_Direct(e, path) == path # <<>> /\ Last(path) = e.name

\* `name in stack` compares spellings, where the lookup folds case.
Cyclic(e, path) == e.name \in Range(path)

\* What emit finds wrong with an INSERT before it looks at its block.
InsertDecline(call) ==
  LET e == call.entity
  IN IF Cyclic(e, call.path) THEN "ID_DegenerateEntity"
     ELSE IF ExtrusionDecline(e) # "none" THEN ExtrusionDecline(e)
     ELSE IF InsertLinkDecline(e) # "none" THEN InsertLinkDecline(e)
     ELSE IF ~Finite(e.insert[3]) THEN "ID_DegenerateEntity"
     ELSE "none"

\* What emit answers for any other entity.
LeafRow(call) ==
  LET e == call.entity
      figure == MapGeometry(e, Mode)
      links == ExtrusionLinks(e) \o call.prefix
      elevation == Plus(figure.elevation, call.z)
  IN IF ExtrusionDecline(e) # "none"
     THEN DeclineRow(call, ExtrusionDecline(e))
     ELSE IF Declined(figure) THEN DeclineRow(call, figure.decline)
     ELSE IF ~ToleranceOk(figure.kind, Tolerance)
     THEN DeclineRow(call, "ID_ToleranceKindUnsupported")
     ELSE IF ~Finite(elevation) THEN DeclineRow(call, "ID_DegenerateEntity")
     ELSE EntityRow(call, figure, links, elevation)

Init ==
  /\ \E k \in DOMAIN Inputs : input \in Inputs[k]
  /\ pc = "start"
  /\ todo = <<>>
  /\ rows = <<>>
  /\ out = [old |-> TRUE, lines |-> <<>>]
  /\ exit = -1

\* Bug: main falls off its end.
Stop_NoCode(code) == pc' = "done" /\ UNCHANGED exit

Stop(code) == pc' = "done" /\ exit' = code

\* Bad options, or no such file.
Refuse ==
  /\ pc = "start"
  /\ Declined(ParseTolerance(input.tolerance)) \/ ~input.exists
  /\ Stop(2)
  /\ UNCHANGED <<input, todo, rows, out>>

Read ==
  /\ pc = "start"
  /\ ~Declined(ParseTolerance(input.tolerance))
  /\ input.exists
  /\ pc' = "walk"
  /\ todo' = Calls(input.doc.model, "model", <<>>, <<>>, 0)
  /\ UNCHANGED <<input, rows, out, exit>>

Answer(row) ==
  /\ rows' = Append(rows, row)
  /\ todo' = Tail(todo)
  /\ UNCHANGED <<input, pc, out, exit>>

Calling(isInsert) ==
  /\ pc = "walk"
  /\ todo # <<>>
  /\ input.doc.units
  /\ (Head(todo).entity.type = "INSERT") = isInsert

\* $INSUNITS is unknown: every entity of the modelspace is declined.
DeclineUnits ==
  /\ pc = "walk"
  /\ todo # <<>>
  /\ ~input.doc.units
  /\ Answer(DeclineRow(Head(todo), "ID_UnknownUnit"))

DeclineInsert ==
  /\ Calling(TRUE)
  /\ InsertDecline(Head(todo)) # "none"
  /\ Answer(DeclineRow(Head(todo), InsertDecline(Head(todo))))

\* doc.blocks.get returns None and the iteration raises TypeError: the rows
\* are lost, the output file is not opened.
UndefinedBlock ==
  /\ Calling(TRUE)
  /\ InsertDecline(Head(todo)) = "none"
  /\ BlockOf(Head(todo).entity) \notin DOMAIN Blocks
  /\ Stop(1)
  /\ UNCHANGED <<input, todo, rows, out>>

EmptyBlock ==
  /\ Calling(TRUE)
  /\ InsertDecline(Head(todo)) = "none"
  /\ BlockOf(Head(todo).entity) \in DOMAIN Blocks
  /\ Blocks[BlockOf(Head(todo).entity)] = <<>>
  /\ Answer(DeclineRow(Head(todo), "ID_DegenerateEntity"))

\* Bug: the block's entities wait until the INSERT's neighbours are done.
Expand_Queue ==
  /\ Calling(TRUE)
  /\ InsertDecline(Head(todo)) = "none"
  /\ LET call == Head(todo)
         e == call.entity
         key == BlockOf(e)
     IN /\ key \in DOMAIN Blocks
        /\ Blocks[key] # <<>>
        /\ todo' = Tail(todo) \o
                     Calls(Blocks[key], key, ChildPrefix(e, call.prefix),
                           Append(call.path, e.name),
                           Plus(call.z, e.insert[3]))
  /\ UNCHANGED <<input, pc, rows, out, exit>>

Expand ==
  /\ Calling(TRUE)
  /\ InsertDecline(Head(todo)) = "none"
  /\ LET call == Head(todo)
         e == call.entity
         key == BlockOf(e)
     IN /\ key \in DOMAIN Blocks
        /\ Blocks[key] # <<>>
        /\ todo' = Calls(Blocks[key], key, ChildPrefix(e, call.prefix),
                         Append(call.path, e.name),
                         Plus(call.z, e.insert[3]))
                     \o Tail(todo)
  /\ UNCHANGED <<input, pc, rows, out, exit>>

Leaf ==
  /\ Calling(FALSE)
  /\ Answer(LeafRow(Head(todo)))

-----------------------------------------------------------------------------
(* The output file *)

\* json.dumps(allow_nan=False) raises on a number that is not finite.
Dumps(row) ==
  row.record = "entity" =>
    /\ \A link \in Range(row.links) :
          AllFinite(XY(link.translate) \cup {link.rotate, link.scale})
    /\ Finite(row.elevation)
    /\ AllFinite(row.figure.nums)
    /\ \A m \in Range(row.figure.members) : AllFinite(m.nums)

\* Opening truncates.
Open ==
  /\ pc = "walk"
  /\ todo = <<>>
  /\ pc' = "write"
  /\ out' = [old |-> FALSE, lines |-> <<>>]
  /\ UNCHANGED <<input, todo, rows, exit>>

WriteRow ==
  /\ pc = "write"
  /\ Len(out.lines) < Len(rows)
  /\ LET row == rows[Len(out.lines) + 1]
     IN IF Dumps(row)
        THEN out' = [out EXCEPT !.lines = Append(@, row)] /\ UNCHANGED <<pc, exit>>
        ELSE Stop(1) /\ UNCHANGED out
  /\ UNCHANGED <<input, todo, rows>>

Close ==
  /\ pc = "write"
  /\ Len(out.lines) = Len(rows)
  /\ Stop(0)
  /\ UNCHANGED <<input, todo, rows, out>>

Next == \/ Refuse \/ Read
        \/ DeclineUnits \/ DeclineInsert \/ UndefinedBlock \/ EmptyBlock
        \/ Expand \/ Leaf
        \/ Open \/ WriteRow \/ Close

Spec == Init /\ [][Next]_vars
-----------------------------------------------------------------------------
(* What the rows should be, level by level and without a walk *)

\* An occurrence is the list of entities, with their positions, that leads
\* from the modelspace through blocks to an entity.
Names(o) == {o[k].entity.name : k \in 1..(Len(o) - 1)}
Target(o) == Last(o).entity

\* A similarity INSERT of a block that is there, under a name that no INSERT
\* around it has.
Replaced(o) ==
  /\ input.doc.units
  /\ Target(o).type = "INSERT"
  /\ Target(o).name \notin Names(o)
  /\ BlockOf(Target(o)) \in DOMAIN Blocks
  /\ Blocks[BlockOf(Target(o))] # <<>>
  /\ ExtrusionDecline(Target(o)) = "none"
  /\ InsertLinkDecline(Target(o)) = "none"
  /\ Finite(Target(o).insert[3])

Inside(prefix, entities) ==
  {Append(prefix, [at |-> i, entity |-> entities[i]]) : i \in DOMAIN entities}

\* One level further down from each of S.
Nested(S) ==
  UNION {Inside(o, Blocks[BlockOf(Target(o))]) : o \in {p \in S : Replaced(p)}}

\* The names that the document's INSERTs spell: no occurrence lies deeper.
InsertNames == {e.name : e \in {x \in EntitiesOf(input.doc) : x.type = "INSERT"}}

Levels ==
  LET level[k \in 0..Cardinality(InsertNames)] ==
        IF k = 0 THEN Inside(<<>>, input.doc.model) ELSE Nested(level[k - 1])
  IN level

Occurrences ==
  LET level == Levels
  IN UNION {level[k] : k \in 0..Cardinality(InsertNames)}

\* The occurrences that a row is owed for.
Owed == {o \in Occurrences : ~Replaced(o)}

\* Reading order.
Before(o, p) ==
  \E k \in DOMAIN o \cap DOMAIN p :
    /\ o[k].at < p[k].at
    /\ \A j \in 1..(k - 1) : o[j].at = p[j].at

Considered ==
  LET owed == Owed
  IN [i \in 1..Cardinality(owed) |->
        CHOOSE o \in owed :
          Cardinality({p \in owed : Before(p, o)}) = i - 1]

\* The handle and the block path of an occurrence.
Identity(o) ==
  <<<<IF Len(o) = 1 THEN "model" ELSE BlockOf(o[Len(o) - 1].entity),
      Last(o).at>>,
    [k \in 1..(Len(o) - 1) |-> o[k].entity.name]>>

\* Where the DXF reference has a point of the last entity.  Extrusions are +Z
\* or -Z, so that plan and height are apart.  Some types are stored in their
\* OCS, whose x and z axes are turned round for -Z; LINE, ELLIPSE and SPLINE
\* are stored in the coordinates around them.  An INSERT takes a point of its
\* block relative to the block's base, scales and turns it, and puts it at
\* the insertion point, all in its own OCS.
OcsTypes == {"ARC", "CIRCLE", "LWPOLYLINE", "POLYLINE"} \cup HatchTypes
Base(e) == input.doc.bases[BlockOf(e)]

Rotated(q, turns) ==
  IF turns % 4 = 0 THEN q
  ELSE IF turns % 4 = 1 THEN <<-q[2], q[1]>>
  ELSE IF turns % 4 = 2 THEN <<-q[1], -q[2]>>
  ELSE <<q[2], -q[1]>>

OutOfOcs(e, q) == IF e.extrusion[3] < 0 THEN <<-q[1], q[2]>> ELSE q

Inserted(e, q) ==
  LET turned == Rotated(<<e.sx * (q[1] - Base(e)[1]), e.sy * (q[2] - Base(e)[2])>>,
                        e.rotation)
  IN OutOfOcs(e, <<turned[1] + e.insert[1], turned[2] + e.insert[2]>>)

Drawn(o, q) ==
  LET n == Len(o) - 1
      at[k \in 0..n] ==
        IF k > 0 THEN Inserted(o[n + 1 - k].entity, at[k - 1])
        ELSE IF Target(o).type \in OcsTypes THEN OutOfOcs(Target(o), q) ELSE q
  IN at[n]

\* The height of an entity in the coordinates it is stored in.
Height(e) ==
  IF e.type \in {"LWPOLYLINE", "POLYLINE"} \cup HatchTypes THEN e.elevation
  ELSE IF e.type = "LINE" THEN e.start[3]
  ELSE IF e.type = "SPLINE" THEN e.controls[1][3]
  ELSE e.center[3]

HeightOutOfOcs(e, z) == IF e.extrusion[3] < 0 THEN -z ELSE z

InsertedHeight(e, z) ==
  HeightOutOfOcs(e, e.sz * (z - Base(e)[3]) + e.insert[3])

DrawnHeight(o) ==
  LET n == Len(o) - 1
      z == Height(Target(o))
      at[k \in 0..n] ==
        IF k > 0 THEN InsertedHeight(o[n + 1 - k].entity, at[k - 1])
        ELSE IF Target(o).type \in OcsTypes THEN HeightOutOfOcs(Target(o), z) ELSE z
  IN at[n]

\* Where a consumer puts it: tests/test_mirror_insert_fixture.py, _apply.
ApplyLink(q, link) ==
  LET x == IF link.reflect THEN -q[1] ELSE q[1]
      turned == Rotated(<<link.scale * x, link.scale * q[2]>>, link.rotate)
  IN <<turned[1] + link.translate[1], turned[2] + link.translate[2]>>

Placed(row, q) ==
  LET at[k \in 0..Len(row.links)] ==
        IF k = 0 THEN q ELSE ApplyLink(at[k - 1], row.links[k])
  IN at[Len(row.links)]

Points == {<<0, 0>>, <<1, 0>>, <<0, 1>>}

-----------------------------------------------------------------------------
(* Properties *)

\* Types; the file holds a prefix of the rows, and a run has an exit code
\* exactly when it has ended.
TypeOK ==
  /\ pc \in {"start", "walk", "write", "done"}
  /\ exit \in {-1, 0, 1, 2}
  /\ (exit = -1) = (pc # "done")
  /\ \A row \in Range(rows) : row.record \in {"entity", "decline"}
  /\ \A i \in DOMAIN out.lines : out.lines[i] = rows[i]

\* Nothing is dropped: the rows answer the considered entities one by one, in
\* reading order, each under its own block path (module docstring; emit).
EveryEntityAnswered ==
  LET considered == Considered
  IN /\ pc = "walk" => Len(rows) <= Len(considered)
     /\ pc = "write" => Len(rows) = Len(considered)
     /\ \A i \in DOMAIN rows :
          <<rows[i].handle, rows[i].path>> = Identity(considered[i])

\* No INSERT is expanded inside one of the same spelling (emit, `name in
\* stack`): the calls nest no deeper than the INSERTs of the file have
\* spellings, so the walk of a cyclic file ends.  A block is found whatever
\* the case of its name: under two spellings it may lie inside itself.
NestingIsBounded ==
  \A call \in Range(todo) :
    Cardinality(Range(call.path)) = Len(call.path)

MirrorsY(e) == e.sx > 0 /\ e.sy < 0

\* Drawings whose plan the code places: INSERTs with +Z extrusion that do not
\* mirror in y alone, of blocks based at the origin, and -Z only on an entity
\* that has an OCS.
Upright(o) ==
  /\ \A k \in 1..(Len(o) - 1) :
       LET e == o[k].entity
       IN /\ e.extrusion[3] > 0 /\ ~MirrorsY(e)
          /\ Base(e)[1] = 0 /\ Base(e)[2] = 0
  /\ Target(o).extrusion[3] < 0 => Target(o).type \in OcsTypes

\* The entity and the INSERTs below the k-th are all at height 0.
FlatBelow(o, k) ==
  /\ Height(Target(o)) = 0
  /\ \A j \in (k + 1)..(Len(o) - 1) : o[j].entity.insert[3] = 0

\* Drawings whose heights it places too: blocks based at height 0, zscale 1
\* around whatever has a height, no height on an entity that is -Z or a
\* POLYLINE, and no ellipse out of its plane.
Level(o) ==
  /\ \A k \in 1..(Len(o) - 1) :
       LET e == o[k].entity
       IN /\ Base(e)[3] = 0
          /\ Finite(e.sz) /\ (e.sz = 1 \/ FlatBelow(o, k))
  /\ Target(o).extrusion[3] < 0 \/ Target(o).type = "POLYLINE"
       => Height(Target(o)) = 0
  /\ Target(o).type = "ELLIPSE" => Target(o).major[3] = 0

\* The links of a row, applied local to world, put the entity where the
\* drawing has it in plan, and its elevation is the height it has there
\* (module docstring, "Placement links are applied local-to-world").  For
\* Upright and Level drawings; PlacementIsDxf is the claim for all.
AsDrawn(row, o) ==
  /\ \A q \in Points : Placed(row, q) = Drawn(o, q)
  /\ Level(o) => row.elevation = DrawnHeight(o)

PlacedAsDrawn ==
  LET considered == Considered
  IN \A i \in DOMAIN rows :
       rows[i].record = "entity" /\ Upright(considered[i])
         => AsDrawn(rows[i], considered[i])

\* The claim of test_reflection_negates_orientation_and_matches_placed_arc,
\* for any INSERT: the links of a record, applied as _apply does, give the
\* points where the drawing has them.
PlacementIsDxf ==
  LET considered == Considered
  IN \A i \in DOMAIN rows :
       rows[i].record = "entity" =>
         \A q \in Points : Placed(rows[i], q) = Drawn(considered[i], q)

\* Every record, and every member of a Compound, is valid under
\* carrier.schema.json: positive radii, weights and scales, no empty member
\* list, contours of three segments, Bezier sizes, and a tolerance its kind
\* can take.
FigureValid(figure) ==
  /\ \A x \in figure.positive : Finite(x) /\ x > 0
  /\ figure.kind \in {"Ring", "Compound", "BulgePolyline"} =>
       figure.sizes # <<>>
  /\ figure.kind = "Ring" =>
       /\ \A n \in Range(figure.sizes) : n >= 3
       /\ Len(figure.orientation) = Len(figure.sizes)
  /\ figure.kind \in {"Compound", "BulgePolyline"} =>
       \A n \in Range(figure.sizes) : n >= 1
  /\ figure.kind = "BSpline" => figure.sizes[1] >= 2 /\ figure.sizes[2] >= 4
  /\ figure.kind = "Bezier" =>
       /\ figure.sizes[1] \in {3, 4}
       /\ figure.sizes[2] = 2 * figure.sizes[1]
  /\ figure.kind = "Compound" => Len(figure.members) = figure.sizes[1]

RecordsValid ==
  \A row \in Range(rows) : row.record = "entity" =>
    /\ \A link \in Range(row.links) : link.scale > 0
    /\ \A figure \in {row.figure} \cup Range(row.figure.members) :
          FigureValid(figure) /\ ToleranceOk(figure.kind, row.tolerance)

\* Exit 0 means that the file holds a line for every row; any other exit
\* leaves the file of an earlier run as it was.  No number that json refuses
\* gets as far as the writer, which would leave half a file.
OutputIsWhole ==
  pc = "done" => IF exit = 0 THEN ~out.old /\ out.lines = rows
                 ELSE out.old
=============================================================================
