---------------------------- MODULE DxfExtractInv ----------------------------
(***************************************************************************)
(* The inductive invariant of DxfExtract: what holds of every call that    *)
(* the walk still has to make, of every row it has answered, and of the    *)
(* file in each phase of the run.                                          *)
(***************************************************************************)
EXTENDS DxfExtract

InputInv == \E k \in DOMAIN Inputs : input \in Inputs[k]

\* A link that json can write and the schema accepts.
LinkInv(link) ==
  /\ AllFinite(XY(link.translate) \cup {link.rotate, link.scale})
  /\ link.scale > 0

\* A call of emit is for an entity of the document, below INSERTs whose names
\* are all spelled differently.
CallInv(call) ==
  /\ call.entity \in EntitiesOf(input.doc)
  /\ List(call.prefix) /\ \A link \in Range(call.prefix) : LinkInv(link)
  /\ List(call.path) /\ Range(call.path) \subseteq InsertNames
  /\ Cardinality(Range(call.path)) = Len(call.path)

WalkInv == List(todo) /\ \A call \in Range(todo) : CallInv(call)

\* A figure that json can write and the schema accepts; only a Compound has
\* members.
Sound(figure) ==
  /\ \A f \in {figure} \cup Range(figure.members) : FigureValid(f) /\ AllFinite(f.nums)
  /\ figure.members # <<>> => figure.kind = "Compound"

RowInv(row) ==
  \/ row.record = "decline"
  \/ /\ row.record = "entity"
     /\ \A link \in Range(row.links) : LinkInv(link)
     /\ Sound(row.figure)
     /\ Finite(row.elevation)
     /\ ToleranceOk(row.figure.kind, row.tolerance)

RowsInv == List(rows) /\ \A row \in Range(rows) : RowInv(row)

\* The lines are the first rows, in order; the file of an earlier run is
\* there until the walk is over.
FileInv ==
  /\ pc \in {"start", "walk", "write", "done"}
  /\ exit \in {-1, 0, 1, 2}
  /\ (exit = -1) = (pc # "done")
  /\ out = [old |-> out.old, lines |-> out.lines]
  /\ List(out.lines) /\ Len(out.lines) <= Len(rows)
  /\ \A i \in 1..Len(out.lines) : out.lines[i] = rows[i]
  /\ pc \in {"start", "walk"} => out.old /\ out.lines = <<>>
  /\ pc = "write" => ~out.old
  /\ pc = "done" => IF exit = 0 THEN ~out.old /\ Len(out.lines) = Len(rows)
                                ELSE out.old

ExtractInv == InputInv /\ WalkInv /\ RowsInv /\ FileInv

-----------------------------------------------------------------------------
(* The walk beside the occurrences: what it has answered and what it will *)

\* p is o, or lies inside the block that o inserts, at any depth.
Below(p, o) ==
  Len(o) <= Len(p) /\ \A k \in 1..Len(o) : p[k] = o[k]

\* What emit has for z_offset inside the block of the last entity around o.
SumZ(o) ==
  LET z[k \in 0..(Len(o) - 1)] ==
        IF k = 0 THEN 0 ELSE Plus(z[k - 1], o[k].entity.insert[3])
  IN z[Len(o) - 1]

\* A call of emit for occurrence o.
Visits(call, o) ==
  /\ call.entity = Target(o)
  /\ <<call.handle, call.path>> = Identity(o)
  /\ call.z = SumZ(o)
  /\ Upright(o) =>
       call.prefix = [k \in 1..(Len(o) - 1) |-> InsertLink(o[Len(o) - k].entity)]

\* The row of occurrence o.
Answers(row, o) ==
  /\ <<row.handle, row.path>> = Identity(o)
  /\ row.record = "entity" /\ Upright(o) => AsDrawn(row, o)

\* The rows answer the occurrences a, the calls will visit the occurrences p,
\* all in reading order; what is owed is answered or below a call.
Walked(a, p) ==
  /\ \A i \in DOMAIN a : Answers(rows[i], a[i])
  /\ \A i \in DOMAIN p : Visits(todo[i], p[i])
  /\ \A i, j \in DOMAIN a : i < j => Before(a[i], a[j])
  /\ \A i, j \in DOMAIN p : i < j => Before(p[i], p[j])
  /\ \A i \in DOMAIN a, j \in DOMAIN p : Before(a[i], p[j])
  /\ \A o \in Owed :
       (\E i \in DOMAIN a : a[i] = o) \/ (\E j \in DOMAIN p : Below(o, p[j]))

AnswerInv ==
  \/ rows = <<>> /\ pc \in {"start", "done"}
  \/ /\ pc # "start" /\ (pc = "write" => todo = <<>>)
     /\ \E a \in [1..Len(rows) -> Owed], p \in [1..Len(todo) -> Occurrences] : Walked(a, p)
=============================================================================
