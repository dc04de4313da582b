------------------------------ MODULE Dashboard ------------------------------
(***************************************************************************)
(* scripts/gen_dashboard.py: the page that a source tree (see Guards) is   *)
(* rendered to.  What the page says is kept, how it is laid out is not.    *)
(* Further kinds of line are read here:                                    *)
(*                                                                         *)
(*   heading    a section of docs/verified-claims.md: title, is67 (an      *)
(*              Issue #67 section), feats, geoms; a row names its section  *)
(*   oracle     an oracle/ vector or test file: name, kind, count, tags    *)
(*   issue      a row of the triage table: num, area, priority, verdict    *)
(*   registry   a registry file that exists, with its number of entries    *)
(*   feed       docs/laser-ratchet.json: version, text                     *)
(***************************************************************************)
EXTENDS Guards

Proven == {"exact", "full-b64", "int-b64", "int-b64-arc", "int", "b64-rne"}
Regimes == Proven \cup {"structural", "cond", "oracle"}

CoverageFeats == {"distance", "arc-len", "area", "relate", "overlay", "buffer",
                  "join", "metric"}
CoverageGeoms == {"arc", "cs", "cc", "cp", "multi"}

-----------------------------------------------------------------------------
(* parse_claims *)

Rows(t) == {r \in Lines(t, "row") : r.theorems # {}}

\* A row carries a set of regimes.
Tally(rows) == [g \in Regimes |-> Cardinality({r \in rows : g \in r.regimes})]

RowsUnder(t, heads) == {r \in Rows(t) : r.section \in {h.title : h \in heads}}

\* All Issue #67 sections are one group; a section without rows is left out.
Sections(t) ==
  LET heads == Lines(t, "heading")
      groups == {{h \in heads : h.is67}} \cup {{h} : h \in {k \in heads : ~k.is67}}
  IN {[titles |-> {h.title : h \in g}, regimes |-> Tally(RowsUnder(t, g)),
       rows |-> Cardinality(RowsUnder(t, g))] :
        g \in {k \in groups : RowsUnder(t, k) # {}}}

\* The rows of the sections tagged with the feature and the geometry, and
\* the oracle files tagged so: an empty file counts once.
Cell(t, feat, geom) ==
  LET rows == RowsUnder(t, {h \in Lines(t, "heading") : feat \in h.feats /\ geom \in h.geoms})
      Hits(r) == Cardinality(r.regimes \cap Proven)
      files == {o \in Lines(t, "oracle") : <<feat, geom>> \in o.tags}
      Weight(o) == IF o.count = 0 THEN 1 ELSE o.count
  IN [proven |-> MapThenSumSet(Hits, rows),
      cond   |-> Tally(rows)["cond"],
      oracle |-> Tally(rows)["oracle"] + MapThenSumSet(Weight, files)]

Level(c) ==
  IF c.proven + c.cond + c.oracle = 0 THEN "none"
  ELSE IF c.proven > 0 /\ c.cond = 0 THEN "full" ELSE "partial"

\* The cells that some tag names; every other cell of the matrix is "none".
Tagged(t) ==
  (CoverageFeats \X CoverageGeoms)
    \cap ((UNION {h.feats \X h.geoms : h \in Lines(t, "heading")})
          \cup UNION {o.tags : o \in Lines(t, "oracle")})

Matrix(t) == [x \in Tagged(t) |->
                LET c == Cell(t, x[1], x[2]) IN [level |-> Level(c), counts |-> c]]

-----------------------------------------------------------------------------
(* parse_issues, parse_oracle, count_entries *)

OpenIssues == 64..69

Issues(t) == {[num |-> l.num, area |-> l.area, priority |-> l.priority,
               verdict |-> l.verdict] : l \in {i \in Lines(t, "issue") : i.num \in OpenIssues}}

Modes(t) == {[name |-> o.name, kind |-> o.kind, count |-> o.count] :
               o \in {m \in Lines(t, "oracle") : m.kind \in {"vectors", "tests", "red-tests"}}}

\* No number for a registry that is not there.
Entries(t, path) == {l.entries : l \in {r \in Lines(t, "registry") : r.path = path}}

-----------------------------------------------------------------------------
(* laser_ratchet_html.  Ratios and the slack are in hundredths. *)

DefaultSlack == 115
Unknown == -1

Badge(ratio, slack) ==
  IF ratio = Unknown THEN "-" ELSE IF ratio <= slack THEN "holds" ELSE "broken"

Year2Zoo == {"ExactEllipticalArc", "ExactCubicBezier", "ExactClothoid", "ExactNurbsSegment"}

TypeChip(y) ==
  IF y.measured THEN "measured"
  ELSE IF y.implemented THEN "unmeasured"
  ELSE IF y.name \in Year2Zoo THEN "library work" ELSE "not implemented"

\* A gate without a ratio gets the ratio of its two timings.
GateRatio(g) ==
  IF g.ratio # Unknown \/ g.laser = Unknown \/ g.chainsaw \in {Unknown, 0}
  THEN g.ratio ELSE (100 * g.laser) \div g.chainsaw

\* A row: its red and its current badge.
Gauged(r, slack) ==
  [case |-> r.case,
   red |-> IF r.red = Unknown THEN "not transcribed" ELSE Badge(r.red, slack),
   now |-> Badge(r.now, slack)]

\* A harness listed as ungauged that carries rows is shown with the gauged.
Laser(f) ==
  LET slack == IF f.slack \in {Unknown, 0} THEN DefaultSlack ELSE f.slack
      gauged == f.operations \cup {u \in f.ungauged : u.rows # {}}
  IN [tip |-> f.tip,
      types |-> {<<y.name, TypeChip(y)>> : y \in f.types},
      primitives |-> {<<g.id, Badge(GateRatio(g), slack)>> : g \in f.primitives},
      operations |-> {<<h.harness, {Gauged(r, slack) : r \in h.rows}>> : h \in gauged},
      ungauged |-> {u.harness : u \in f.ungauged \ gauged}]

\* A feed whose gates are not objects is valid JSON and has no rendering.
Renders(t) == \A l \in Lines(t, "feed") : l.text.valid => ~l.text.ragged

LaserSection(t) == {Laser(l.text) : l \in {f \in Lines(t, "feed") : f.text.valid}}

-----------------------------------------------------------------------------
(* build and render *)

Build(t) ==
  LET tally == Tally(Rows(t))
      Count(m) == m.count
  IN [claims |-> Cardinality(Rows(t)), tally |-> tally,
      proven |-> MapThenSumSet(LAMBDA g : tally[g], Proven),
      vectors |-> MapThenSumSet(Count, Modes(t)),
      sections |-> Sections(t), matrix |-> Matrix(t), issues |-> Issues(t),
      modes |-> Modes(t),
      registries |-> [counterexamples |-> Entries(t, "counterexamples"),
                      deferred |-> Entries(t, "deferred"),
                      handroll |-> Entries(t, "handrolled")],
      laser |-> LaserSection(t)]

\* The paths filter of .github/workflows/pages.yml, by the kind of line that
\* stands in each path.
PageInputs == {"heading", "row", "feed", "issue", "oracle", "registry",
               "generatorScript", "macro-meso-micro", "page", "workflow"}

\* dashboard_inputs: that filter without the committed page.
DashboardInputs == PageInputs \ {"page"}
=============================================================================
