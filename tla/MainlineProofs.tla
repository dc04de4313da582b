---------------------------- MODULE MainlineProofs ----------------------------
(***************************************************************************)
(* Proofs about Mainline, for every tree, every set of edits and every     *)
(* series of feeds: what the branch and the served page can never do.      *)
(***************************************************************************)
EXTENDS MainlineInv, FiniteSetTheorems, TLAPS

-----------------------------------------------------------------------------
(* Trees and hunks *)

\* A commit changes only the kinds of line that its hunks touch.
LEMMA Untouched ==
  ASSUME NEW t, NEW hunks, NEW f, f \notin Touches(hunks)
  PROVE  Lines(Apply(t, hunks), f) = Lines(t, f)
  BY DEF Touches, Apply, Lines

\* What becomes of one kind of line depends on that kind alone.
LEMMA LinesOfApply ==
  ASSUME NEW t, NEW u, NEW hunks, NEW f, Lines(t, f) = Lines(u, f)
  PROVE  Lines(Apply(t, hunks), f) = Lines(Apply(u, hunks), f)
  BY DEF Apply, Lines

\* A hunk that replaces the one line of its kind, among hunks that leave that
\* kind alone, puts its new line there, whatever way git finds it to apply.
LEMMA Replaced ==
  ASSUME NEW t, NEW E, NEW p, NEW q, NEW r, p.file = q.file,
         p.file \notin Touches(E), Sole(t, p.file, r), Clean(t, E \cup {Swap(p, q)})
  PROVE  /\ Sole(Apply(t, E \cup {Swap(p, q)}), p.file, q)
         /\ r = p \/ r = q
  <1> DEFINE h == Swap(p, q)
             f == p.file
  <1>1. h \in E \cup {h} /\ h.old = {p} /\ h.new = {q}
    BY DEF Swap
  <1>2. {p} \subseteq t \/ {q} \subseteq t
    BY <1>1 DEF Clean
  <1>3. r = p \/ r = q
    BY <1>2 DEF Lines, Sole
  <1>4. \A g \in E : \A l \in g.old \cup g.new : l.file # f
    BY DEF Touches
  <1>5. \A l : l \in Apply(t, E \cup {h}) /\ l.file = f <=> l = q
    <2>1. \A l : l \in Apply(t, E \cup {h}) <=>
             \/ l \in t /\ ~(\E g \in E \cup {h} : l \in g.old)
             \/ \E g \in E \cup {h} : l \in g.new
      BY DEF Apply
    <2>2. \A l : l \in t /\ l.file = f <=> l = r
      BY DEF Lines, Sole
    <2>3. \A l : l.file = f =>
             /\ (\E g \in E \cup {h} : l \in g.old) <=> l = p
             /\ (\E g \in E \cup {h} : l \in g.new) <=> l = q
      BY <1>1, <1>4
    <2>4. ASSUME NEW l, l.file = f
          PROVE  l \in Apply(t, E \cup {h}) <=> l = q
      <3>1. l \in Apply(t, E \cup {h}) <=> (l = r /\ l # p) \/ l = q
        BY <2>1, <2>2, <2>3, <2>4
      <3>2. QED
        BY <1>3, <3>1
    <2>5. QED
      BY <2>4
  <1>6. QED
    BY <1>3, <1>5 DEF Lines, Sole

\* The same hunk leaves every other kind as the other hunks make it.
LEMMA ReplacedOthers ==
  ASSUME NEW t, NEW E, NEW p, NEW q, p.file = q.file, NEW g, g # p.file
  PROVE  Lines(Apply(t, E \cup {Swap(p, q)}), g) = Lines(Apply(t, E), g)
  BY DEF Apply, Lines, Swap

LEMMA TouchesOfSwap ==
  ASSUME NEW E, NEW p, NEW q
  PROVE  Touches(E \cup {Swap(p, q)}) = Touches(E) \cup {p.file, q.file}
  <1> DEFINE h == Swap(p, q)
  <1>1. h.old = {p} /\ h.new = {q}
    BY DEF Swap
  <1> HIDE DEF h
  <1>2. Touches(E \cup {h}) = Touches(E) \cup {p.file, q.file}
    BY <1>1 DEF Touches
  <1>3. QED
    BY <1>2 DEF h

-----------------------------------------------------------------------------
(* What the page and the verdict depend on *)

\* The page is rendered from the dashboard's inputs and from nothing else.
LEMMA RenderedFromInputs ==
  ASSUME NEW t, NEW u, \A f \in DashboardInputs : Lines(t, f) = Lines(u, f)
  PROVE  Rendered(t) = Rendered(u)
  <1>1. /\ Lines(t, "heading") = Lines(u, "heading")
        /\ Lines(t, "row") = Lines(u, "row")
        /\ Lines(t, "feed") = Lines(u, "feed")
        /\ Lines(t, "issue") = Lines(u, "issue")
        /\ Lines(t, "oracle") = Lines(u, "oracle")
        /\ Lines(t, "registry") = Lines(u, "registry")
    BY DEF DashboardInputs, PageInputs
  <1>2. Rows(t) = Rows(u)
    BY <1>1 DEF Rows
  <1>3. \A heads : RowsUnder(t, heads) = RowsUnder(u, heads)
    BY <1>2 DEF RowsUnder
  <1>4. Sections(t) = Sections(u)
    BY <1>1, <1>3 DEF Sections
  <1>5. Tagged(t) = Tagged(u)
    BY <1>1 DEF Tagged
  <1>6. \A feat, geom : Cell(t, feat, geom) = Cell(u, feat, geom)
    BY <1>1, <1>3, Zenon DEF Cell
  <1>7. Matrix(t) = Matrix(u)
    BY <1>5, <1>6 DEF Matrix
  <1>8. Modes(t) = Modes(u) /\ Issues(t) = Issues(u)
    BY <1>1 DEF Modes, Issues
  <1>9. \A path : Entries(t, path) = Entries(u, path)
    BY <1>1 DEF Entries
  <1>10. LaserSection(t) = LaserSection(u) /\ Renders(t) = Renders(u)
    BY <1>1 DEF LaserSection, Renders
  <1>11. Build(t) = Build(u)
    <2>1. /\ \A path : Entries(t, path) = Entries(u, path)
          /\ Modes(t) = Modes(u)
          /\ Issues(t) = Issues(u)
          /\ LaserSection(t) = LaserSection(u)
      BY <1>8, <1>9, <1>10
    <2>2. QED
      BY <1>2, <1>4, <1>7, <2>1 DEF Build
  <1>12. QED
    BY <1>10, <1>11, Zenon DEF Rendered

\* Of the feed, the guards read its links and nothing else.
LEMMA GuardsIgnoreFeed ==
  ASSUME NEW t, NEW u, \A f : f # "feed" => Lines(t, f) = Lines(u, f),
         \A l \in Lines(u, "feed") : ~l.text.linksFork,
         GuardsPass(t)
  PROVE  GuardsPass(u)
  <1>1. /\ Lines(t, "source") = Lines(u, "source") /\ Lines(t, "split") = Lines(u, "split")
        /\ Lines(t, "debt") = Lines(u, "debt") /\ Lines(t, "cooked") = Lines(u, "cooked")
        /\ Lines(t, "row") = Lines(u, "row") /\ Lines(t, "claim") = Lines(u, "claim")
        /\ Lines(t, "prose") = Lines(u, "prose") /\ Lines(t, "host") = Lines(u, "host")
        /\ Lines(t, "project") = Lines(u, "project") /\ Lines(t, "exception") = Lines(u, "exception")
        /\ Lines(t, "live") = Lines(u, "live") /\ Lines(t, "count") = Lines(u, "count")
        /\ Lines(t, "sentence") = Lines(u, "sentence") /\ Lines(t, "link") = Lines(u, "link")
        /\ Lines(t, "adr") = Lines(u, "adr") /\ Lines(t, "status") = Lines(u, "status")
        /\ Lines(t, "token") = Lines(u, "token") /\ Lines(t, "context") = Lines(u, "context")
        /\ Lines(t, "generator") = Lines(u, "generator")
        /\ Lines(t, "generated") = Lines(u, "generated")
        /\ Lines(t, "consumer") = Lines(u, "consumer") /\ Lines(t, "switch") = Lines(u, "switch")
    OBVIOUS
  <1>2. Sources(t) = Sources(u)
    BY <1>1 DEF Sources
  <1>3. ReadmeCounts(u)
    <2>1. \A label : Actual(t, label) = Actual(u, label)
      BY <1>1, <1>2 DEF Actual
    <2>2. ReadmeCounts(t)
      BY DEF GuardsPass
    <2>3. \A c \in Lines(u, "count") :
             IF c.label \in Exact THEN c.number = Actual(u, c.label)
                                  ELSE c.number <= Actual(u, c.label)
      BY <1>1, <2>1, <2>2, Zenon DEF ReadmeCounts
    <2>4. \A label \in Exact : \E c \in Lines(u, "count") : c.doc = "README" /\ c.label = label
      BY <1>1, <2>2 DEF ReadmeCounts
    <2>5. \E l \in Lines(u, "live") : l.counts = <<Cardinality(Lines(u, "exception")),
             Actual(u, "flocq exceptions"), Actual(u, "theories exceptions"),
             InLane(Lines(u, "exception"), "hunt")>>
      <3>1. PICK l \in Lines(t, "live") : l.counts = <<Cardinality(Lines(t, "exception")),
               Actual(t, "flocq exceptions"), Actual(t, "theories exceptions"),
               InLane(Lines(t, "exception"), "hunt")>>
        BY <2>2, Zenon DEF ReadmeCounts
      <3>2. /\ Lines(t, "exception") = Lines(u, "exception")
            /\ Actual(t, "flocq exceptions") = Actual(u, "flocq exceptions")
            /\ Actual(t, "theories exceptions") = Actual(u, "theories exceptions")
        BY <1>1, <2>1
      <3>3. l \in Lines(u, "live")
        BY <1>1
      <3>4. QED
        BY <3>1, <3>2, <3>3
    <2>6. QED
      BY <2>3, <2>4, <2>5 DEF ReadmeCounts
  <1>4. ReadmeClaims(u)
    BY <1>1 DEF GuardsPass, ReadmeClaims
  <1>5. CiteOrCut(u)
    <2>1. KnownIds(t) = KnownIds(u)
      BY <1>1 DEF KnownIds
    <2>2. \A theorem : BoundTo(t, theorem) = BoundTo(u, theorem)
      BY <1>1 DEF BoundTo
    <2>3. ASSUME NEW l PROVE Cited(t, l) <=> Cited(u, l)
      <3>1. BoundTo(t, l.head) = BoundTo(u, l.head)
        BY <2>2
      <3>2. QED
        BY <2>1, <3>1 DEF Cited
    <2>4. CiteOrCut(t)
      BY DEF GuardsPass
    <2>5. QED
      BY <1>1, <2>1, <2>2, <2>3, <2>4 DEF CiteOrCut
  <1>6. ModuleSplit(u)
    <2>1. DirectDependents(t) = DirectDependents(u)
      BY <1>2 DEF DirectDependents
    <2>2. \A m : Dependents(t, m) = Dependents(u, m)
      BY <2>1 DEF Dependents
    <2>3. \A m : BlastRadius(t, m) = BlastRadius(u, m)
      BY <2>2 DEF BlastRadius
    <2>4. Gated(t) = Gated(u)
      BY <1>2, <2>3 DEF Gated
    <2>5. ModuleSplit(t)
      BY DEF GuardsPass
    <2>6. QED
      BY <1>1, <2>4, <2>5 DEF ModuleSplit
  <1>7. Declarations(t) = Declarations(u)
    BY <1>2 DEF Declarations
  <1>8. ConstructorGate(u)
    <2>1. UnderConstructor(t) = UnderConstructor(u)
      BY <1>7 DEF UnderConstructor
    <2>2. QED
      BY <1>1, <2>1 DEF GuardsPass, ConstructorGate
  <1>9. NameShape(u)
    <2>1. \A name : Homes(t, name) = Homes(u, name)
      BY <1>7 DEF Homes
    <2>2. {y \in Declarations(t) : Cardinality(Homes(t, y[2].name)) > 1}
            = {y \in Declarations(u) : Cardinality(Homes(u, y[2].name)) > 1}
      BY <1>7, <2>1
    <2>3. NameDebt(t) = NameDebt(u)
      BY <1>7, <2>1, <2>2 DEF NameDebt
    <2>4. QED
      BY <1>1, <2>3 DEF GuardsPass, NameShape
  <1>10. ClaimStatements(u)
    <2>1. \A c, r, s, q : ResultHolds(t, c, r, s, q) <=> ResultHolds(u, c, r, s, q)
      BY <1>1 DEF ResultHolds
    <2>2. \A c : ClaimHolds(t, c) <=> ClaimHolds(u, c)
      BY <1>1, <1>2, <2>1 DEF ClaimHolds
    <2>3. ClaimStatements(t)
      BY DEF GuardsPass
    <2>4. QED
      BY <1>1, <1>2, <2>2, <2>3 DEF ClaimStatements
  <1>11. AdrStatus(u)
    <2>1. Declared(t) = Declared(u)
      BY <1>1 DEF Declared
    <2>2. QED
      BY <1>1, <2>1 DEF GuardsPass, AdrStatus
  <1>12. SqlmmNamedFields(u)
    <2>1. \A id : InRegistry(t, id) = InRegistry(u, id)
      BY <1>1 DEF InRegistry
    <2>2. QED
      BY <1>1, <2>1 DEF GuardsPass, SqlmmNamedFields
  <1>13. GeneratedProofs(u)
    <2>1. \A f : Regenerated(t, f) = Regenerated(u, f)
      BY <1>1 DEF Regenerated
    <2>2. QED
      BY <1>1, <2>1 DEF GuardsPass, GeneratedProofs
  <1>14. ConsumerTolerances(u)
    BY <1>1, <1>2, <1>7 DEF GuardsPass, ConsumerTolerances
  <1>15. QED
    BY <1>3, <1>4, <1>5, <1>6, <1>8, <1>9, <1>10, <1>11, <1>12, <1>13, <1>14 DEF GuardsPass

-----------------------------------------------------------------------------
(* The first state *)

LEMMA OnlyPage ==
  ASSUME NEW p, Sole(main.tree, "page", p)
  PROVE  StoredPage = p
  BY DEF Sole, StoredPage

LEMMA InitMInv == Init => MInv
  <1> SUFFICES ASSUME Init PROVE MInv
    OBVIOUS
  <1> USE DEF Init
  <1> DEFINE p == [file |-> "page", sha |-> 0, shows |-> Rendered(Base)]
  <1>0. Sole(main.tree, "page", p)
    BY BaseAssumption DEF Sole
  <1>1. PICK l \in Lines(Base, "feed") :
          /\ Lines(Base, "feed") = {l}
          /\ l = [file |-> "feed", text |-> l.text] /\ l.text.tip \in {Unknown, 0}
    BY BaseAssumption
  <1>2. upstream.tip = 0 /\ upstream.text = l.text
    BY <1>1 DEF FeedOf
  <1>3. TipInv
    <2>1. p \in Lines(main.tree, "page") /\ p.sha \in 0..main.height
      BY <1>0 DEF Sole
    <2>2. Sole(main.tree, "feed", l) /\ Served(l)
      BY <1>1, <1>2 DEF Sole, Served
    <2>3. QED
      BY <1>0, <1>1, <2>1, <2>2, MergesAssumption DEF TipInv
  <1>4. UpstreamInv
    BY <1>1, <1>2, FeedAssumption DEF UpstreamInv
  <1>5. PullsInv
    BY DEF PullsInv, PullInv, NoPR
  <1>6. VendorInv
    BY <1>2 DEF VendorInv
  <1>7. PageRunInv
    BY DEF PageRunInv
  <1>8. FreshInv
    <2>1. StoredBy = 0
      BY DEF StoredBy, Max
    <2>2. StoredPage.shows = main.page
      <3>1. StoredPage = p
        BY <1>0, OnlyPage
      <3>2. QED
        BY <3>1
    <2>3. QED
      BY <2>1, <2>2 DEF FreshInv, FreshMeansCurrent
  <1>9. QED
    BY <1>3, <1>4, <1>5, <1>6, <1>7, <1>8 DEF MInv

-----------------------------------------------------------------------------
(* The history of the branch *)

\* Appending to the history keeps what it said.
LEMMA LogGrows ==
  ASSUME NEW x, log \in Seq(SUBSET Kinds), x \subseteq Kinds, log' = Append(log, x)
  PROVE  /\ log' \in Seq(SUBSET Kinds)
         /\ Len(log) \in Nat
         /\ Len(log') = Len(log) + 1
         /\ \A h \in 1..Len(log) : log'[h] = log[h]
         /\ log'[Len(log) + 1] = x
  OBVIOUS

\* A commit that leaves the page alone is not the one that stored it.
LEMMA StoredBefore ==
  ASSUME NEW x, log \in Seq(SUBSET Kinds), x \subseteq Kinds, log' = Append(log, x),
         "page" \notin x
  PROVE  StoredBy' = StoredBy
  <1>1. {h \in 1..Len(log') : "page" \in log'[h]} = {h \in 1..Len(log) : "page" \in log[h]}
    BY LogGrows
  <1>2. QED
    BY <1>1 DEF StoredBy

\* A commit that touches the page is.
LEMMA StoredNow ==
  ASSUME NEW x, log \in Seq(SUBSET Kinds), x \subseteq Kinds, log' = Append(log, x),
         "page" \in x
  PROVE  StoredBy' = Len(log')
  <1> DEFINE S == {0} \cup {h \in 1..Len(log') : "page" \in log'[h]}
  <1>1. Len(log') \in S /\ \A h \in S : Len(log') >= h
    BY LogGrows
  <1>2. S \subseteq Int
    BY LogGrows
  <1>3. \A m \in S : (\A h \in S : m >= h) => m = Len(log')
    BY <1>1, <1>2
  <1>4. Max(S) = Len(log')
    BY <1>1, <1>3, Zenon DEF Max
  <1>5. QED
    BY <1>4 DEF StoredBy

-----------------------------------------------------------------------------
(* What lands *)

\* An author's own lines leave the page and the feed as they are.
LEMMA PlainLands ==
  ASSUME NEW b, NEW hunks, Plain(b, hunks)
  PROVE  Touches(hunks) \subseteq Kinds \ {"page", "feed"}
  BY EditsAssumption DEF Plain, Kinds

\* A regenerated page is stored whole, and shows what lands with it unless
\* something it is rendered from has moved.
LEMMA RepagedLands ==
  ASSUME TipInv, NEW b, NEW hunks, Repaged(b, hunks), Clean(main.tree, hunks)
  PROVE  /\ Touches(hunks) \subseteq Kinds \ {"feed"}
         /\ "page" \in Touches(hunks)
         /\ \E q : /\ Sole(Apply(main.tree, hunks), "page", q)
                  /\ Right(q, Apply(main.tree, hunks))
  <1>1. PICK p, q :
          /\ b \in DOMAIN Edits /\ hunks = Edits[b] \cup {Swap(p, q)}
          /\ p.file = "page" /\ q.file = "page"
          /\ Right(q, Apply(main.tree, Edits[b]))
    BY DEF Repaged
  <1>2. Touches(Edits[b]) \subseteq Kinds \ {"page", "feed"}
    BY <1>1, PlainLands DEF Plain
  <1>3. Touches(hunks) = Touches(Edits[b]) \cup {"page"}
    BY <1>1, TouchesOfSwap
  <1>4. Sole(Apply(main.tree, hunks), "page", q)
    <2>1. PICK r : Sole(main.tree, "page", r)
      BY DEF TipInv
    <2>2. /\ p.file \notin Touches(Edits[b]) /\ Sole(main.tree, p.file, r)
          /\ Clean(main.tree, Edits[b] \cup {Swap(p, q)}) /\ p.file = q.file
      BY <1>1, <1>2, <2>1
    <2>3. Sole(Apply(main.tree, Edits[b] \cup {Swap(p, q)}), p.file, q)
      BY <2>2, Replaced
    <2>4. QED
      BY <1>1, <2>3
  <1>5. Rendered(Apply(main.tree, hunks)) = Rendered(Apply(main.tree, Edits[b]))
    <2>1. \A f \in DashboardInputs : f # "page"
      BY DEF DashboardInputs
    <2>2. \A f \in DashboardInputs :
            Lines(Apply(main.tree, hunks), f) = Lines(Apply(main.tree, Edits[b]), f)
      BY <1>1, <2>1, ReplacedOthers
    <2>3. QED
      BY <2>2, RenderedFromInputs
  <1>6. Touches(hunks) \subseteq Kinds \ {"feed"} /\ "page" \in Touches(hunks)
    BY <1>2, <1>3 DEF Kinds
  <1>7. Right(q, Apply(main.tree, hunks))
    BY <1>1, <1>5 DEF Right
  <1>8. QED
    BY <1>4, <1>6, <1>7

\* A vendored feed is stored whole, and is the one that stood there or newer.
LEMMA VendoredLands ==
  ASSUME TipInv, NEW hunks, Vendored(hunks), Clean(main.tree, hunks)
  PROVE  /\ Touches(hunks) = {"feed"}
         /\ \E k, l :
              /\ Sole(main.tree, "feed", l)
              /\ Sole(Apply(main.tree, hunks), "feed", k)
              /\ \A h \in hunks : k \in h.new
              /\ \/ Newer(k, l)
                 \/ k = l /\ \E h \in hunks : h.new \subseteq main.tree
  <1> DEFINE others == {}
  <1>1. PICK o, k : hunks = others \cup {Swap(o, k)} /\ Newer(k, o)
    BY DEF Vendored
  <1>2. o.file = "feed" /\ k.file = "feed"
    BY <1>1 DEF Newer, Served
  <1>3. PICK l : Sole(main.tree, "feed", l)
    BY DEF TipInv
  <1>4. Touches(others) = {}
    BY DEF Touches
  <1> HIDE DEF others
  <1>5. Sole(Apply(main.tree, hunks), "feed", k) /\ (l = o \/ l = k)
    <2>1. /\ o.file \notin Touches(others) /\ Sole(main.tree, o.file, l)
          /\ Clean(main.tree, others \cup {Swap(o, k)}) /\ o.file = k.file
      BY <1>1, <1>2, <1>3, <1>4
    <2>2. /\ Sole(Apply(main.tree, others \cup {Swap(o, k)}), o.file, k)
          /\ l = o \/ l = k
      BY <2>1, Replaced
    <2>3. QED
      BY <1>1, <1>2, <2>2
  <1>6. Touches(hunks) = {"feed"}
    BY <1>1, <1>2, <1>4, TouchesOfSwap
  <1>7. \A h \in hunks : k \in h.new
    BY <1>1 DEF Swap, others
  <1>8. l = k => \E h \in hunks : h.new \subseteq main.tree
    <2>1. l \in main.tree
      BY <1>3 DEF Sole, Lines
    <2>2. Swap(o, k) \in hunks /\ Swap(o, k).new = {k}
      BY <1>1 DEF Swap
    <2>3. QED
      BY <2>1, <2>2
  <1>9. QED
    BY <1>1, <1>3, <1>5, <1>6, <1>7, <1>8

\* A commit that touches none of the page's inputs renders to the same page.
LEMMA SamePage ==
  ASSUME NEW t, NEW hunks, Touches(hunks) \cap DashboardInputs = {}
  PROVE  Rendered(Apply(t, hunks)) = Rendered(t)
  BY Untouched, RenderedFromInputs

LEMMA LandedLog ==
  ASSUME TipInv, NEW hunks, Land(hunks), Touches(hunks) \subseteq Kinds
  PROVE  /\ log' \in Seq(SUBSET Kinds)
         /\ main.height \in Nat
         /\ Len(log) = main.height
         /\ main'.height = main.height + 1 /\ Len(log') = main.height + 1
         /\ \A h \in 1..main.height : log'[h] = log[h]
         /\ log'[main.height + 1] = Touches(hunks)
  BY LogGrows DEF TipInv, Land

\* What has not moved after a commit had not moved before it, and the commit
\* itself touches none of the inputs.
LEMMA UnmovedBefore ==
  ASSUME TipInv, NEW hunks, Land(hunks), Touches(hunks) \subseteq Kinds,
         NEW s \in 0..main.height, Unmoved(s)'
  PROVE  Unmoved(s) /\ Touches(hunks) \cap DashboardInputs = {}
  <1>1. \A h \in (s + 1)..(main.height + 1) : log'[h] \cap DashboardInputs = {}
    BY LandedLog DEF Unmoved
  <1>2. main.height + 1 \in (s + 1)..(main.height + 1)
    BY LandedLog
  <1>3. \A h \in (s + 1)..main.height :
          h \in 1..main.height /\ h \in (s + 1)..(main.height + 1)
    BY LandedLog
  <1>4. Touches(hunks) \cap DashboardInputs = {}
    BY <1>1, <1>2, LandedLog
  <1>5. Unmoved(s)
    BY <1>1, <1>3, LandedLog DEF Unmoved
  <1>6. QED
    BY <1>4, <1>5

\* However a branch was opened, its commit touches known kinds only.
LEMMA ExpectedTouches ==
  ASSUME TipInv, NEW b, NEW hunks, Expected(b, hunks), Clean(main.tree, hunks)
  PROVE  Touches(hunks) \subseteq Kinds
  <1>1. CASE Plain(b, hunks)
    BY <1>1, PlainLands
  <1>2. CASE Repaged(b, hunks)
    BY <1>2, RepagedLands
  <1>3. CASE Vendored(hunks)
    BY <1>3, VendoredLands DEF Kinds
  <1>4. QED
    BY <1>1, <1>2, <1>3 DEF Expected

\* After a commit the tree has one page, built no later than the tip.
LEMMA LandedPage ==
  ASSUME TipInv, NEW b, NEW hunks, Expected(b, hunks), Clean(main.tree, hunks), Land(hunks)
  PROVE  \E p : Sole(main'.tree, "page", p) /\ p.sha \in 0..main'.height
  <1>1. /\ main'.tree = Apply(main.tree, hunks)
        /\ main'.height = main.height + 1 /\ main.height \in Nat
    BY LandedLog, ExpectedTouches DEF Land
  <1>2. PICK r : Sole(main.tree, "page", r) /\ r.sha \in 0..main.height
    BY DEF TipInv
  <1>3. CASE "page" \notin Touches(hunks)
    <2>1. Lines(main'.tree, "page") = Lines(main.tree, "page")
      BY <1>1, <1>3, Untouched
    <2>2. QED
      BY <1>1, <1>2, <2>1 DEF Sole
  <1>4. CASE "page" \in Touches(hunks)
    <2>1. Repaged(b, hunks)
      BY <1>4, PlainLands, VendoredLands DEF Expected
    <2>2. PICK q : Sole(Apply(main.tree, hunks), "page", q) /\ Right(q, Apply(main.tree, hunks))
      BY <2>1, RepagedLands
    <2>3. q.sha \in 0..main.height
      BY <2>2 DEF Right
    <2>4. q.sha \in 0..main'.height /\ Sole(main'.tree, "page", q)
      BY <1>1, <2>2, <2>3
    <2>5. QED
      BY <2>4
  <1>5. QED
    BY <1>3, <1>4

\* After a commit the tree has one feed: the same, or a newer one.
LEMMA LandedFeed ==
  ASSUME TipInv, NEW b, NEW hunks, Expected(b, hunks), Clean(main.tree, hunks), Land(hunks)
  PROVE  \E k, l : /\ Sole(main.tree, "feed", l) /\ Sole(main'.tree, "feed", k)
                  /\ Served(l)
                  /\ \/ Newer(k, l)
                     \/ k = l /\ (Vendored(hunks) => \E h \in hunks : h.new \subseteq main.tree)
  <1>1. main'.tree = Apply(main.tree, hunks)
    BY DEF Land
  <1>2. PICK l : Sole(main.tree, "feed", l) /\ Served(l)
    BY DEF TipInv
  <1>3. CASE Vendored(hunks)
    <2>1. PICK k, o : /\ Sole(main.tree, "feed", o) /\ Sole(main'.tree, "feed", k)
                      /\ \/ Newer(k, o)
                         \/ k = o /\ \E h \in hunks : h.new \subseteq main.tree
      BY <1>1, <1>3, VendoredLands
    <2>2. o = l
      BY <1>2, <2>1 DEF Sole
    <2>3. QED
      BY <1>2, <2>1, <2>2
  <1>4. CASE ~Vendored(hunks)
    <2>1. "feed" \notin Touches(hunks)
      BY <1>4, PlainLands, RepagedLands DEF Expected
    <2>2. Sole(main'.tree, "feed", l)
      BY <1>1, <1>2, <2>1, Untouched DEF Sole
    <2>3. QED
      BY <1>2, <1>4, <2>2
  <1>5. QED
    BY <1>3, <1>4

\* A merge below MaxMerges, and a vendor run's commit at any height, keep
\* what holds of the tip.
LEMMA LandKeepsTip ==
  ASSUME TipInv, NEW b, NEW hunks, Expected(b, hunks), Clean(main.tree, hunks), Land(hunks),
         upstream' = upstream, upstream.tip \in Nat,
         \/ main.height < MaxMerges
         \/ Vendored(hunks) /\ ~(\E h \in hunks : h.new \subseteq main.tree)
  PROVE  TipInv'
  <1>1. Touches(hunks) \subseteq Kinds
    BY ExpectedTouches
  <1>2. /\ log' \in Seq(SUBSET Kinds)
        /\ main'.height = main.height + 1 /\ main.height \in Nat
        /\ main'.height = Len(log')
    BY <1>1, LandedLog
  <1>3. main'.green = GuardsPass(main'.tree) /\ main'.page = Rendered(main'.tree)
    BY DEF Land
  <1>4. PICK p : Sole(main'.tree, "page", p) /\ p.sha \in 0..main'.height
    BY LandedPage
  <1>5. PICK k, l : /\ Sole(main.tree, "feed", l) /\ Sole(main'.tree, "feed", k)
                    /\ Served(l)
                    /\ \/ Newer(k, l)
                       \/ k = l /\ (Vendored(hunks) => \E h \in hunks : h.new \subseteq main.tree)
    BY LandedFeed
  <1>6. Served(k)'
    BY <1>5 DEF Newer, Served
  <1>7. main'.height <= MaxMerges \/ main'.height <= MaxMerges + k.text.tip
    <2>1. CASE main.height < MaxMerges
      BY <1>2, <2>1, MergesAssumption
    <2>2. CASE Vendored(hunks) /\ ~(\E h \in hunks : h.new \subseteq main.tree)
      <3>1. Newer(k, l)
        BY <1>5, <2>2
      <3>2. main.height <= MaxMerges \/ main.height <= MaxMerges + l.text.tip
        BY <1>5 DEF TipInv, Sole
      <3>3. /\ k.text.tip \in Int /\ l.text.tip \in Int
            /\ l.text.tip < k.text.tip /\ 1 <= k.text.tip
        BY <1>5, <3>1 DEF Newer, Served, Unknown
      <3>4. QED
        BY <1>2, <3>2, <3>3, MergesAssumption
    <2>3. QED
      BY <2>1, <2>2
  <1>8. p \in Lines(main'.tree, "page") /\ k \in Lines(main'.tree, "feed")
    BY <1>4, <1>5 DEF Sole
  <1>9. QED
    BY <1>2, <1>3, <1>4, <1>5, <1>6, <1>7, <1>8 DEF TipInv

\* The freshness check still tells the truth after a commit: a regenerated
\* page is right unless something moved under it; any other commit either
\* touches no input of the page, or is counted as one more commit behind.
LEMMA LandKeepsFresh ==
  ASSUME TipInv, FreshInv, NEW b, NEW hunks, Expected(b, hunks), Clean(main.tree, hunks),
         Land(hunks)
  PROVE  FreshInv'
  <1>1. Touches(hunks) \subseteq Kinds
    BY ExpectedTouches
  <1>2. /\ log \in Seq(SUBSET Kinds) /\ log' = Append(log, Touches(hunks))
        /\ main.height \in Nat /\ Len(log) = main.height
        /\ Len(log') = main.height + 1
        /\ \A h \in 1..main.height : log'[h] = log[h]
        /\ log'[main.height + 1] = Touches(hunks)
    BY <1>1, LandedLog DEF TipInv, Land
  <1>3. main'.tree = Apply(main.tree, hunks) /\ main'.page = Rendered(main'.tree)
    BY DEF Land
  <1>4. CASE "page" \notin Touches(hunks)
    <2>1. PICK p : Sole(main.tree, "page", p) /\ p.sha \in 0..main.height
      BY DEF TipInv
    <2>2. Sole(main'.tree, "page", p)
      BY <1>3, <1>4, <2>1, Untouched DEF Sole
    <2>3. StoredPage = p /\ StoredPage' = p
      BY <2>1, <2>2, OnlyPage DEF Sole, StoredPage
    <2>4. StoredBy' = StoredBy /\ StoredBy \in 0..main.height
      BY <1>1, <1>2, <1>4, StoredBefore DEF FreshInv
    <2>5. ASSUME Behind' = {}
          PROVE  p.shows = main'.page
      <3>1. \A h \in (p.sha + 1)..(main.height + 1) :
               h # StoredBy => log'[h] \cap DashboardInputs = {}
        BY <1>2, <2>3, <2>4, <2>5 DEF Behind
      <3>2. Behind = {}
        BY <1>2, <2>1, <2>3, <3>1 DEF Behind
      <3>3. Touches(hunks) \cap DashboardInputs = {}
        BY <1>2, <2>1, <2>4, <3>1
      <3>4. Rendered(main'.tree) = Rendered(main.tree)
        BY <1>3, <3>3, SamePage
      <3>5. p.shows = main.page
        BY <2>3, <3>2 DEF FreshInv, FreshMeansCurrent, Fresh
      <3>6. QED
        BY <1>3, <3>4, <3>5 DEF TipInv
    <2>6. QED
      BY <1>2, <2>3, <2>4, <2>5 DEF FreshInv, FreshMeansCurrent, Fresh
  <1>5. CASE "page" \in Touches(hunks)
    <2>1. Repaged(b, hunks)
      BY <1>5, PlainLands, VendoredLands DEF Expected
    <2>2. PICK q : Sole(Apply(main.tree, hunks), "page", q) /\ Right(q, Apply(main.tree, hunks))
      BY <2>1, RepagedLands
    <2>3. StoredPage' = q
      BY <1>3, <2>2 DEF Sole, StoredPage
    <2>4. StoredBy' = main.height + 1
      BY <1>1, <1>2, <1>5, StoredNow
    <2>5. ASSUME Behind' = {}
          PROVE  q.shows = main'.page
      <3>1. \A h \in (q.sha + 1)..(main.height + 1) :
               h # main.height + 1 => log'[h] \cap DashboardInputs = {}
        BY <1>2, <2>3, <2>4, <2>5 DEF Behind
      <3>2. q.sha \in 0..main.height
        BY <2>2 DEF Right
      <3>3. \A h \in (q.sha + 1)..main.height :
              /\ h \in 1..main.height /\ h # main.height + 1
              /\ h \in (q.sha + 1)..(main.height + 1)
        BY <1>2, <3>2
      <3>4. Unmoved(q.sha)
        BY <1>2, <3>1, <3>3 DEF Unmoved
      <3>5. QED
        BY <1>3, <2>2, <3>4 DEF Right
    <2>6. QED
      BY <1>2, <2>3, <2>4, <2>5 DEF FreshInv, FreshMeansCurrent, Fresh
  <1>6. QED
    BY <1>4, <1>5

\* A branch that was right about the tip is right about the next one, or no
\* longer claims to be.
LEMMA LandKeepsPull ==
  ASSUME TipInv, NEW hunks, Land(hunks), Touches(hunks) \subseteq Kinds, upstream' = upstream,
         NEW c, PullInv(c), prs'[c] = prs[c]
  PROVE  PullInv(c)'
  <1>1. main.height \in Nat /\ main'.height = main.height + 1
    BY LandedLog
  <1>2. main'.tree = Apply(main.tree, hunks)
    BY DEF Land
  <1>3. ASSUME Repaged(c, prs[c].hunks)
        PROVE  Repaged(c, prs[c].hunks)'
    <2>1. PICK h \in prs[c].hunks : \E p \in h.old, q \in h.new :
            /\ c \in DOMAIN Edits /\ prs[c].hunks = Edits[c] \cup {h}
            /\ h = Swap(p, q) /\ p.file = "page" /\ q.file = "page"
            /\ Right(q, Apply(main.tree, Edits[c]))
      BY <1>3 DEF Repaged
    <2>2. ASSUME NEW q, Right(q, Apply(main.tree, Edits[c]))
          PROVE  Right(q, Apply(main.tree, Edits[c]))'
      <3>1. q.sha \in 0..main.height /\ q.sha \in 0..main'.height
        BY <1>1, <2>2 DEF Right
      <3>2. ASSUME Unmoved(q.sha)'
            PROVE  q.shows = Rendered(Apply(main'.tree, Edits[c]))
        <4>1. Unmoved(q.sha) /\ Touches(hunks) \cap DashboardInputs = {}
          BY <3>1, <3>2, UnmovedBefore
        <4>2. \A f \in DashboardInputs : Lines(main'.tree, f) = Lines(main.tree, f)
          BY <1>2, <4>1, Untouched
        <4>3. \A f \in DashboardInputs :
                Lines(Apply(main'.tree, Edits[c]), f) = Lines(Apply(main.tree, Edits[c]), f)
          BY <4>2, LinesOfApply
        <4>4. Rendered(Apply(main'.tree, Edits[c])) = Rendered(Apply(main.tree, Edits[c]))
          BY <4>3, RenderedFromInputs
        <4>5. QED
          BY <2>2, <4>1, <4>4 DEF Right
      <3>3. QED
        BY <3>1, <3>2 DEF Right
    <2>3. QED
      BY <2>1, <2>2 DEF Repaged
  <1>4. Vendored(prs[c].hunks) => Vendored(prs[c].hunks)'
    BY DEF Vendored, Newer, Served
  <1>5. Plain(c, prs[c].hunks) => Plain(c, prs[c].hunks)'
    BY DEF Plain
  <1>6. prs'[c].seen \in 0..main'.height /\ prs'[c].seen # main'.height
    BY <1>1 DEF PullInv
  <1>7. prs'[c].pc \in {"open", "checked"} => Expected(c, prs[c].hunks)'
    BY <1>3, <1>4, <1>5 DEF PullInv, Expected
  <1>8. QED
    BY <1>6, <1>7 DEF PullInv

-----------------------------------------------------------------------------
(* The steps that leave the branch as it is *)

LEMMA TreeStays ==
  ASSUME MInv, UNCHANGED <<main, log, upstream>>
  PROVE  TipInv' /\ FreshInv'
  <1>1. TipInv'
    BY DEF MInv, TipInv, Served
  <1>2. FreshInv'
    BY DEF MInv, FreshInv, FreshMeansCurrent, Fresh, Behind, StoredBy, StoredPage
  <1>3. QED
    BY <1>1, <1>2

LEMMA PullStays ==
  ASSUME NEW c, PullInv(c), UNCHANGED <<main, log, upstream>>, prs'[c] = prs[c]
  PROVE  PullInv(c)'
  <1>1. Expected(c, prs[c].hunks) => Expected(c, prs[c].hunks)'
    BY DEF Expected, Plain, Repaged, Right, Unmoved, Vendored, Newer, Served
  <1>2. QED
    BY <1>1 DEF PullInv

LEMMA PullsStay ==
  ASSUME MInv, UNCHANGED <<main, log, upstream, prs>>
  PROVE  PullsInv'
  BY PullStays DEF MInv, PullsInv

\* One branch changes, the others keep what they had.
LEMMA OnePullChanges ==
  ASSUME MInv, NEW b \in Branches, NEW r, prs' = [prs EXCEPT ![b] = r], PullInv(b)',
         \A c \in Branches \ {b} : PullInv(c)'
  PROVE  PullsInv'
  BY DEF MInv, PullsInv

LEMMA VendorStays ==
  ASSUME MInv, UNCHANGED <<main, log, upstream, vendor>>
  PROVE  VendorInv'
  BY DEF MInv, VendorInv, Newer, Served, FeedHunk

LEMMA PageRunStays ==
  ASSUME MInv, UNCHANGED <<main, runs, site>>
  PROVE  PageRunInv'
  BY DEF MInv, PageRunInv

LEMMA UpstreamStays ==
  ASSUME MInv, UNCHANGED <<upstream, wanted, vendor>>
  PROVE  UpstreamInv'
  BY DEF MInv, UpstreamInv

\* What an author proposes is expected: the page in it is right at once.
LEMMA ProposalExpected ==
  ASSUME TipInv, NEW b \in DOMAIN Edits
  PROVE  Expected(b, Proposal(b))
  <1> DEFINE t == Apply(main.tree, Edits[b])
             q == [file |-> "page", sha |-> main.height, shows |-> Rendered(t)]
  <1>1. CASE b \in Regenerating /\ Renders(t)
    <2>1. PICK p : Sole(main.tree, "page", p)
      BY DEF TipInv
    <2>2. PageHunk(t, main.height) = Swap(p, q) /\ p.file = "page"
      BY <2>1 DEF PageHunk, Swap, Sole, Lines
    <2>3. Right(q, t)
      BY DEF TipInv, Right
    <2>4. /\ Proposal(b) = Edits[b] \cup {Swap(p, q)}
          /\ p \in Swap(p, q).old /\ q \in Swap(p, q).new
      BY <1>1, <2>2 DEF Proposal, Swap
    <2>5. Repaged(b, Proposal(b))
      BY <2>2, <2>3, <2>4 DEF Repaged
    <2>6. QED
      BY <2>5 DEF Expected
  <1>2. CASE ~(b \in Regenerating /\ Renders(t))
    BY <1>2 DEF Proposal, Expected, Plain
  <1>3. QED
    BY <1>1, <1>2

\* A proposal takes the place of whatever the branch held.
LEMMA ProposalKept ==
  ASSUME MInv, NEW b \in Branches \cap DOMAIN Edits,
         prs' = [prs EXCEPT ![b] = [NoPR EXCEPT !.pc = "open", !.hunks = Proposal(b)]],
         UNCHANGED <<main, log, upstream, wanted, vendor, runs, site>>
  PROVE  MInv'
  <1>1. prs'[b] = [pc |-> "open", hunks |-> Proposal(b), seen |-> 0, green |-> FALSE]
    BY DEF MInv, PullsInv, NoPR
  <1>2. main.height \in Nat
    BY DEF MInv, TipInv
  <1>3. Expected(b, prs[b].hunks)'
    <2>1. Expected(b, Proposal(b))
      BY ProposalExpected DEF MInv
    <2>2. QED
      BY <1>1, <2>1 DEF Expected, Plain, Repaged, Right, Unmoved, Vendored, Newer, Served
  <1>4. PullInv(b)'
    <2>1. /\ prs'[b] = [pc |-> prs'[b].pc, hunks |-> prs'[b].hunks,
                        seen |-> prs'[b].seen, green |-> prs'[b].green]
          /\ prs'[b].pc = "open" /\ prs'[b].seen = 0
      BY ONLY <1>1
    <2>2. prs'[b].seen \in 0..main'.height
      BY <1>2, <2>1
    <2>3. QED
      BY <1>3, <2>1, <2>2 DEF PullInv
  <1>5. \A c \in Branches \ {b} : PullInv(c)'
    BY PullStays DEF MInv, PullsInv
  <1>6. QED
    BY <1>4, <1>5, OnePullChanges, TreeStays, VendorStays, PageRunStays, UpstreamStays DEF MInv

LEMMA OpenStep ==
  ASSUME MInv, NEW b \in Branches \cap DOMAIN Edits, Open(b)
  PROVE  MInv'
  BY ProposalKept DEF Open

LEMMA UpdateStep ==
  ASSUME MInv, NEW b \in Branches, Update(b)
  PROVE  MInv'
  BY ProposalKept DEF Update

\* The verdict is about the merge into the tip of the moment.
LEMMA CheckStep ==
  ASSUME MInv, NEW b \in Branches, Check(b)
  PROVE  MInv'
  <1>1. PullInv(b) /\ prs[b].pc = "open" /\ b \in DOMAIN prs
    BY DEF MInv, PullsInv, Check
  <1>2. UNCHANGED <<main, log, upstream, wanted, vendor, runs, site>>
    BY DEF Check
  <1>3. prs'[b] = [pc |-> "checked", hunks |-> prs[b].hunks, seen |-> main.height,
                   green |-> GuardsPass(Apply(main.tree, prs[b].hunks))]
    BY <1>1 DEF Check, PullInv
  <1>4. main.height \in Nat
    BY DEF MInv, TipInv
  <1>5. Expected(b, prs[b].hunks)
    BY <1>1 DEF PullInv
  <1>6. Expected(b, prs[b].hunks)'
    BY <1>2, <1>3, <1>5
       DEF Expected, Plain, Repaged, Right, Unmoved, Vendored, Newer, Served
  <1>7. PullInv(b)'
    BY <1>2, <1>3, <1>4, <1>6 DEF PullInv
  <1>8. \A c \in Branches \ {b} : prs'[c] = prs[c]
    BY DEF MInv, PullsInv, Check
  <1>9. \A c \in Branches \ {b} : PullInv(c)'
    BY <1>2, <1>8, PullStays DEF MInv, PullsInv
  <1>10. PullsInv'
    <2>1. prs' = [c \in Branches |-> prs'[c]]
      BY DEF MInv, PullsInv, Check
    <2>2. QED
      BY <1>7, <1>9, <2>1 DEF PullsInv
  <1>11. QED
    BY <1>2, <1>10, TreeStays, VendorStays, PageRunStays, UpstreamStays DEF MInv

\* Upstream's new tip is one more, and every feed seen so far is older.
LEMMA PublishStep ==
  ASSUME MInv, Publish
  PROVE  MInv'
  <1>1. PICK f \in FeedTexts[upstream.tip + 1] : upstream' = [tip |-> upstream.tip + 1, text |-> f]
    BY DEF Publish
  <1>2. /\ wanted' = TRUE
        /\ UNCHANGED <<main, log, prs, vendor, runs, site>>
    BY DEF Publish
  <1>3. /\ upstream.tip \in Nat /\ upstream.tip + 1 \in DOMAIN FeedTexts
        /\ upstream.tip + 1 \in 0..Len(FeedTexts)
    BY FeedAssumption DEF MInv, UpstreamInv, Publish
  <1>4. upstream'.text.tip \in {Unknown, upstream'.tip}
    BY <1>1, <1>3, FeedAssumption
  <1>5. UpstreamInv'
    BY <1>1, <1>3, <1>4 DEF UpstreamInv
  <1>6. \A l : Served(l) => Served(l)'
    BY <1>1, <1>3 DEF Served, Unknown
  <1>7. TipInv'
    <2>1. PICK l \in Lines(main.tree, "feed") :
            /\ Sole(main.tree, "feed", l) /\ Served(l)
            /\ main.height <= MaxMerges \/ main.height <= MaxMerges + l.text.tip
      BY DEF MInv, TipInv
    <2>2. Served(l)'
      BY <1>6, <2>1
    <2>3. QED
      BY <1>2, <2>1, <2>2 DEF MInv, TipInv
  <1>8. PullsInv'
    <2>1. ASSUME NEW c \in Branches
          PROVE  PullInv(c)'
      <3>1. PullInv(c)
        BY DEF MInv, PullsInv
      <3>2. Vendored(prs[c].hunks) => Vendored(prs[c].hunks)'
        BY <1>2, <1>6 DEF Vendored, Newer
      <3>3. Expected(c, prs[c].hunks) => Expected(c, prs[c].hunks)'
        BY <1>2, <3>2 DEF Expected, Plain, Repaged, Right, Unmoved
      <3>4. QED
        BY <1>2, <3>1, <3>3 DEF PullInv
    <2>2. QED
      BY <1>2, <2>1 DEF MInv, PullsInv
  <1>9. VendorInv'
    <2>1. vendor.pc = "fetch" => \E l \in vendor.local : vendor.local = {l} /\ Served(l)'
      BY <1>6 DEF MInv, VendorInv
    <2>2. vendor.pc \in {"pull", "push", "empty"} =>
            \E l \in vendor.local, k \in vendor.got :
              vendor.local = {l} /\ vendor.got = {k} /\ Newer(k, l)'
      BY <1>6 DEF MInv, VendorInv, Newer
    <2>3. vendor.fetched \in 0..upstream'.tip
      BY <1>1, <1>3 DEF MInv, VendorInv
    <2>4. QED
      BY <1>2, <2>1, <2>2, <2>3 DEF MInv, VendorInv, FeedHunk
  <1>10. FreshInv'
    BY <1>2 DEF MInv, FreshInv, FreshMeansCurrent, Fresh, Behind, StoredBy, StoredPage
  <1>11. QED
    BY <1>2, <1>5, <1>7, <1>8, <1>9, <1>10, PageRunStays DEF MInv

LEMMA RequestStep ==
  ASSUME MInv, Request
  PROVE  MInv'
  <1>1. /\ wanted' = TRUE /\ vendor.pc # "idle"
        /\ UNCHANGED <<main, log, prs, upstream, vendor, runs, site>>
    BY DEF Request
  <1>2. UpstreamInv'
    BY <1>1 DEF MInv, UpstreamInv
  <1>3. QED
    BY <1>1, <1>2, TreeStays, PullsStay, VendorStays, PageRunStays DEF MInv

-----------------------------------------------------------------------------
(* The vendor run *)

LEMMA CheckoutStep ==
  ASSUME MInv, Checkout
  PROVE  MInv'
  <1>1. /\ wanted /\ wanted' = FALSE
        /\ vendor' = [pc |-> "fetch", local |-> FeedOf(main.tree), got |-> vendor.got,
                      fetched |-> vendor.fetched, at |-> vendor.at]
        /\ UNCHANGED <<main, log, prs, upstream, runs, site>>
    BY DEF Checkout, MInv, VendorInv
  <1>2. UpstreamInv'
    BY <1>1 DEF MInv, UpstreamInv
  <1>3. PICK l : Sole(main.tree, "feed", l) /\ Served(l)
    BY DEF MInv, TipInv
  <1>4. vendor'.local = {l} /\ Served(l)'
    BY <1>1, <1>3 DEF Sole, FeedOf, Served
  <1>5. VendorInv'
    BY <1>1, <1>4 DEF MInv, VendorInv
  <1>6. QED
    BY <1>1, <1>2, <1>5, TreeStays, PullsStay, PageRunStays DEF MInv

\* An ended run claims nothing but which tip it fetched last.
LEMMA EndedKept ==
  ASSUME MInv, NEW how \in {"failed", "noop", "pr", "main"}, NEW tip \in 0..upstream.tip,
         Ended(how, tip), vendor.pc # "idle", UNCHANGED <<main, upstream, wanted>>
  PROVE  VendorInv' /\ UpstreamInv'
  <1>1. vendor' = [pc |-> how, local |-> {}, got |-> {}, fetched |-> tip, at |-> 0]
    BY DEF Ended
  <1>2. main.height \in Nat
    BY DEF MInv, TipInv
  <1>3. VendorInv'
    BY <1>1, <1>2 DEF VendorInv
  <1>4. UpstreamInv'
    BY <1>1 DEF MInv, UpstreamInv
  <1>5. QED
    BY <1>3, <1>4

\* A feed that differs from the checked-out one and passes the validation is
\* newer than it.
LEMMA FetchStep ==
  ASSUME MInv, Fetch
  PROVE  MInv'
  <1> DEFINE k == [file |-> "feed", text |-> upstream.text]
  <1>1. vendor.pc = "fetch" /\ UNCHANGED <<main, log, prs, upstream, wanted, runs, site>>
    BY DEF Fetch
  <1>2. upstream.tip \in 0..upstream.tip /\ upstream.tip \in 1..Len(FeedTexts)
    BY <1>1, FeedAssumption DEF MInv, UpstreamInv
  <1>3. VendorInv' /\ UpstreamInv'
    <2>1. CASE Ended("failed", upstream.tip) \/ Ended("noop", upstream.tip)
      BY <1>1, <1>2, <2>1, EndedKept
    <2>2. CASE /\ Compatible(upstream.text) /\ vendor.local # {k}
               /\ vendor' = [vendor EXCEPT !.pc = "pull", !.got = {k},
                                            !.fetched = upstream.tip]
      <3>1. vendor' = [pc |-> "pull", local |-> vendor.local, got |-> {k},
                       fetched |-> upstream.tip, at |-> vendor.at]
        BY <2>2 DEF MInv, VendorInv
      <3>2. PICK l : vendor.local = {l} /\ Served(l)
        BY <1>1 DEF MInv, VendorInv
      <3>3. upstream.text.tip = upstream.tip
        BY <2>2 DEF Compatible, MInv, UpstreamInv
      <3>4. l # k
        BY <2>2, <3>2
      <3>5. Newer(k, l)
        BY <1>2, <3>2, <3>3, <3>4 DEF Newer, Served, Unknown
      <3>6. Newer(k, l)'
        BY <1>1, <3>5 DEF Newer, Served
      <3>7. upstream.tip \in DOMAIN VendorBranch
        BY <1>2, FeedAssumption
      <3>8. VendorInv'
        BY <1>1, <1>2, <3>1, <3>2, <3>6, <3>7 DEF MInv, VendorInv
      <3>9. UpstreamInv'
        BY <1>1, <1>2, <3>1 DEF MInv, UpstreamInv
      <3>10. QED
        BY <3>8, <3>9
    <2>3. QED
      BY <2>1, <2>2 DEF Fetch
  <1>4. QED
    BY <1>1, <1>3, TreeStays, PullsStay, PageRunStays DEF MInv

LEMMA PullStep ==
  ASSUME MInv, Pull
  PROVE  MInv'
  <1>1. vendor.pc = "pull" /\ UNCHANGED <<main, log, prs, upstream, wanted, runs, site>>
    BY DEF Pull
  <1>2. VendorInv' /\ UpstreamInv'
    <2>1. CASE ~Clean(main.tree, {FeedHunk})
      <3>1. vendor.fetched \in 0..upstream.tip
        BY DEF MInv, VendorInv
      <3>2. QED
        BY <1>1, <2>1, <3>1, EndedKept DEF Pull
    <2>2. CASE Clean(main.tree, {FeedHunk})
      <3>1. vendor' = [pc |-> IF FeedHunk.new \subseteq main.tree THEN "empty" ELSE "push",
                       local |-> vendor.local, got |-> vendor.got,
                       fetched |-> vendor.fetched, at |-> main.height]
        BY <2>2 DEF Pull, MInv, VendorInv
      <3>2. FeedHunk' = FeedHunk
        BY <3>1 DEF FeedHunk
      <3>3. main.height \in Nat
        BY DEF MInv, TipInv
      <3>4. VendorInv'
        BY <1>1, <2>2, <3>1, <3>2, <3>3 DEF MInv, VendorInv, Newer, Served
      <3>5. UpstreamInv'
        BY <1>1, <3>1 DEF MInv, UpstreamInv
      <3>6. QED
        BY <3>4, <3>5
    <2>3. QED
      BY <2>1, <2>2
  <1>3. QED
    BY <1>1, <1>2, TreeStays, PullsStay, PageRunStays DEF MInv

\* The vendor run's hunk is expected of whichever branch it is pushed to.
LEMMA FeedHunkExpected ==
  ASSUME MInv, vendor.pc = "push", NEW b
  PROVE  Vendored({FeedHunk}) /\ Expected(b, {FeedHunk})
  <1>1. PICK l, k : vendor.local = {l} /\ vendor.got = {k} /\ Newer(k, l)
    BY DEF MInv, VendorInv
  <1>2. FeedHunk = Swap(l, k) /\ l \in FeedHunk.old /\ k \in FeedHunk.new
    BY <1>1 DEF FeedHunk, Swap
  <1>3. Vendored({FeedHunk})
    BY <1>1, <1>2 DEF Vendored
  <1>4. QED
    BY <1>3 DEF Expected

LEMMA RefusedStep ==
  ASSUME MInv, Refused
  PROVE  MInv'
  <1>1. /\ vendor.pc \in {"push", "empty"}
        /\ UNCHANGED <<main, log, upstream, wanted, runs, site>>
    BY DEF Refused
  <1>2. VendorInv' /\ UpstreamInv'
    <2>1. vendor.fetched \in 0..upstream.tip
      BY DEF MInv, VendorInv
    <2>2. QED
      BY <1>1, <2>1, EndedKept DEF Refused
  <1>3. PullsInv'
    <2>0. PICK b \in Branches : b = VendorBranch[vendor.fetched]
      BY <1>1 DEF MInv, VendorInv, Branches
    <2>1. CASE UNCHANGED prs
      BY <1>1, <2>1, PullsStay
    <2>2. CASE vendor.pc = "push" /\ prs' = [prs EXCEPT ![b] = [NoPR EXCEPT !.pc = "pushed"]]
      <3>1. prs = [c \in Branches |-> prs[c]]
        BY DEF MInv, PullsInv
      <3>2. prs'[b] = [pc |-> "pushed", hunks |-> {}, seen |-> 0, green |-> FALSE]
        BY <2>0, <2>2, <3>1 DEF NoPR
      <3>3. PullInv(b)'
        <4>1. /\ prs'[b] = [pc |-> prs'[b].pc, hunks |-> prs'[b].hunks,
                            seen |-> prs'[b].seen, green |-> prs'[b].green]
              /\ prs'[b].pc = "pushed" /\ prs'[b].seen = 0
          BY ONLY <3>2
        <4>2. prs'[b].seen \in 0..main'.height
          BY <1>1, <4>1 DEF MInv, TipInv
        <4>3. QED
          BY <4>1, <4>2 DEF PullInv
      <3>4. \A c \in Branches \ {b} : PullInv(c)'
        BY <1>1, <2>2, <3>1, PullStays DEF MInv, PullsInv
      <3>5. QED
        BY <2>0, <2>2, <3>1, <3>3, <3>4, OnePullChanges
    <2>3. CASE /\ vendor.pc = "push"
               /\ prs' = [prs EXCEPT ![b] = [NoPR EXCEPT !.pc = "open", !.hunks = {FeedHunk}]]
      <3>2. /\ prs' = [prs EXCEPT ![b] = [NoPR EXCEPT !.pc = "open", !.hunks = {FeedHunk}]]
            /\ prs = [c \in Branches |-> prs[c]]
        BY <2>3 DEF MInv, PullsInv
      <3>3. prs'[b] = [pc |-> "open", hunks |-> {FeedHunk}, seen |-> 0, green |-> FALSE]
        BY <2>0, <3>2 DEF NoPR
      <3>4. Expected(b, prs[b].hunks)'
        <4>1. Expected(b, {FeedHunk})
          BY <2>3, FeedHunkExpected
        <4>2. prs'[b].hunks = {FeedHunk}
          BY ONLY <3>3
        <4>3. QED
          BY <1>1, <4>1, <4>2 DEF Expected, Plain, Repaged, Right, Unmoved, Vendored, Newer, Served
      <3>5. PullInv(b)'
        <4>1. /\ prs'[b] = [pc |-> prs'[b].pc, hunks |-> prs'[b].hunks,
                            seen |-> prs'[b].seen, green |-> prs'[b].green]
              /\ prs'[b].pc = "open" /\ prs'[b].seen = 0
          BY ONLY <3>3
        <4>2. prs'[b].seen \in 0..main'.height
          BY <1>1, <4>1 DEF MInv, TipInv
        <4>3. QED
          BY <3>4, <4>1, <4>2 DEF PullInv
      <3>6. \A c \in Branches \ {b} : PullInv(c)'
        BY <1>1, <3>2, PullStays DEF MInv, PullsInv
      <3>7. QED
        BY <2>0, <3>2, <3>5, <3>6, OnePullChanges
    <2>4. QED
      BY <2>0, <2>1, <2>2, <2>3 DEF Refused
  <1>4. QED
    BY <1>1, <1>2, <1>3, TreeStays, PageRunStays DEF MInv

\* The push lands the hunk on the tree it was rebased on.
LEMMA PushStep ==
  ASSUME MInv, Push
  PROVE  MInv'
  <1>1. /\ vendor.pc \in {"push", "empty"} /\ vendor.at = main.height
        /\ vendor' = [pc |-> "dispatch", local |-> vendor.local, got |-> vendor.got,
                      fetched |-> vendor.fetched, at |-> vendor.at]
        /\ UNCHANGED <<prs, upstream, wanted, runs, site>>
    BY DEF Push, MInv, VendorInv
  <1>2. UpstreamInv'
    BY <1>1 DEF MInv, UpstreamInv
  <1>3. CASE UNCHANGED <<main, log>>
    <2>1. VendorInv'
      BY <1>1, <1>3 DEF MInv, VendorInv
    <2>2. QED
      BY <1>1, <1>2, <1>3, <2>1, TreeStays, PullsStay, PageRunStays DEF MInv
  <1>4. CASE vendor.pc = "push" /\ Land({FeedHunk})
    <2>1. Vendored({FeedHunk}) /\ Expected("feed", {FeedHunk}) /\ Clean(main.tree, {FeedHunk})
      BY <1>1, <1>4, FeedHunkExpected DEF MInv, VendorInv
    <2>2. TipInv /\ FreshInv /\ upstream.tip \in Nat
      BY DEF MInv, UpstreamInv
    <2>3. ~(\E h \in {FeedHunk} : h.new \subseteq main.tree)
      BY <1>1, <1>4 DEF MInv, VendorInv
    <2>4. TipInv'
      BY <1>1, <1>4, <2>1, <2>2, <2>3, LandKeepsTip
    <2>5. FreshInv'
      BY <1>4, <2>1, <2>2, LandKeepsFresh
    <2>6. Touches({FeedHunk}) \subseteq Kinds
      BY <2>1, <2>2, ExpectedTouches
    <2>7. \A c \in Branches : PullInv(c)'
      BY <1>1, <1>4, <2>2, <2>6, LandKeepsPull DEF MInv, PullsInv
    <2>8. PullsInv'
      BY <1>1, <2>7 DEF MInv, PullsInv
    <2>9. main.height \in Nat /\ main'.height = main.height + 1
      BY <1>4, <2>2, <2>6, LandedLog
    <2>10. VendorInv'
      BY <1>1, <2>9 DEF MInv, VendorInv
    <2>11. PageRunInv'
      BY <1>1, <2>9 DEF MInv, PageRunInv
    <2>12. QED
      BY <1>2, <2>4, <2>5, <2>8, <2>10, <2>11 DEF MInv
  <1>5. QED
    BY <1>3, <1>4 DEF Push

-----------------------------------------------------------------------------
(* Merges and page runs *)

\* A run that has just been triggered is of the tip.
LEMMA TriggeredRun ==
  ASSUME PageRunInv, main'.height \in Nat, main.height \in Nat, main.height <= main'.height,
         Trigger(main') \/ UNCHANGED runs, UNCHANGED site
  PROVE  PageRunInv'
  BY DEF PageRunInv, Trigger

LEMMA MergeStep ==
  ASSUME MInv, NEW b \in Branches, Merge(b)
  PROVE  MInv'
  <1> DEFINE hunks == prs[b].hunks
  <1>1. /\ main.height < MaxMerges /\ prs[b].pc = "checked"
        /\ Clean(main.tree, hunks) /\ Land(hunks)
        /\ prs' = [prs EXCEPT ![b] = [NoPR EXCEPT !.pc = "merged"]]
        /\ UNCHANGED <<upstream, wanted, vendor, site>>
    BY DEF Merge, Mergeable
  <1>2. /\ TipInv /\ FreshInv /\ PullInv(b) /\ PageRunInv /\ upstream.tip \in Nat
        /\ prs = [c \in Branches |-> prs[c]]
    BY DEF MInv, PullsInv, UpstreamInv
  <1>3. Expected(b, hunks)
    BY <1>1, <1>2 DEF PullInv
  <1> HIDE DEF hunks
  <1>4. TipInv'
    BY <1>1, <1>2, <1>3, LandKeepsTip
  <1>5. FreshInv'
    BY <1>1, <1>2, <1>3, LandKeepsFresh
  <1>6. Touches(hunks) \subseteq Kinds
    BY <1>1, <1>2, <1>3, ExpectedTouches
  <1>7. main.height \in Nat /\ main'.height = main.height + 1
    BY <1>1, <1>2, <1>6, LandedLog
  <1>8. PullsInv'
    <2>1. prs'[b] = [pc |-> "merged", hunks |-> {}, seen |-> 0, green |-> FALSE]
      BY <1>1, <1>2 DEF NoPR
    <2>2. PullInv(b)'
      <3>1. /\ prs'[b] = [pc |-> prs'[b].pc, hunks |-> prs'[b].hunks,
                          seen |-> prs'[b].seen, green |-> prs'[b].green]
            /\ prs'[b].pc = "merged" /\ prs'[b].seen = 0
        BY ONLY <2>1
      <3>2. QED
        BY <1>7, <3>1 DEF PullInv
    <2>3. \A c \in Branches \ {b} : PullInv(c) /\ prs'[c] = prs[c]
      BY <1>1, <1>2 DEF MInv, PullsInv
    <2>4. \A c \in Branches \ {b} : PullInv(c)'
      BY <1>1, <1>2, <1>6, <2>3, LandKeepsPull
    <2>5. QED
      BY <1>1, <2>2, <2>4, OnePullChanges
  <1>9. VendorInv'
    BY <1>1, <1>7 DEF MInv, VendorInv, Newer, Served, FeedHunk
  <1>10. PageRunInv'
    <2>1. Trigger(main') \/ UNCHANGED runs
      BY DEF Merge, PushEvent
    <2>2. main'.height \in Nat /\ main.height <= main'.height
      BY <1>7
    <2>3. QED
      BY <1>1, <1>2, <1>7, <2>1, <2>2, TriggeredRun
  <1>11. UpstreamInv'
    BY <1>1 DEF MInv, UpstreamInv
  <1>12. QED
    BY <1>4, <1>5, <1>8, <1>9, <1>10, <1>11 DEF MInv

LEMMA DispatchPagesStep ==
  ASSUME MInv, DispatchPages
  PROVE  MInv'
  <1>1. /\ vendor.pc = "dispatch" /\ Trigger(main) /\ Ended("main", vendor.fetched)
        /\ UNCHANGED <<main, log, prs, upstream, wanted, site>>
    BY DEF DispatchPages
  <1>2. VendorInv' /\ UpstreamInv'
    <2>1. vendor.fetched \in 0..upstream.tip
      BY DEF MInv, VendorInv
    <2>2. QED
      BY <1>1, <2>1, EndedKept
  <1>3. PageRunInv'
    BY <1>1 DEF MInv, TipInv, PageRunInv, Trigger
  <1>4. QED
    BY <1>1, <1>2, <1>3, TreeStays, PullsStay DEF MInv

\* The one run that is in progress ends, and no older one is left.
LEMMA DeployStep ==
  ASSUME MInv, NEW r \in runs, Deploy(r)
  PROVE  MInv'
  <1>1. UNCHANGED <<main, log, prs, upstream, wanted, vendor>>
    BY DEF Deploy
  <1>2. PageRunInv'
    <2>1. runs' = {}
      BY DEF Deploy, MInv, PageRunInv
    <2>2. site' = site \/ site' = r
      BY DEF Deploy
    <2>3. QED
      BY <1>1, <2>1, <2>2 DEF MInv, PageRunInv
  <1>3. QED
    BY <1>1, <1>2, TreeStays, PullsStay, VendorStays, UpstreamStays DEF MInv

-----------------------------------------------------------------------------
(* Theorems *)

LEMMA NextMInv == MInv /\ [Next]_vars => MInv'
  <1> SUFFICES ASSUME MInv, [Next]_vars
               PROVE  MInv'
    OBVIOUS
  <1>1. ASSUME NEW b \in Branches, b \in DOMAIN Edits /\ Open(b)
        PROVE  MInv'
    BY <1>1, OpenStep
  <1>2. ASSUME NEW b \in Branches, Update(b)
        PROVE  MInv'
    BY <1>2, UpdateStep
  <1>3. ASSUME NEW b \in Branches, Check(b)
        PROVE  MInv'
    BY <1>3, CheckStep
  <1>4. ASSUME NEW b \in Branches, Merge(b)
        PROVE  MInv'
    BY <1>4, MergeStep
  <1>5. CASE Publish
    BY <1>5, PublishStep
  <1>6. CASE Request
    BY <1>6, RequestStep
  <1>7. CASE Checkout
    BY <1>7, CheckoutStep
  <1>8. CASE Fetch
    BY <1>8, FetchStep
  <1>9. CASE Pull
    BY <1>9, PullStep
  <1>10. CASE Push
    BY <1>10, PushStep
  <1>11. CASE Refused
    BY <1>11, RefusedStep
  <1>12. CASE DispatchPages
    BY <1>12, DispatchPagesStep
  <1>13. ASSUME NEW r \in runs, Deploy(r)
         PROVE  MInv'
    BY <1>13, DeployStep
  <1>14. CASE UNCHANGED vars
    BY <1>14, TreeStays, PullsStay, VendorStays, PageRunStays, UpstreamStays DEF MInv, vars
  <1>15. QED
    BY <1>1, <1>2, <1>3, <1>4, <1>5, <1>6, <1>7, <1>8, <1>9, <1>10, <1>11, <1>12, <1>13, <1>14
       DEF Next, Authors, VendorRun, PageRun

\* The inductive invariant holds of the branch, its pull requests, the vendor
\* run and the page runs, in whichever order they come.
THEOREM MainlineInvariant == Spec => []MInv
  <1>1. Init => MInv
    BY InitMInv
  <1>2. MInv /\ [Next]_vars => MInv'
    BY NextMInv
  <1>3. QED
    BY <1>1, <1>2, PTL DEF Spec

LEMMA SoleIsOne ==
  ASSUME NEW t, NEW f, NEW l, Sole(t, f, l)
  PROVE  Cardinality(Lines(t, f)) = 1
  BY FS_Singleton DEF Sole

LEMMA TypesHold == MInv => TypeOK
  <1> SUFFICES ASSUME MInv PROVE TypeOK
    OBVIOUS
  <1>1. PICK p : Sole(main.tree, "page", p)
    BY DEF MInv, TipInv
  <1>2. PICK l : /\ Sole(main.tree, "feed", l) /\ Served(l)
                 /\ main.height <= MaxMerges \/ main.height <= MaxMerges + l.text.tip
    BY DEF MInv, TipInv
  <1>3. main.height \in 0..(MaxMerges + Len(FeedTexts))
    <2>1. main.height \in Nat
      BY DEF MInv, TipInv
    <2>2. /\ l.text.tip \in Int /\ l.text.tip <= Len(FeedTexts)
          /\ Len(FeedTexts) \in Nat
      BY <1>2, FeedAssumption DEF MInv, UpstreamInv, Served, Unknown
    <2>3. QED
      BY <1>2, <2>1, <2>2, MergesAssumption
  <1>4. main.green \in BOOLEAN
    BY DEF MInv, TipInv, GuardsPass
  <1>5. Len(log) = main.height
    BY DEF MInv, TipInv
  <1>6. \A b \in Branches : /\ prs[b].pc \in {"none", "pushed", "open", "checked", "merged"}
                            /\ prs[b].seen \in 0..main.height
    BY DEF MInv, PullsInv, PullInv
  <1>7. upstream.tip \in 0..Len(FeedTexts)
    BY DEF MInv, UpstreamInv
  <1>8. /\ vendor.pc \in {"idle", "fetch", "pull", "push", "empty", "dispatch",
                         "failed", "noop", "pr", "main"}
        /\ vendor.fetched \in 0..upstream.tip /\ vendor.at \in 0..main.height
    BY DEF MInv, VendorInv
  <1>9. Cardinality(runs) <= 1
    <2>1. CASE runs = {}
      BY <2>1, FS_EmptySet
    <2>2. ASSUME NEW r \in runs
          PROVE  Cardinality(runs) <= 1
      <3>1. runs = {r}
        BY DEF MInv, PageRunInv
      <3>2. QED
        BY <3>1, FS_Singleton
    <2>3. QED
      BY <2>1, <2>2
  <1>10. (\A r \in runs : r.at \in 0..main.height) /\ site.at \in 0..main.height
    BY DEF MInv, PageRunInv
  <1>11. Cardinality(Lines(main.tree, "page")) = 1 /\ Cardinality(FeedOf(main.tree)) = 1
    BY <1>1, <1>2, SoleIsOne DEF FeedOf
  <1>12. QED
    BY <1>3, <1>4, <1>5, <1>6, <1>7, <1>8, <1>9, <1>10, <1>11 DEF TypeOK

\* Types, for every tree and series of feeds: the tree always holds one page
\* and one feed, at most one page run is in progress, and the vendor run
\* lands no more than one commit for each version of the feed.
THEOREM MainlineTypeCorrect == Spec => []TypeOK
  BY MainlineInvariant, TypesHold, PTL

\* A committed page that the freshness check passes is what the tip renders
\* to, however edits, regenerated pages and vendored feeds were interleaved.
THEOREM FreshPagesAreCurrent == Spec => []FreshMeansCurrent
  <1>1. MInv => FreshMeansCurrent
    BY DEF MInv, FreshInv
  <1>2. QED
    BY <1>1, MainlineInvariant, PTL

\* No page run deploys over the page of a newer checkout.
THEOREM PagesNeverGoBack == Spec => PageNeverGoesBack
  <1>1. MInv /\ [Next]_vars => [site'.at >= site.at]_vars
    <2> SUFFICES ASSUME MInv, [Next]_vars
                 PROVE  site'.at >= site.at
      BY DEF vars
    <2>1. site.at \in Int
      BY DEF MInv, PageRunInv, TipInv
    <2>2. CASE UNCHANGED site
      BY <2>1, <2>2
    <2>3. ASSUME NEW r \in runs, site' = r
          PROVE  site'.at >= site.at
      BY <2>1, <2>3 DEF MInv, PageRunInv
    <2>4. UNCHANGED site \/ \E r \in runs : site' = r
      BY DEF Next, vars, Authors, VendorRun, PageRun, Open, Update, Check, Merge, Publish,
             Request, Checkout, Fetch, Pull, Push, Refused, DispatchPages, Deploy
    <2>5. QED
      BY <2>2, <2>3, <2>4
  <1>2. QED
    BY <1>1, MainlineInvariant, PTL DEF Spec, PageNeverGoesBack

\* What a step can do to the branch: nothing, the merge of a branch, or the
\* push of the vendor run.
LEMMA BranchSteps ==
  ASSUME [Next]_vars
  PROVE  \/ UNCHANGED <<main, log>>
         \/ \E b \in Branches : Merge(b)
         \/ Push
  BY DEF Next, vars, Authors, VendorRun, PageRun, Open, Update, Check, Publish,
         Request, Checkout, Fetch, Pull, Refused, DispatchPages, Deploy

\* Whatever lands was expected, and git applied it.
LEMMA WhatLands ==
  ASSUME MInv, [Next]_vars
  PROVE  \/ UNCHANGED main
         \/ \E b, hunks : Expected(b, hunks) /\ Clean(main.tree, hunks) /\ Land(hunks)
  <1>1. ASSUME NEW b \in Branches, Merge(b)
        PROVE  \E hunks : Expected(b, hunks) /\ Clean(main.tree, hunks) /\ Land(hunks)
    BY <1>1 DEF Merge, Mergeable, MInv, PullsInv, PullInv
  <1>2. ASSUME Push
        PROVE  \/ UNCHANGED main
               \/ \E hunks : Expected("feed", hunks) /\ Clean(main.tree, hunks) /\ Land(hunks)
    <2>1. vendor.at = main.height /\ (UNCHANGED main \/ (vendor.pc = "push" /\ Land({FeedHunk})))
      BY <1>2 DEF Push
    <2>2. vendor.pc = "push" => Expected("feed", {FeedHunk}) /\ Clean(main.tree, {FeedHunk})
      BY <2>1, FeedHunkExpected DEF MInv, VendorInv
    <2>3. QED
      BY <2>1, <2>2
  <1>3. QED
    BY <1>1, <1>2, BranchSteps

\* The feed on the branch never goes back to an older upstream tip, whichever
\* of a pushed run, an overtaken run and a stale vendor branch lands last.
THEOREM FeedsGoForward == Spec => FeedOnlyForward
  <1>1. MInv /\ [Next]_vars =>
          [\A l \in FeedOf(main.tree), k \in FeedOf(main'.tree) : k.text.tip >= l.text.tip]_vars
    <2> SUFFICES ASSUME MInv, [Next]_vars,
                        NEW l \in FeedOf(main.tree), NEW k \in FeedOf(main'.tree)
                 PROVE  k.text.tip >= l.text.tip
      BY DEF vars
    <2>1. Sole(main.tree, "feed", l) /\ Served(l)
      BY DEF MInv, TipInv, FeedOf, Sole
    <2>2. l.text.tip \in Int
      BY <2>1, FeedAssumption DEF Served, Unknown, MInv, UpstreamInv
    <2>3. CASE UNCHANGED main
      BY <2>1, <2>2, <2>3 DEF Sole, FeedOf
    <2>4. ASSUME NEW b, NEW hunks,
                 Expected(b, hunks) /\ Clean(main.tree, hunks) /\ Land(hunks)
          PROVE  k.text.tip >= l.text.tip
      <3>1. TipInv
        BY DEF MInv
      <3>2. PICK n, o : /\ Sole(main.tree, "feed", o) /\ Sole(main'.tree, "feed", n)
                        /\ Newer(n, o) \/ n = o
        BY <2>4, <3>1, LandedFeed
      <3>3. n = k /\ o = l
        BY <2>1, <3>2 DEF Sole, FeedOf
      <3>4. CASE n = o
        BY <2>2, <3>3, <3>4
      <3>5. CASE Newer(n, o)
        <4>1. n.text.tip \in Int /\ o.text.tip < n.text.tip
          BY <3>5, FeedAssumption DEF Newer, Served, Unknown, MInv, UpstreamInv
        <4>2. QED
          BY <2>2, <3>3, <4>1
      <3>6. QED
        BY <3>2, <3>4, <3>5
    <2>5. QED
      BY <2>3, <2>4, WhatLands
  <1>2. QED
    BY <1>1, MainlineInvariant, PTL DEF Spec, FeedOnlyForward

\* A vendored feed without a link to the old home leaves a green tip green.
LEMMA CleanFeedStaysGreen ==
  ASSUME TipInv, NEW hunks, Vendored(hunks), Clean(main.tree, hunks), main.green,
         \A h \in hunks : \A l \in h.new : ~l.text.linksFork
  PROVE  GuardsPass(Apply(main.tree, hunks))
  <1> DEFINE t == Apply(main.tree, hunks)
  <1>1. PICK k : Sole(t, "feed", k) /\ \A h \in hunks : k \in h.new
    BY VendoredLands
  <1>2. \E h \in hunks : TRUE
    BY DEF Vendored
  <1>3. \A l \in Lines(t, "feed") : ~l.text.linksFork
    BY <1>1, <1>2 DEF Sole
  <1>4. Touches(hunks) = {"feed"}
    BY VendoredLands
  <1>5. \A f : f # "feed" => Lines(main.tree, f) = Lines(t, f)
    BY <1>4, Untouched
  <1>6. GuardsPass(main.tree)
    BY DEF TipInv
  <1> HIDE DEF t
  <1>7. GuardsPass(t)
    BY <1>3, <1>5, <1>6, GuardsIgnoreFeed
  <1>8. QED
    BY <1>7 DEF t

\* A green tip turns red only by a merge whose check saw an older tip, or by
\* a vendored feed that names the old home: the two ways past the guards.
THEOREM RedOnlyByStaleCheck == Spec => RedOnlyUnseen
  <1> DEFINE Unseen ==
        \/ \E b \in Branches : /\ prs[b].pc = "checked" /\ prs'[b].pc = "merged"
                               /\ prs[b].seen # main.height
        \/ vendor.pc = "push" /\ \E l \in vendor.got : l.text.linksFork
  <1>1. MInv /\ [Next]_vars => [main.green /\ ~main'.green => Unseen]_vars
    <2> SUFFICES ASSUME MInv, [Next]_vars, main.green, ~main'.green
                 PROVE  Unseen
      BY DEF vars
    <2>1. ASSUME NEW b \in Branches, Merge(b)
          PROVE  Unseen
      <3>1. prs[b].pc = "checked" /\ prs[b].green /\ Land(prs[b].hunks)
        BY <2>1 DEF Merge
      <3>2. prs'[b].pc = "merged"
        BY <2>1 DEF Merge, NoPR, MInv, PullsInv
      <3>3. main'.green = GuardsPass(Apply(main.tree, prs[b].hunks))
        BY <3>1 DEF Land
      <3>4. prs[b].seen # main.height
        BY <3>1, <3>3 DEF MInv, PullsInv, PullInv
      <3>5. QED
        BY <3>1, <3>2, <3>4
    <2>2. ASSUME Push
          PROVE  Unseen
      <3>1. vendor.pc = "push" /\ vendor.at = main.height
        BY <2>2 DEF Push
      <3>2. Land({FeedHunk})
        BY <2>2, <3>1 DEF Push
      <3>3. Vendored({FeedHunk}) /\ Clean(main.tree, {FeedHunk}) /\ TipInv
        BY <3>1, FeedHunkExpected DEF MInv, VendorInv
      <3>4. ~GuardsPass(Apply(main.tree, {FeedHunk}))
        BY <3>2 DEF Land
      <3>5. PICK l \in vendor.got : l.text.linksFork
        BY <3>3, <3>4, CleanFeedStaysGreen DEF FeedHunk
      <3>6. QED
        BY <3>1, <3>5
    <2>3. QED
      BY <2>1, <2>2, BranchSteps
  <1>2. QED
    BY <1>1, MainlineInvariant, PTL DEF Spec, RedOnlyUnseen

-----------------------------------------------------------------------------
(* What arrives in the end: what of it is not about fairness               *)

\* The page run in progress brings the page of the tip; with none in progress
\* the tip's page is served already, if it renders.  Only between the push of
\* the vendor run and its dispatch is that not so.
PageIsOnItsWay ==
  vendor.pc # "dispatch" =>
    /\ \A r \in runs : r.shows = main.page
    /\ runs = {} /\ main.page # {} => site.shows = main.page

\* The newest feed is on the branch, or the last vendor run said of it that it
\* failed or is in a pull request.
FeedSettled ==
  \/ \E l \in FeedOf(main.tree) : l.text = upstream.text
  \/ vendor.pc \in {"failed", "pr"} /\ vendor.fetched = upstream.tip

\* With no vendor run in progress or queued, the newest feed is settled.
FeedIsOnItsWay == ~wanted /\ Idle => FeedSettled

\* The feed of the checkout is on the branch, or a newer one is.
NoNewerCheckout ==
  vendor.pc = "fetch" =>
    \A l \in vendor.local : \A m \in FeedOf(main.tree) : m = l \/ Newer(m, l)

\* As long as upstream has dispatched nothing since, what the vendor run got is
\* the newest feed, and so is what it put on the branch or found there.
NewestInv ==
  ~wanted =>
    /\ vendor.pc = "idle" => upstream.tip = 0
    /\ vendor.pc \in {"pull", "push", "empty", "dispatch", "noop", "main"} =>
         upstream.text.tip = upstream.tip
    /\ vendor.pc \in {"idle", "dispatch", "noop", "main"} =>
         \A l \in FeedOf(main.tree) : l.text = upstream.text
    /\ vendor.pc \in {"pull", "push", "empty"} =>
         vendor.fetched = upstream.tip /\ \A k \in vendor.got : k.text = upstream.text
    /\ vendor.pc \in {"failed", "pr"} => vendor.fetched = upstream.tip

\* A page run that is started brings the page of the tip it was started on.
LEMMA TriggeredPage ==
  ASSUME NEW m, Trigger(m)
  PROVE  (\A r \in runs' : r.shows = m.page) /\ runs' # {}
  <1> DEFINE q == [at |-> m.height, shows |-> m.page]
  <1>1. q.shows = m.page
    OBVIOUS
  <1>2. runs' = {q}
    BY DEF Trigger
  <1> HIDE DEF q
  <1>3. QED
    BY <1>1, <1>2

\* A merge lands a branch and starts a page run where the filter asks for one.
LEMMA MergePage ==
  ASSUME MInv, PageIsOnItsWay, NEW b \in Branches, Merge(b)
  PROVE  PageIsOnItsWay'
  <1>1. Land(prs[b].hunks) /\ PushEvent(prs[b].hunks) /\ UNCHANGED <<vendor, site>>
    BY DEF Merge
  <1>2. CASE Touches(prs[b].hunks) \cap PageInputs # {}
    <2>1. Trigger(main')
      BY <1>1, <1>2 DEF PushEvent
    <2>2. (\A r \in runs' : r.shows = main'.page) /\ runs' # {}
      BY <2>1, TriggeredPage
    <2>3. QED
      BY <2>2 DEF PageIsOnItsWay
  <1>3. CASE Touches(prs[b].hunks) \cap PageInputs = {}
    <2>1. Rendered(Apply(main.tree, prs[b].hunks)) = Rendered(main.tree)
      BY <1>3, SamePage DEF DashboardInputs
    <2>2. main'.page = main.page
      BY <1>1, <2>1 DEF Land, MInv, TipInv
    <2>3. UNCHANGED runs
      BY <1>1, <1>3 DEF PushEvent
    <2>4. QED
      BY <1>1, <2>2, <2>3 DEF PageIsOnItsWay
  <1>4. QED
    BY <1>2, <1>3

\* The one run that is in progress serves the page of the tip.
LEMMA DeployPage ==
  ASSUME MInv, PageIsOnItsWay, NEW r \in runs, Deploy(r)
  PROVE  PageIsOnItsWay'
  <1>1. runs' = {} /\ UNCHANGED <<main, vendor>>
    BY DEF Deploy, MInv, PageRunInv
  <1>2. r.shows # {} => site' = r
    BY DEF Deploy
  <1>3. QED
    BY <1>1, <1>2 DEF PageIsOnItsWay

\* The vendor run lands its feed before it asks for the page, and in between
\* it is at its dispatch.
LEMMA VendorPage ==
  ASSUME MInv, PageIsOnItsWay, VendorRun
  PROVE  PageIsOnItsWay'
  <1>1. CASE Push
    <2>1. vendor'.pc = "dispatch"
      BY <1>1 DEF Push, MInv, VendorInv
    <2>2. QED
      BY <2>1 DEF PageIsOnItsWay
  <1>2. CASE DispatchPages
    <2>1. Trigger(main) /\ UNCHANGED main
      BY <1>2 DEF DispatchPages
    <2>2. (\A r \in runs' : r.shows = main'.page) /\ runs' # {}
      BY <2>1, TriggeredPage
    <2>3. QED
      BY <2>2 DEF PageIsOnItsWay
  <1>3. CASE Checkout \/ Fetch \/ Pull \/ Refused
    <2>1. vendor.pc # "dispatch" /\ UNCHANGED <<main, runs, site>>
      BY <1>3 DEF Checkout, Idle, Fetch, Pull, Refused
    <2>2. QED
      BY <2>1 DEF PageIsOnItsWay
  <1>4. QED
    BY <1>1, <1>2, <1>3 DEF VendorRun

\* Every step keeps the page on its way.
LEMMA NextPage == MInv /\ PageIsOnItsWay /\ [Next]_vars => PageIsOnItsWay'
  <1> SUFFICES ASSUME MInv, PageIsOnItsWay, [Next]_vars PROVE PageIsOnItsWay'
    OBVIOUS
  <1>1. CASE UNCHANGED <<main, vendor, runs, site>>
    BY <1>1 DEF PageIsOnItsWay
  <1>2. \/ UNCHANGED <<main, vendor, runs, site>>
        \/ \E b \in Branches : Merge(b)
        \/ VendorRun
        \/ \E r \in runs : Deploy(r)
    BY DEF Next, vars, Authors, PageRun, Open, Update, Check, Publish, Request
  <1>3. QED
    BY <1>1, <1>2, MergePage, DeployPage, VendorPage

\* No change of the page is lost: however merges, vendored feeds, cancelled
\* runs and trees that do not render follow on each other, once no run is in
\* progress the page of the tip is served, if the tip renders.  This rests on
\* the paths filter naming all that the page shows and on the dispatch after a
\* push by the vendor run, which sets off nothing.
THEOREM NoPageIsLost == Spec => []PageIsOnItsWay
  <1>1. Init => PageIsOnItsWay
    BY DEF Init, PageIsOnItsWay
  <1>2. QED
    BY <1>1, NextPage, MainlineInvariant, PTL DEF Spec

-----------------------------------------------------------------------------

\* A feed that replaces another is still a newer one whatever upstream serves.
LEMMA NewerStays ==
  ASSUME MInv, [Next]_vars, NEW k, NEW l, Newer(k, l)
  PROVE  Newer(k, l)'
  <1>1. CASE UNCHANGED upstream
    BY <1>1 DEF Newer, Served
  <1>2. CASE Publish
    <2>1. upstream.tip \in Nat /\ upstream'.tip = upstream.tip + 1
      BY <1>2, FeedAssumption DEF Publish, MInv, UpstreamInv
    <2>2. QED
      BY <2>1 DEF Newer, Served, Unknown
  <1>3. QED
    BY <1>1, <1>2 DEF Next, vars, Authors, VendorRun, PageRun, Open, Update, Check, Merge,
       Request, Checkout, Fetch, Pull, Push, Refused, DispatchPages, Deploy

\* A feed newer than a newer one is newer.
LEMMA NewerIsTransitive ==
  ASSUME MInv, NEW k, NEW l, NEW m, Newer(k, l), Newer(l, m)
  PROVE  Newer(k, m)
  <1>1. /\ k.text.tip \in Int /\ l.text.tip \in Int /\ m.text.tip \in Int
    BY FeedAssumption DEF Newer, Served, Unknown, MInv, UpstreamInv
  <1>2. QED
    BY <1>1 DEF Newer

\* Nothing is newer than what upstream serves.
LEMMA NewestFeed ==
  ASSUME MInv, NEW k, NEW l, l.text = upstream.text,
         upstream.tip = 0 \/ upstream.text.tip = upstream.tip
  PROVE  ~Newer(k, l)
  <1>1. upstream.tip \in Nat
    BY FeedAssumption DEF MInv, UpstreamInv
  <1>2. QED
    BY <1>1 DEF Newer, Served, Unknown

\* A step leaves the feed of the branch, or replaces it by a newer one.
LEMMA FeedMoves ==
  ASSUME MInv, [Next]_vars
  PROVE  \E k, l : /\ Sole(main.tree, "feed", l) /\ Sole(main'.tree, "feed", k)
                   /\ k = l \/ Newer(k, l)
  <1>1. PICK l : Sole(main.tree, "feed", l)
    BY DEF MInv, TipInv
  <1>2. CASE UNCHANGED main
    BY <1>1, <1>2
  <1>3. ASSUME NEW b, NEW hunks,
               Expected(b, hunks) /\ Clean(main.tree, hunks) /\ Land(hunks)
        PROVE  \E k, o : /\ Sole(main.tree, "feed", o) /\ Sole(main'.tree, "feed", k)
                         /\ k = o \/ Newer(k, o)
    BY <1>3, LandedFeed DEF MInv
  <1>4. QED
    BY <1>2, <1>3, WhatLands

\* Past the checkout the vendor run does not come back to its fetch.
LEMMA LeavesFetch ==
  ASSUME MInv, Fetch \/ Pull \/ Push \/ Refused \/ DispatchPages
  PROVE  vendor'.pc # "fetch"
  <1>1. CASE Fetch
    <2> DEFINE k == [file |-> "feed", text |-> upstream.text]
    <2>1. CASE Ended("failed", upstream.tip) \/ Ended("noop", upstream.tip)
      BY <2>1 DEF Ended
    <2>2. CASE vendor' = [vendor EXCEPT !.pc = "pull", !.got = {k}, !.fetched = upstream.tip]
      <3>1. vendor' = [pc |-> "pull", local |-> vendor.local, got |-> {k},
                       fetched |-> upstream.tip, at |-> vendor.at]
        BY <2>2 DEF MInv, VendorInv
      <3>2. QED
        BY <3>1
    <2>3. QED
      BY <1>1, <2>1, <2>2 DEF Fetch
  <1>2. CASE Pull
    <2>1. CASE ~Clean(main.tree, {FeedHunk})
      BY <1>2, <2>1 DEF Pull, Ended
    <2>2. CASE Clean(main.tree, {FeedHunk})
      <3>1. vendor' = [pc |-> IF FeedHunk.new \subseteq main.tree THEN "empty" ELSE "push",
                       local |-> vendor.local, got |-> vendor.got,
                       fetched |-> vendor.fetched, at |-> main.height]
        BY <1>2, <2>2 DEF Pull, MInv, VendorInv
      <3>2. QED
        BY <3>1
    <2>3. QED
      BY <2>1, <2>2
  <1>3. CASE Push
    BY <1>3 DEF Push, MInv, VendorInv
  <1>4. CASE Refused \/ DispatchPages
    <2>1. \E how \in {"pr", "failed", "main"} : Ended(how, vendor.fetched)
      BY <1>4 DEF Refused, DispatchPages
    <2>2. QED
      BY <2>1 DEF Ended
  <1>5. QED
    BY <1>1, <1>2, <1>3, <1>4

\* The checkout is no newer than the branch it was taken from.
LEMMA NextCheckout == MInv /\ NoNewerCheckout /\ [Next]_vars => NoNewerCheckout'
  <1> SUFFICES ASSUME MInv, NoNewerCheckout, [Next]_vars, vendor'.pc = "fetch",
                      NEW l \in vendor'.local, NEW m \in FeedOf(main'.tree)
               PROVE  m = l \/ Newer(m, l)'
    BY DEF NoNewerCheckout
  <1>1. PICK k, o : /\ Sole(main.tree, "feed", o) /\ Sole(main'.tree, "feed", k)
                    /\ k = o \/ Newer(k, o)
    BY FeedMoves
  <1>2. m = k /\ o \in FeedOf(main.tree) /\ FeedOf(main.tree) = {o}
    BY <1>1 DEF Sole, FeedOf
  <1>3. CASE Checkout
    <2>1. l = o /\ UNCHANGED main
      BY <1>2, <1>3 DEF Checkout, MInv, VendorInv
    <2>2. QED
      BY <1>1, <1>2, <2>1 DEF Sole, FeedOf
  <1>4. CASE UNCHANGED vendor
    <2>1. o = l \/ Newer(o, l)
      BY <1>2, <1>4 DEF NoNewerCheckout
    <2>2. m = l \/ Newer(m, l)
      BY <1>1, <1>2, <2>1, NewerIsTransitive
    <2>3. QED
      BY <2>2, NewerStays
  <1>5. CASE Fetch \/ Pull \/ Push \/ Refused \/ DispatchPages
    <2>1. vendor'.pc # "fetch"
      BY <1>5, LeavesFetch
    <2>2. QED
      BY <2>1
  <1>6. QED
    BY <1>3, <1>4, <1>5 DEF Next, vars, Authors, VendorRun, PageRun, Open, Update, Check,
       Merge, Publish, Request, Deploy

\* The feed that upstream serves stays on the branch once it is there.
LEMMA NewestStays ==
  ASSUME MInv, NewestInv, [Next]_vars, UNCHANGED <<vendor, upstream, wanted>>
  PROVE  NewestInv'
  <1> SUFFICES ASSUME ~wanted, vendor.pc \in {"idle", "dispatch", "noop", "main"},
                      NEW m \in FeedOf(main'.tree)
               PROVE  m.text = upstream.text
    BY DEF NewestInv
  <1>1. PICK k, o : /\ Sole(main.tree, "feed", o) /\ Sole(main'.tree, "feed", k)
                    /\ k = o \/ Newer(k, o)
    BY FeedMoves
  <1>2. m = k /\ o \in FeedOf(main.tree)
    BY <1>1 DEF Sole, FeedOf
  <1>3. o.text = upstream.text /\ (upstream.tip = 0 \/ upstream.text.tip = upstream.tip)
    BY <1>2 DEF NewestInv
  <1>4. k = o
    BY <1>1, <1>3, NewestFeed
  <1>5. QED
    BY <1>2, <1>3, <1>4

\* What is fetched is the newest feed; where it is what was checked out, it is
\* still on the branch.
LEMMA NewestFetch ==
  ASSUME MInv, NoNewerCheckout, NewestInv, Fetch, ~wanted
  PROVE  NewestInv'
  <1> DEFINE k == [file |-> "feed", text |-> upstream.text]
  <1>1. vendor.pc = "fetch" /\ UNCHANGED <<main, upstream, wanted>>
    BY DEF Fetch
  <1>2. CASE Ended("failed", upstream.tip)
    <2>1. vendor'.pc = "failed" /\ vendor'.fetched = upstream.tip
      BY <1>2 DEF Ended
    <2>2. QED
      BY <1>1, <2>1 DEF NewestInv
  <1>3. CASE /\ Compatible(upstream.text) /\ vendor.local = {k}
             /\ Ended("noop", upstream.tip)
    <2>1. vendor'.pc = "noop"
      BY <1>3 DEF Ended
    <2>2. upstream.text.tip = upstream.tip
      BY <1>3 DEF Compatible, MInv, UpstreamInv
    <2>3. ASSUME NEW m \in FeedOf(main.tree)
          PROVE  m.text = upstream.text
      <3>1. m = k \/ Newer(m, k)
        BY <1>1, <1>3 DEF NoNewerCheckout
      <3>2. ~Newer(m, k)
        BY <2>2, NewestFeed
      <3>3. QED
        BY <3>1, <3>2
    <2>4. QED
      BY <1>1, <2>1, <2>2, <2>3 DEF NewestInv
  <1>4. CASE /\ Compatible(upstream.text)
             /\ vendor' = [vendor EXCEPT !.pc = "pull", !.got = {k}, !.fetched = upstream.tip]
    <2>1. vendor'.pc = "pull" /\ vendor'.got = {k} /\ vendor'.fetched = upstream.tip
      BY <1>4 DEF MInv, VendorInv
    <2>2. upstream.text.tip = upstream.tip
      BY <1>4 DEF Compatible, MInv, UpstreamInv
    <2>3. QED
      BY <1>1, <2>1, <2>2 DEF NewestInv
  <1>5. QED
    BY <1>2, <1>3, <1>4 DEF Fetch

\* What is pushed is what was got.
LEMMA NewestPush ==
  ASSUME MInv, NewestInv, Push, ~wanted
  PROVE  NewestInv'
  <1>1. /\ vendor.pc \in {"push", "empty"} /\ vendor.at = main.height
        /\ UNCHANGED <<upstream, wanted>>
        /\ vendor' = [vendor EXCEPT !.pc = "dispatch"]
    BY DEF Push
  <1>2. vendor'.pc = "dispatch"
    BY <1>1 DEF MInv, VendorInv
  <1>3. PICK l, k : vendor.local = {l} /\ vendor.got = {k} /\ Newer(k, l)
    BY <1>1 DEF MInv, VendorInv
  <1>4. FeedHunk.new = {k} /\ k.file = "feed"
    BY <1>3 DEF FeedHunk, Newer, Served
  <1>5. k.text = upstream.text /\ upstream.text.tip = upstream.tip
    BY <1>1, <1>3 DEF NewestInv
  <1>6. Sole(main'.tree, "feed", k)
    <2>1. CASE vendor.pc = "empty" /\ UNCHANGED main
      <3>1. k \in Lines(main.tree, "feed") /\ UNCHANGED main
        BY <1>1, <1>4, <2>1 DEF Lines, MInv, VendorInv
      <3>2. QED
        BY <3>1 DEF MInv, TipInv, Sole
    <2>2. CASE vendor.pc = "push" /\ Land({FeedHunk})
      <3>1. main'.tree = Apply(main.tree, {FeedHunk})
        BY <2>2 DEF Land
      <3>2. Vendored({FeedHunk}) /\ Clean(main.tree, {FeedHunk})
        BY <1>1, <2>2, FeedHunkExpected DEF MInv, VendorInv
      <3>3. PICK n : Sole(Apply(main.tree, {FeedHunk}), "feed", n) /\ n \in FeedHunk.new
        BY <3>2, VendoredLands DEF MInv
      <3>4. QED
        BY <1>4, <3>1, <3>3
    <2>3. QED
      BY <2>1, <2>2 DEF Push
  <1>7. \A m \in FeedOf(main'.tree) : m.text = upstream.text
    BY <1>5, <1>6 DEF Sole, FeedOf
  <1>8. QED
    BY <1>1, <1>2, <1>5, <1>7 DEF NewestInv

\* The rest of the vendor run hands on what it has.
LEMMA NewestHandedOn ==
  ASSUME MInv, NewestInv, ~wanted, Pull \/ Refused \/ DispatchPages
  PROVE  NewestInv'
  <1>1. UNCHANGED <<main, upstream, wanted>>
    BY DEF Pull, Refused, DispatchPages
  <1>2. CASE Pull
    <2>1. CASE Clean(main.tree, {FeedHunk})
      <3>1. vendor' = [pc |-> IF FeedHunk.new \subseteq main.tree THEN "empty" ELSE "push",
                       local |-> vendor.local, got |-> vendor.got,
                       fetched |-> vendor.fetched, at |-> main.height]
        BY <1>2, <2>1 DEF Pull, MInv, VendorInv
      <3>2. QED
        BY <1>1, <1>2, <3>1 DEF NewestInv, Pull
    <2>2. CASE ~Clean(main.tree, {FeedHunk})
      <3>1. vendor'.pc = "failed" /\ vendor'.fetched = vendor.fetched
        BY <1>2, <2>2 DEF Pull, Ended
      <3>2. QED
        BY <1>1, <1>2, <3>1 DEF NewestInv, Pull
    <2>3. QED
      BY <2>1, <2>2
  <1>3. CASE Refused
    <2>1. vendor'.pc \in {"pr", "failed"} /\ vendor'.fetched = vendor.fetched
      BY <1>3 DEF Refused, Ended
    <2>2. QED
      BY <1>1, <1>3, <2>1 DEF NewestInv, Refused
  <1>4. CASE DispatchPages
    <2>1. vendor'.pc = "main"
      BY <1>4 DEF DispatchPages, Ended
    <2>2. QED
      BY <1>1, <1>4, <2>1 DEF NewestInv, DispatchPages
  <1>5. QED
    BY <1>2, <1>3, <1>4

\* Every step keeps what is known of the newest feed.
LEMMA NextNewest ==
  MInv /\ NoNewerCheckout /\ NewestInv /\ [Next]_vars => NewestInv'
  <1> SUFFICES ASSUME MInv, NoNewerCheckout, NewestInv, [Next]_vars, ~wanted'
               PROVE  NewestInv'
    BY DEF NewestInv
  <1>1. CASE Checkout
    <2>1. vendor'.pc = "fetch"
      BY <1>1 DEF Checkout, MInv, VendorInv
    <2>2. QED
      BY <2>1 DEF NewestInv
  <1>2. CASE Fetch
    BY <1>2, NewestFetch DEF Fetch
  <1>3. CASE Push
    BY <1>3, NewestPush DEF Push
  <1>4. CASE Pull \/ Refused \/ DispatchPages
    BY <1>4, NewestHandedOn DEF Pull, Refused, DispatchPages
  <1>5. CASE UNCHANGED <<vendor, upstream, wanted>>
    BY <1>5, NewestStays
  <1>6. CASE Publish \/ Request
    BY <1>6 DEF Publish, Request
  <1>7. QED
    BY <1>1, <1>2, <1>3, <1>4, <1>5, <1>6 DEF Next, vars, Authors, VendorRun, PageRun, Open,
       Update, Check, Merge, Deploy

\* A run that has ended with nothing queued behind it has settled the feed.
LEMMA SettledByNewest == MInv /\ NewestInv => FeedIsOnItsWay
  <1> SUFFICES ASSUME MInv, NewestInv, ~wanted, Idle PROVE FeedSettled
    BY DEF FeedIsOnItsWay
  <1>1. PICK l : l \in FeedOf(main.tree)
    BY DEF MInv, TipInv, FeedOf
  <1>2. CASE vendor.pc \in {"idle", "noop", "main"}
    BY <1>1, <1>2 DEF NewestInv, FeedSettled
  <1>3. CASE vendor.pc \in {"failed", "pr"}
    BY <1>3 DEF NewestInv, FeedSettled
  <1>4. QED
    BY <1>2, <1>3 DEF Idle

\* No feed is lost: whatever upstream publishes while a vendor run is under way
\* and whatever lands meanwhile, once no run is queued or in progress the newest
\* feed is on the branch, or the last run said that it failed with it or left it
\* in a pull request.
THEOREM NoFeedIsLost == Spec => []FeedIsOnItsWay
  <1>1. Init => NoNewerCheckout /\ NewestInv
    <2> SUFFICES ASSUME Init PROVE NoNewerCheckout /\ NewestInv
      OBVIOUS
    <2>1. PICK l : FeedOf(Base) = {l}
      BY BaseAssumption DEF FeedOf
    <2>2. upstream.text = l.text
      BY <2>1 DEF Init
    <2>3. QED
      BY <2>1, <2>2 DEF Init, NoNewerCheckout, NewestInv
  <1>2. QED
    BY <1>1, NextCheckout, NextNewest, SettledByNewest, MainlineInvariant, PTL DEF Spec
=============================================================================
