------------------------------ MODULE MCMainline ------------------------------
(* A small tree that the guards pass, and edits that are each fine on their
   own.  "require" and "grow" together put Giant over the size gate, and both
   bump the same counts; "retire" drops a claim that "grow" cites; "require"
   adds vectors too, and so changes the page, without regenerating it.
   "Odd" is a feed that the vendor step accepts, that has no rendering and
   that names the old home of this repository. *)
EXTENDS MainlineInv

MCModules == {"Giant", "User", "FooStmt", "Extra", "Twin"}

Foo == <<"User", "foo">>
Old == <<"Giant", "old_thm">>

Source(m, n, requires, decls) ==
  [file |-> "source", module |-> m, lane |-> "theories", lines |-> n,
   requires |-> requires, decls |-> decls, qeds |-> Cardinality(decls), defineds |-> 0,
   code |-> m, kind |-> "plain", defines |-> {}, states |-> {}, prints |-> {},
   pure |-> {"proof"}]

Decl(name) == [name |-> name, flaws |-> {}, promises |-> {}, keeps |-> {},
               mentions |-> {}, assumes |-> {}]
IffDecl == [Decl("bar_iff") EXCEPT !.promises = {"iff"}]
Cooked == [Decl("hobby") EXCEPT !.mentions = {"snap_round", "fully_intersected"},
                                !.assumes = {"fully_intersected"}]

Giant(n) == Source("Giant", n, {}, {Decl("old_thm"), IffDecl})
User == [Source("User", 40, {"Giant", "FooStmt"}, {Decl("foo"), Cooked}) EXCEPT
           !.states = {<<"foo", "foo_stmt">>}, !.prints = {"foo"}]
FooStmt == [Source("FooStmt", 9, {}, {}) EXCEPT
              !.kind = "Stmt", !.defines = {"foo_stmt"}, !.pure = {"statement", "proof"}]

Project(m) == [file |-> "project", module |-> m, lane |-> "theories"]
Counted(label, n) == [file |-> "count", doc |-> "README", label |-> label, number |-> n]
Heading(title, is67, feats, geoms) ==
  [file |-> "heading", title |-> title, is67 |-> is67, feats |-> feats, geoms |-> geoms]
Row(section, id, theorem, regimes) ==
  [file |-> "row", section |-> section, ids |-> {id}, theorems |-> {theorem},
   regimes |-> regimes]
Oracle(n) == [file |-> "oracle", name |-> "arc", kind |-> "vectors", count |-> n,
              tags |-> {<<"distance", "arc">>}]
Prose(id, head) == [file |-> "prose", restates |-> TRUE, cites |-> {id}, head |-> head]

Feed(n) ==
  [valid |-> TRUE, contract |-> TRUE, ragged |-> FALSE, linksFork |-> FALSE,
   tip |-> n, slack |-> 115,
   types |-> {[name |-> "ExactCircularArc", measured |-> TRUE, implemented |-> TRUE]},
   primitives |-> {[id |-> "p1", ratio |-> 90 + 20 * n, laser |-> 9, chainsaw |-> 10]},
   operations |-> {},
   ungauged |-> {[harness |-> "overlay", rows |-> {}]}]
Unreadable(n) == [Feed(n) EXCEPT !.valid = FALSE]
Odd(n) == [Feed(n) EXCEPT !.ragged = TRUE, !.linksFork = TRUE]

MCFeedTexts == << {Feed(1), Unreadable(1)}, {Odd(2)} >>
MCVendorBranch == << "vendor1", "vendor2" >>

Tree ==
  {Giant(1230), User, FooStmt,
   Project("Giant"), Project("User"), Project("FooStmt"),
   [file |-> "host", module |-> "Giant"],
   [file |-> "debt", entry |-> <<"iff", {"Giant"}, "bar_iff">>],
   [file |-> "cooked", entry |-> <<"User", "hobby">>],
   Heading("s1", FALSE, {"distance"}, {"arc", "cs"}), Heading("s2", TRUE, {}, {}),
   Row("s1", "claim-foo", Foo, {"exact"}), Row("s2", "claim-old", Old, {"cond", "oracle"}),
   [file |-> "claim", id |-> "claim-foo", statement |-> "FooStmt", proof |-> "User",
    pin |-> "FooStmt", review |-> "unchecked", regime |-> "exact", sourced |-> FALSE,
    results |-> {[scope |-> "main", states |-> "foo_stmt", proof |-> "foo"]}],
   Prose("claim-foo", Foo),
   Counted("host modules", 1), Counted("registered modules", 3),
   Counted("theories modules", 3), Counted("flocq modules", 0),
   Counted("theories exceptions", 0), Counted("flocq exceptions", 1),
   Counted("Defined terminators", 0), Counted("Qed theorems", 3),
   [file |-> "exception", module |-> "Flt", lane |-> "flocq"],
   [file |-> "live", counts |-> <<1, 1, 0, 0>>],
   [file |-> "sentence", says |-> "a ceiling"],
   [file |-> "sentence", says |-> "closes no theorem"],
   [file |-> "sentence", says |-> "names the exceptions"],
   [file |-> "link", exempt |-> FALSE, to |-> "issues"],
   [file |-> "adr", adr |-> "0007", row |-> {"Proposed"}],
   [file |-> "status", benign |-> FALSE, names |-> {}, heading |-> {"0007"},
    own |-> {}, says |-> "Proposed"],
   [file |-> "token", token |-> "KNOTS", status |-> "Present", ids |-> {"claim-foo"}],
   [file |-> "context", rows |-> {<<"KNOTS", "Present", {"claim-foo"}>>}],
   [file |-> "consumer", id |-> "c1", status |-> "blocked", unblocks |-> {"u"},
    lemmas |-> {"foo"}, inventory |-> "i1"],
   [file |-> "switch", inventory |-> "i1"],
   Oracle(3),
   [file |-> "issue", num |-> 64, area |-> "overlay", priority |-> "P1", verdict |-> "open"],
   [file |-> "registry", path |-> "deferred", entries |-> 2],
   [file |-> "feed", text |-> Feed(0)]}

Generators ==
  {[file |-> "generator", name |-> g, version |-> 1] :
     g \in {"sinpoly", "sin", "cospoly", "cos", "fresnelpoly", "fresnel"}}
Generated == {[file |-> "generated", name |-> f, output |-> {<<g, 1>> : g \in Feeding[f]}] :
                f \in DOMAIN Feeding}

Unpaged == Tree \cup Generators \cup Generated
MCBase == Unpaged \cup {[file |-> "page", sha |-> 0, shows |-> Rendered(Unpaged)]}

Add(a) == [old |-> {}, new |-> {a}]

NewModule(m, requires) ==
  {Add(Source(m, 20, requires, {})), Add(Project(m)),
   Swap(Counted("registered modules", 3), Counted("registered modules", 4)),
   Swap(Counted("theories modules", 3), Counted("theories modules", 4))}

MCEdits ==
  [require |-> NewModule("Extra", {"Giant"}) \cup {Swap(Oracle(3), Oracle(5))},
   grow    |-> NewModule("Twin", {}) \cup {Swap(Giant(1230), Giant(1240)),
                                           Add(Prose("claim-old", Old))},
   retire  |-> {[old |-> {Row("s2", "claim-old", Old, {"cond", "oracle"})}, new |-> {}]}]
MCRegenerating == {"retire"}
MCHeadlines == {<<Foo, "claim-foo">>}
=============================================================================
