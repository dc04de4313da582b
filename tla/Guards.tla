-------------------------------- MODULE Guards --------------------------------
(***************************************************************************)
(* The Python guards of `make ci-guards` as predicates of a source tree.   *)
(* A tree is a set of lines, each a record whose field "file" names the    *)
(* file, or the kind of file, it stands in; the other fields are what the  *)
(* guards and the dashboard read there:                                    *)
(*                                                                         *)
(*   source              a .v file: module, lane, lines, requires, decls,  *)
(*                       qeds, defineds, code, kind, defines, states,      *)
(*                       prints, pure (the word rules it satisfies)        *)
(*   split               docs/module-split-allowlist.txt: module, lines    *)
(*   debt, cooked        the registers of frozen debt: entry               *)
(*   heading, row        docs/verified-claims.md                           *)
(*   claim               docs/claim-statements.json                        *)
(*   prose               a gated document: restates, cites, head           *)
(*   host, project       _CoqProject, _CoqProject.full: module, lane       *)
(*   exception, live     docs/audit-exceptions.txt and its header          *)
(*   count, sentence, link      what the documents say and point to        *)
(*   adr, status         an ADR's Status row; prose that states a status   *)
(*   token, context      the SQL/MM inventory and CONTEXT.md's copy of it  *)
(*   generator, generated       scripts/b64gen and its committed output    *)
(*   consumer, switch    consumer-tolerances.json and the decision table   *)
(*                                                                         *)
(* Reading text into such records (regular expressions, comment stripping, *)
(* table cells) is the data these modules abstract.                        *)
(***************************************************************************)
EXTENDS Integers, FiniteSets, FiniteSetsExt

CONSTANTS
  Modules,     \* module names
  InsideText,  \* <<id, other>>: the text of id occurs inside that of other
  Headlines    \* <<theorem, id>> that check_cite_or_cut's selftest pins

Lines(t, file) == {l \in t : l.file = file}

Sources(t) == Lines(t, "source")

-----------------------------------------------------------------------------
(* check_module_split *)

MonolithLines == 1234
Gate == 3210

Headroom(n) == (5 * n + 99) \div 100

\* <<dependent, module>>; no module depends on itself.
DirectDependents(t) ==
  UNION {{<<s.module, m>> : m \in s.requires \ {s.module}} : s \in Sources(t)}

\* The least set that holds m's direct dependents and is closed under them.
Dependents(t, m) ==
  LET direct == DirectDependents(t)
  IN {d \in Modules : \A S \in SUBSET Modules :
        (\A e \in direct : e[2] \in S \cup {m} => e[1] \in S) => d \in S}

BlastRadius(t, m) == Cardinality(Dependents(t, m)) + 1

Gated(t) == {s \in Sources(t) : /\ s.lines >= MonolithLines
                                /\ s.lines * BlastRadius(t, s.module) >= Gate}

ModuleSplit(t) ==
  /\ \A s \in Gated(t) : \E r \in Lines(t, "split") :
       r.module = s.module /\ s.lines <= r.lines + Headroom(r.lines)
  /\ \A r \in Lines(t, "split") : \E s \in Gated(t) : s.module = r.module

-----------------------------------------------------------------------------
(* check_name_shape and check_constructor_gate: found = registered *)

Declarations(t) == UNION {{<<s.module, d>> : d \in s.decls} : s \in Sources(t)}

Homes(t, name) == {x[1] : x \in {y \in Declarations(t) : y[2].name = name}}

\* A declaration's flaws (hygiene, placeholder, head), and the shapes its
\* name promises (iff, dec, neq, unique, exists) and its statement lacks.
Violations(d) == d.flaws \cup (d.promises \ d.keeps)

NameDebt(t) ==
  (UNION {{<<rule, {x[1]}, x[2].name>> : rule \in Violations(x[2])} : x \in Declarations(t)})
  \cup {<<"unique", Homes(t, x[2].name), x[2].name>> :
          x \in {y \in Declarations(t) : Cardinality(Homes(t, y[2].name)) > 1}}

NameShape(t) == NameDebt(t) = {l.entry : l \in Lines(t, "debt")}

Arrangement == {"fully_intersected", "pairwise_nodable", "noded", "overlay", "snap_round",
                "snap_ok", "extract_faces", "face_", "arrangement"}
Nodedness == {"fully_intersected", "pairwise_nodable"}

UnderConstructor(t) ==
  {<<x[1], x[2].name>> : x \in {y \in Declarations(t) :
      y[2].mentions \cap Arrangement # {} /\ y[2].assumes \cap Nodedness # {}}}

ConstructorGate(t) == UnderConstructor(t) = {l.entry : l \in Lines(t, "cooked")}

-----------------------------------------------------------------------------
(* check_cite_or_cut *)

NoHead == <<"none", "none">>

KnownIds(t) == (UNION {l.ids : l \in Lines(t, "row")}) \cup {l.id : l \in Lines(t, "claim")}

\* A row with one claim id binds its theorems to it, and so does a claim.
BoundTo(t, theorem) ==
  (UNION {l.ids : l \in {r \in Lines(t, "row") :
                           Cardinality(r.ids) = 1 /\ theorem \in r.theorems}})
  \cup {l.id : l \in {c \in Lines(t, "claim") : \E r \in c.results :
                        theorem = <<c.proof, r.proof>>}}

Cited(t, l) ==
  LET known == l.cites \cap KnownIds(t)
      bound == BoundTo(t, l.head)
  IN IF Cardinality(bound) = 1 THEN bound \subseteq known
                               ELSE known # {} \/ (bound = {} /\ l.head # NoHead)

CiteOrCut(t) ==
  /\ KnownIds(t) # {}
  /\ \A h \in Headlines : BoundTo(t, h[1]) = {h[2]}
  /\ \A l \in Lines(t, "prose") : l.restates => Cited(t, l)

-----------------------------------------------------------------------------
(* check_readme_counts *)

InLane(ls, lane) == Cardinality({l \in ls : l.lane = lane})

Actual(t, label) ==
  CASE label = "host modules"       -> Cardinality(Lines(t, "host"))
    [] label = "registered modules" -> Cardinality(Lines(t, "project"))
    [] label = "theories modules"   -> InLane(Lines(t, "project"), "theories")
    [] label = "flocq modules"      -> InLane(Lines(t, "project"), "flocq")
    [] label = "Qed theorems"       -> MapThenSumSet(LAMBDA s : s.qeds, Sources(t))
    [] label = "theories exceptions" -> InLane(Lines(t, "exception"), "theories")
    [] label = "flocq exceptions"   -> InLane(Lines(t, "exception"), "flocq")
    [] label = "Defined terminators" -> MapThenSumSet(LAMBDA s : s.defineds, Sources(t))

Exact == {"host modules", "registered modules", "theories modules", "flocq modules",
          "theories exceptions", "flocq exceptions", "Defined terminators"}

ReadmeCounts(t) ==
  /\ \A c \in Lines(t, "count") :
       IF c.label \in Exact THEN c.number = Actual(t, c.label)
                            ELSE c.number <= Actual(t, c.label)
  /\ \A label \in Exact : \E c \in Lines(t, "count") : c.doc = "README" /\ c.label = label
  /\ \E l \in Lines(t, "live") : l.counts = <<Cardinality(Lines(t, "exception")),
       Actual(t, "flocq exceptions"), Actual(t, "theories exceptions"),
       InLane(Lines(t, "exception"), "hunt")>>

-----------------------------------------------------------------------------
(* check_readme_claims *)

Forbidden == {"a floor", "axioms of its own", "corpus-introduced"}
Required == {"a ceiling", "closes no theorem", "names the exceptions"}

\* Links to this repository's old home: only the tracker did not move.
ReadmeClaims(t) ==
  LET said == {l.says : l \in Lines(t, "sentence")}
  IN /\ said \cap Forbidden = {}
     /\ Required \subseteq said
     /\ \A l \in Lines(t, "link") : l.exempt \/ l.to \in {"issues", "pull"}
     /\ \A l \in Lines(t, "feed") : ~l.text.linksFork

-----------------------------------------------------------------------------
(* check_claim_statements, the half that needs no build *)

Scopes == {"main", "supporting", "witness"}
ReviewStates == {"unchecked", "agent-reviewed", "self-assessed", "peer-reviewed",
                 "author-verified"}

\* s: the statement module, p: the proof module.
ResultHolds(t, c, r, s, p) ==
  /\ r.scope \in Scopes
  /\ r.states \in s.defines
  /\ <<r.proof, r.states>> \in p.states
  /\ r.proof \in p.prints
  /\ r.scope = "main" => \E w \in Lines(t, "row") : <<c.proof, r.proof>> \in w.theorems

ClaimHolds(t, c) ==
  \E s, p \in Sources(t) :
    /\ s.module = c.statement /\ p.module = c.proof
    /\ {s.module, p.module} \subseteq {l.module : l \in Lines(t, "project")}
    /\ s.code = c.pin
    /\ "statement" \in s.pure /\ "proof" \in p.pure
    /\ s.module \in p.requires
    /\ \A r \in c.results : ResultHolds(t, c, r, s, p)
    /\ \E r \in c.results : r.scope = "main"
    /\ \E w \in Lines(t, "row") : c.id \in w.ids
    /\ c.review \in ReviewStates
    /\ c.regime = "cond" => c.sourced

ClaimStatements(t) ==
  /\ \A c \in Lines(t, "claim") : ClaimHolds(t, c)
  /\ \A c, d \in Lines(t, "claim") : c.id = d.id => c = d
  /\ \A s \in Sources(t) :
       s.kind = "Stmt" => \E c \in Lines(t, "claim") : c.statement = s.module

-----------------------------------------------------------------------------
(* check_adr_status *)

Statuses == <<"Proposed", "Accepted", "Rejected", "Superseded">>

\* The first of Statuses, in their order, that the ADR's Status row mentions.
StatusOf(a) ==
  LET n == CHOOSE n \in DOMAIN Statuses :
             Statuses[n] \in a.row /\ \A k \in 1..(n - 1) : Statuses[k] \notin a.row
  IN Statuses[n]

Declared(t) == {a \in Lines(t, "adr") : \E n \in DOMAIN Statuses : Statuses[n] \in a.row}

\* A line that names ADRs says their status; a heading tag or a bare status
\* is about the ADR of the heading, or of the file.
Asserted(l) ==
  IF l.names # {} THEN l.names
  ELSE {<<adr, l.says>> : adr \in IF l.heading # {} THEN l.heading ELSE l.own}

AdrStatus(t) ==
  /\ Declared(t) # {}
  /\ \A l \in Lines(t, "status") : ~l.benign =>
       \A x \in Asserted(l), a \in Declared(t) : x[1] = a.adr => x[2] = StatusOf(a)

-----------------------------------------------------------------------------
(* check_sqlmm_named_fields, b64gen/check, check_consumer_tolerances *)

\* Looked up as a piece of the text of docs/verified-claims.md.
InRegistry(t, id) ==
  \E other \in UNION {l.ids : l \in Lines(t, "row")} :
    id = other \/ <<id, other>> \in InsideText

SqlmmNamedFields(t) ==
  LET rows == {<<l.token, l.status, l.ids>> : l \in Lines(t, "token")}
  IN /\ \A l \in Lines(t, "token") :
          l.status # "Absent" => \A id \in l.ids : InRegistry(t, id)
     /\ \E c \in Lines(t, "context") : c.rows = rows

\* The generators whose output goes into each generated file.
Feeding ==
  [B64_SinPoly      |-> {"sinpoly"},
   B64_Sin          |-> {"sin", "sinpoly"},
   B64_CosPoly      |-> {"cospoly"},
   B64_Cos          |-> {"cos", "cospoly", "sin", "sinpoly"},
   B64_FresnelPolyC |-> {"fresnelpoly"},
   B64_FresnelPolyS |-> {"fresnelpoly"},
   B64_FresnelPoly  |-> {"fresnelpoly"},
   B64_Fresnel      |-> {"fresnel", "fresnelpoly"}]

Regenerated(t, f) ==
  {<<g.name, g.version>> : g \in {l \in Lines(t, "generator") : l.name \in Feeding[f]}}

GeneratedProofs(t) ==
  \A f \in DOMAIN Feeding :
    \E l \in Lines(t, "generated") : l.name = f /\ l.output = Regenerated(t, f)

ConsumerTolerances(t) ==
  /\ \A c \in Lines(t, "consumer") :
       /\ c.status \in {"decided", "blocked", "recorded"}
       /\ c.status = "blocked" => c.unblocks # {}
       /\ c.lemmas \subseteq {x[2].name : x \in Declarations(t)}
                         \cup UNION {s.defines : s \in Sources(t)}
       /\ \E w \in Lines(t, "switch") : w.inventory = c.inventory
  /\ \A c, d \in Lines(t, "consumer") : c.id = d.id => c = d

-----------------------------------------------------------------------------
\* The order of the Makefile's ci-guards.
GuardsPass(t) ==
  /\ ReadmeCounts(t)
  /\ ReadmeClaims(t)
  /\ CiteOrCut(t)
  /\ ModuleSplit(t)
  /\ ConstructorGate(t)
  /\ NameShape(t)
  /\ ClaimStatements(t)
  /\ AdrStatus(t)
  /\ SqlmmNamedFields(t)
  /\ GeneratedProofs(t)
  /\ ConsumerTolerances(t)
=============================================================================
