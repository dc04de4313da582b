----------------------------- MODULE CorpusCache -----------------------------
(***************************************************************************)
(* The incremental corpus cache of the `rocq-flocq` job (ci.yml) and of    *)
(* its read-only consumer, the `build-oracle` job (build-oracle.yml).      *)
(*                                                                         *)
(* A CI run checks out one tree, may restore an earlier run's .vo files,   *)
(* Print Assumptions chunks and manifest, ages or touches the sources      *)
(* (scripts/ci_invalidate_stale_vo.py), lets GNU make decide by mtime what *)
(* to recompile, audits the axioms of every project file from the chunks,  *)
(* writes a new manifest and saves the workspace as a new cache entry.     *)
(* The runs share nothing but the cache: a run's workspace is its own.     *)
(*                                                                         *)
(* A source is an opaque text.  What matters of it is its digest (the      *)
(* comment-stripped sha256), the files it requires, the axioms it uses and *)
(* the texts it does not compile against.  A .vo is the record of what it  *)
(* was compiled from: the text of every file in its closure, the flags and *)
(* the toolchain image.                                                    *)
(***************************************************************************)
EXTENDS Naturals, FiniteSets

CONSTANTS
  Files,        \* the .v paths
  Texts,        \* the contents a .v file can have
  Digests,      \* the sha256 values
  Flags,        \* the flag lines of _CoqProject.full
  Images,       \* the contents of the Dockerfile, hence the toolchain
  AxiomNames,   \* the names a Print Assumptions block can list
  Runs,         \* the CI runs
  Trees,        \* the trees a run can check out
  Absent,       \* no such file: no text, no .vo, no chunk, no manifest
  Digest,       \* Digest[x]: what source_sha256 computes of text x
  Requires,     \* Requires[x]: the files text x has a Require for
  AxiomsIn,     \* AxiomsIn[x]: the axioms the theorems of text x introduce
  Clashes,      \* <<x, y>>: text x does not compile against text y
  ClaimRoots,   \* the modules of docs/claim-statements.json
  ProbeRoots,   \* the modules the hunt probes load
  ExtractFile,  \* theories-flocq/Validate_binary64_extract.v
  MaxActive     \* bound: how many runs are in progress together

Closure == [Files -> Texts \cup {Absent}]

\* allowed: docs/axiom-allowlist.txt; exempt, probesExempt: what
\* docs/audit-exceptions.txt says of the project files and of the hunt probes;
\* pinned: ALLOWED_AXIOMS of check_claim_statements.py; pins: the texts whose
\* definitions print, and whose proofs are typed, as docs/claim-statements.json
\* has them.
Tree == [text : Closure, listed : SUBSET Files, flags : Flags, image : Images,
         allowed : SUBSET AxiomNames, exempt : SUBSET Files,
         probesExempt : BOOLEAN, pinned : SUBSET AxiomNames,
         pins : SUBSET Texts]

Vo == [closure : Closure, flags : Flags, image : Images, mtime : Nat]

Manifest == [flags : Flags, files : [Files -> Digests \cup {Absent}]]

Artefacts == [Files -> Vo \cup {Absent}]
Palog == [Files -> {Absent} \cup SUBSET AxiomNames]

Entry == [key : Images, vo : Artefacts, palog : Palog, manifest : Manifest]

Jobs == {"rocq-flocq", "build-oracle"}
Events == {"pull_request", "main"}   \* main: push, release, workflow_dispatch

RunInfo == [job : Jobs, event : Events, tree : Trees]

ASSUME ConstantsAssumption ==
  /\ Digest \in [Texts -> Digests]
  /\ Requires \in [Texts -> SUBSET Files]
  /\ AxiomsIn \in [Texts -> SUBSET AxiomNames]
  /\ Clashes \subseteq Texts \X Texts
  /\ Trees \subseteq Tree
  /\ ClaimRoots \subseteq Files
  /\ ProbeRoots \subseteq Files
  /\ ExtractFile \in Files
  /\ MaxActive \in Nat \ {0}

ASSUME AbsentAssumption ==
  /\ Absent \notin Texts \cup Digests \cup Vo \cup Manifest \cup RunInfo
                  \cup [job : Jobs, tree : Tree]
  /\ \A S \in SUBSET AxiomNames : S # Absent

\* The premise of the whole scheme (the header of scripts/ci_vo_hash.py): two
\* texts with one digest are interchangeable to the compiler, in what it
\* accepts and in what it prints.  Module VoHash examines it.
ASSUME DigestAssumption ==
  \A x, y \in Texts : Digest[x] = Digest[y] =>
     /\ Requires[x] = Requires[y]
     /\ AxiomsIn[x] = AxiomsIn[y]
     /\ \A z \in Texts : /\ <<x, z>> \in Clashes <=> <<y, z>> \in Clashes
                         /\ <<z, x>> \in Clashes <=> <<z, y>> \in Clashes
     /\ \A t \in Trees : x \in t.pins <=> y \in t.pins

Steps == {"restore", "invalidate", "touch", "make", "elaborate", "smoke",
          "palog", "audit", "manifest", "save", "link"}
Active == Steps
Verdicts == {"none", "pass", "fail", "cancelled"}

OLD_MTIME == 0   \* 2001-01-01, before any compile

VARIABLES
  cache,    \* the saved entries
  clock,    \* wall-clock time, one tick per run, when it invalidates
  pc,       \* pc[r]: the step run r is about to take
  run,      \* run[r]: the job, the event and the tree of r
  ws,       \* ws[r]: the workspace of r
  verdict   \* verdict[r]: how r ended

vars == <<cache, clock, pc, run, ws, verdict>>

\* now: the time of the run's touches and compiles, later than everything it
\* can have restored; vtime: mtimes of the .v files; made: the targets make has finished with;
\* log: the files with a "ROCQ compile" line in /tmp/build_sync.log.
Workspace == [now : Nat, vo : Artefacts, vtime : [Files -> Nat], palog : Palog,
              manifest : Manifest \cup {Absent},
              made : SUBSET Files, log : SUBSET Files]

\* Type correctness: an entry is always saved with its manifest, a compiled
\* .vo names the text of every file of its closure, and a chunk is axiom names.
TypeOK ==
  /\ cache \subseteq Entry
  /\ clock \in Nat
  /\ pc \in [Runs -> Steps \cup {"idle", "done"}]
  /\ run \in [Runs -> RunInfo \cup {Absent}]
  /\ ws \in [Runs -> Workspace]
  /\ verdict \in [Runs -> Verdicts]

-----------------------------------------------------------------------------
(* What the scripts compute.                                               *)

\* Bug: the writer records the text itself.
source_sha256_Raw(x) == x

source_sha256(x) == Digest[x]

Req(x) == IF x = Absent THEN {} ELSE Requires[x]

\* The files a closure mentions.
Mentioned(c) == {h \in Files : c[h] # Absent}

\* The axioms a file's Print Assumptions blocks list: they come from anywhere
\* in its closure.
AxiomsOf(v) == UNION {AxiomsIn[v.closure[h]] : h \in Mentioned(v.closure)}

CacheKey(t) == t.image

\* Bug: a push to main restores too.
RestoresCache_Always(info) == TRUE

RestoresCache(info) == info.event = "pull_request"

Without(artefacts, gone) ==
  [f \in Files |-> IF f \in gone THEN Absent ELSE artefacts[f]]

Recorded(m) == {f \in Files : m.files[f] # Absent}

\* Bug (2026-06..2026-07): a full-bytes hash on one side only.
Unchanged_FullBytes(m, t, f) == m.files[f] = t.text[f]

Unchanged(m, t, f) == m.files[f] = source_sha256(t.text[f])

\* Bug: the flag lines are not compared.
FlagsMoved_Never(m, t) == FALSE

FlagsMoved(m, t) == m.flags # t.flags

\* The dependencies coqdep finds: a Require of a file that is not on disk
\* gets a warning and no edge.
Found(t, f) == {g \in Req(t.text[f]) : t.text[g] # Absent}

\* Bug: a rebuilt prerequisite does not rebuild its dependents.
Stale_SourceOnly(w, t, f) ==
  w.vo[f] # Absent => w.vtime[f] > w.vo[f].mtime

\* GNU make: no target, the source is newer, or a prerequisite is newer.
Stale(w, t, f) ==
  w.vo[f] # Absent =>
     \/ w.vtime[f] > w.vo[f].mtime
     \/ \E g \in Found(t, f) :
           w.vo[g] # Absent /\ w.vo[g].mtime > w.vo[f].mtime

\* There is no source for f, or a prerequisite exists only as an unlisted
\* source and no rule builds its .vo.
NoRule(w, t, f) ==
  \/ t.text[f] = Absent
  \/ \E g \in Found(t, f) \ t.listed : w.vo[g] = Absent

\* Rocq loads g: it and everything it was compiled against is there, and is
\* the very library it was compiled against.
Loads(w, g) ==
  /\ w.vo[g] # Absent
  /\ \A h \in Mentioned(w.vo[g].closure) :
        /\ w.vo[h] # Absent
        /\ w.vo[h].closure[h] = w.vo[g].closure[h]

NewClosure(w, t, f) ==
  [h \in Files |->
     IF h = f THEN t.text[f]
     ELSE IF \E g \in Req(t.text[f]) : w.vo[g].closure[h] # Absent
          THEN w.vo[h].closure[h]
          ELSE Absent]

Compiles(w, t, f) ==
  /\ \A g \in Req(t.text[f]) : Loads(w, g)
  /\ LET c == NewClosure(w, t, f)
     IN  \A h \in Mentioned(c) : <<t.text[f], c[h]>> \notin Clashes

\* ci_assemble_palog.sh: a chunk for every listed file.
Assembles(w, t) == \A f \in t.listed : w.palog[f] # Absent

\* audit_axioms.sh on the assembled chunks and the smoke log.
AuditPasses(w, t) ==
  /\ \A f \in t.listed \ t.exempt : w.palog[f] \subseteq t.allowed
  /\ t.probesExempt \/
        \A p \in ProbeRoots : AxiomsOf(w.vo[p]) \subseteq t.allowed

-----------------------------------------------------------------------------
EmptyWorkspace(now) ==
  [now |-> now, vo |-> [f \in Files |-> Absent], vtime |-> [f \in Files |-> now],
   palog |-> [f \in Files |-> Absent], manifest |-> Absent,
   made |-> {}, log |-> {}]

Init ==
  /\ cache = {}
  /\ clock = 0
  /\ pc = [r \in Runs |-> "idle"]
  /\ run = [r \in Runs |-> Absent]
  /\ ws = [r \in Runs |-> EmptyWorkspace(0)]
  /\ verdict = [r \in Runs |-> "none"]

Goto(r, from, to) == pc[r] = from /\ pc' = [pc EXCEPT ![r] = to]

\* A job ends: its verdict is posted and the runner is discarded.
Finish(r, v) ==
  /\ pc' = [pc EXCEPT ![r] = "done"]
  /\ verdict' = [verdict EXCEPT ![r] = v]
  /\ ws' = [ws EXCEPT ![r] = EmptyWorkspace(0)]

Checkout(r, job, event, t) ==
  /\ Cardinality({q \in Runs : pc[q] \in Active}) < MaxActive
  /\ Goto(r, "idle", "restore")
  /\ run' = [run EXCEPT ![r] = [job |-> job, event |-> event, tree |-> t]]
  /\ ws' = [ws EXCEPT ![r] = EmptyWorkspace(clock)]
  /\ UNCHANGED <<cache, clock, verdict>>

Unpacked(w, e) ==
  [w EXCEPT !.vo = e.vo, !.palog = e.palog, !.manifest = e.manifest]

\* Branch scopes and eviction decide which entry the key prefix finds.
RestoreHit(r, e) ==
  /\ Goto(r, "restore", "invalidate")
  /\ RestoresCache(run[r])
  /\ e.key = CacheKey(run[r].tree)
  /\ ws' = [ws EXCEPT ![r] = Unpacked(ws[r], e)]
  /\ UNCHANGED <<cache, clock, run, verdict>>

RestoreMiss(r) ==
  /\ Goto(r, "restore", "invalidate")
  /\ UNCHANGED <<cache, clock, run, ws, verdict>>

AfterInvalidate(r) == IF run[r].job = "build-oracle" THEN "touch" ELSE "make"

\* No manifest: everything on disk builds fresh.
Stamped(w, now) == [w EXCEPT !.now = now]

InvalidateCold(r) ==
  /\ Goto(r, "invalidate", AfterInvalidate(r))
  /\ ws[r].manifest = Absent
  /\ clock' = clock + 1
  /\ ws' = [ws EXCEPT ![r] = Stamped(ws[r], clock + 1)]
  /\ UNCHANGED <<cache, run, verdict>>

\* Bug: a wipe that forgets the files that have left the project.
Wiped_ListedOnly(w, t, now) ==
  [w EXCEPT !.now = now, !.vo = Without(w.vo, t.listed),
            !.palog = Without(w.palog, t.listed), !.manifest = Absent]

\* The flag lines changed: everything goes, the manifest too.
Wiped(w, t, now) ==
  LET gone == t.listed \cup Recorded(w.manifest)
  IN [w EXCEPT !.now = now, !.vo = Without(w.vo, gone),
               !.palog = Without(w.palog, gone), !.manifest = Absent]

InvalidateWipe(r) ==
  /\ Goto(r, "invalidate", AfterInvalidate(r))
  /\ ws[r].manifest # Absent
  /\ FlagsMoved(ws[r].manifest, run[r].tree)
  /\ clock' = clock + 1
  /\ ws' = [ws EXCEPT ![r] = Wiped(ws[r], run[r].tree, clock + 1)]
  /\ UNCHANGED <<cache, run, verdict>>

\* Bug: every recorded source is aged, whatever its hash.
Aged_IfRecorded(m, t, now, f) ==
  IF m.files[f] # Absent THEN OLD_MTIME ELSE now

\* The mtime of f after the pass over the listed sources.
Aged(m, t, now, f) == IF Unchanged(m, t, f) THEN OLD_MTIME ELSE now

\* Unchanged sources get old, the others new; what no listed file owns goes.
Sifted(w, t, now) ==
  [w EXCEPT !.now = now,
            !.vtime = [f \in Files |-> IF f \in t.listed /\ t.text[f] # Absent
                                       THEN Aged(w.manifest, t, now, f)
                                       ELSE w.vtime[f]],
            !.vo = Without(w.vo, Recorded(w.manifest) \ t.listed),
            !.palog = Without(w.palog, Files \ t.listed)]

InvalidateByHash(r) ==
  /\ Goto(r, "invalidate", AfterInvalidate(r))
  /\ ws[r].manifest # Absent
  /\ ~ FlagsMoved(ws[r].manifest, run[r].tree)
  /\ clock' = clock + 1
  /\ ws' = [ws EXCEPT ![r] = Sifted(ws[r], run[r].tree, clock + 1)]
  /\ UNCHANGED <<cache, run, verdict>>

\* Bug: the extraction leaf is left to the cache.
ForceExtraction_Skipped(r) ==
  /\ Goto(r, "touch", "make")
  /\ UNCHANGED <<cache, clock, run, ws, verdict>>

Touched(w) ==
  [w EXCEPT !.vtime = [w.vtime EXCEPT ![ExtractFile] = w.now]]

\* build-oracle: touch Validate_binary64_extract.v after the invalidation.
ForceExtraction(r) ==
  /\ Goto(r, "touch", "make")
  /\ ws' = [ws EXCEPT ![r] = Touched(ws[r])]
  /\ UNCHANGED <<cache, clock, run, verdict>>

\* make looks at a target once it is finished with its prerequisites.
Ready(r, f) ==
  /\ pc[r] = "make"
  /\ f \in run[r].tree.listed \ ws[r].made
  /\ Found(run[r].tree, f) \cap run[r].tree.listed \subseteq ws[r].made

Skipped(w, f) == [w EXCEPT !.made = w.made \cup {f}]

MakeSkip(r, f) ==
  /\ Ready(r, f)
  /\ ~ NoRule(ws[r], run[r].tree, f)
  /\ ~ Stale(ws[r], run[r].tree, f)
  /\ ws' = [ws EXCEPT ![r] = Skipped(ws[r], f)]
  /\ UNCHANGED <<cache, clock, pc, run, verdict>>

NewVo(w, t, f) ==
  [closure |-> NewClosure(w, t, f), flags |-> t.flags, image |-> t.image,
   mtime |-> w.now]

Compiled(w, t, f) ==
  [w EXCEPT !.vo = [w.vo EXCEPT ![f] = NewVo(w, t, f)],
            !.made = w.made \cup {f}, !.log = w.log \cup {f}]

MakeCompile(r, f) ==
  /\ Ready(r, f)
  /\ ~ NoRule(ws[r], run[r].tree, f)
  /\ Stale(ws[r], run[r].tree, f)
  /\ Compiles(ws[r], run[r].tree, f)
  /\ ws' = [ws EXCEPT ![r] = Compiled(ws[r], run[r].tree, f)]
  /\ UNCHANGED <<cache, clock, pc, run, verdict>>

MakeFail(r, f) ==
  LET w == ws[r]
      t == run[r].tree
  IN /\ Ready(r, f)
     /\ NoRule(w, t, f) \/ (Stale(w, t, f) /\ ~ Compiles(w, t, f))
     /\ Finish(r, "fail")
     /\ UNCHANGED <<cache, clock, run>>

MakeDone(r) ==
  /\ Goto(r, "make", IF run[r].job = "build-oracle" THEN "link" ELSE "elaborate")
  /\ run[r].tree.listed \subseteq ws[r].made
  /\ UNCHANGED <<cache, clock, run, ws, verdict>>

\* Bug: a script that fails is run again until it passes.
Gate_Retries(r, from, to, opens) ==
  /\ pc[r] = from
  /\ opens /\ pc' = [pc EXCEPT ![r] = to] /\ UNCHANGED <<ws, verdict>>
  /\ UNCHANGED <<cache, clock, run>>

\* A gate either lets the run go on or ends it.
Gate(r, from, to, opens) ==
  /\ pc[r] = from
  /\ \/ opens /\ pc' = [pc EXCEPT ![r] = to] /\ UNCHANGED <<ws, verdict>>
     \/ ~ opens /\ Finish(r, "fail")
  /\ UNCHANGED <<cache, clock, run>>

\* check_claim_statements.py --elaborate, against the .vo files just built.
\* pins stands for both of its verdicts on a statement: the hash of what its
\* constants print as, and the type its proof has.
Elaborates(w, t) ==
  /\ t.allowed = t.pinned
  /\ \A c \in ClaimRoots :
        /\ Loads(w, c)
        /\ AxiomsOf(w.vo[c]) \subseteq t.pinned
        /\ \A h \in Mentioned(w.vo[c].closure) : w.vo[c].closure[h] \in t.pins

Elaborate(r) == Gate(r, "elaborate", "smoke", Elaborates(ws[r], run[r].tree))

\* hunt_probe_smoke.sh: a probe compiles when what it requires loads (the
\* probe's own text is taken to be right).
Smoke(r) ==
  Gate(r, "smoke", "palog", \A p \in ProbeRoots : Loads(ws[r], p))

\* Bug: a chunk that is there is kept.
Chunks_Keep(w) ==
  [f \in Files |-> IF f \in w.log /\ w.palog[f] = Absent
                   THEN AxiomsOf(w.vo[f]) ELSE w.palog[f]]

\* The chunk of every file compiled in this run is replaced.
Chunks(w) ==
  [f \in Files |-> IF f \in w.log THEN AxiomsOf(w.vo[f]) ELSE w.palog[f]]

\* ci_update_palog.sh
UpdatePalog(r) ==
  /\ Goto(r, "palog", "audit")
  /\ ws' = [ws EXCEPT ![r] = [ws[r] EXCEPT !.palog = Chunks(ws[r])]]
  /\ UNCHANGED <<cache, clock, run, verdict>>

AssembleAndAudit(r) ==
  Gate(r, "audit", "manifest",
       /\ Assembles(ws[r], run[r].tree)
       /\ AuditPasses(ws[r], run[r].tree))

ManifestOf(t) ==
  [flags |-> t.flags,
   files |-> [f \in Files |-> IF f \in t.listed /\ t.text[f] # Absent
                              THEN source_sha256(t.text[f]) ELSE Absent]]

\* ci_write_vo_manifest.py
WriteManifest(r) ==
  /\ Goto(r, "manifest", "save")
  /\ ws' = [ws EXCEPT ![r] = [ws[r] EXCEPT !.manifest = ManifestOf(run[r].tree)]]
  /\ UNCHANGED <<cache, clock, run, verdict>>

EntryOf(t, w) ==
  [key |-> CacheKey(t), vo |-> w.vo, palog |-> w.palog, manifest |-> w.manifest]

\* actions/cache/save warns and succeeds when it cannot store the entry.
Save(r) ==
  /\ pc[r] = "save"
  /\ \/ cache' = cache \cup {EntryOf(run[r].tree, ws[r])}
     \/ cache' = cache
  /\ Finish(r, "pass")
  /\ UNCHANGED <<clock, run>>

\* test -f oracle/extracted.ml: only compiling ExtractFile writes it.  What
\* the job does with it afterwards (ocamlopt, the parity gates) is not here.
Link(r) ==
  /\ pc[r] = "link"
  /\ Finish(r, IF ExtractFile \in ws[r].log THEN "pass" ELSE "fail")
  /\ UNCHANGED <<cache, clock, run>>

\* A timeout, a cancellation or a lost runner.
Cancel(r) ==
  /\ pc[r] \in Active
  /\ Finish(r, "cancelled")
  /\ UNCHANGED <<cache, clock, run>>

Step(r) ==
  \/ \E e \in cache : RestoreHit(r, e)
  \/ RestoreMiss(r)
  \/ InvalidateCold(r)
  \/ InvalidateWipe(r)
  \/ InvalidateByHash(r)
  \/ ForceExtraction(r)
  \/ \E f \in Files : MakeSkip(r, f) \/ MakeCompile(r, f) \/ MakeFail(r, f)
  \/ MakeDone(r)
  \/ Elaborate(r)
  \/ Smoke(r)
  \/ UpdatePalog(r)
  \/ AssembleAndAudit(r)
  \/ WriteManifest(r)
  \/ Save(r)
  \/ Link(r)

Next ==
  \E r \in Runs :
     \/ \E job \in Jobs, event \in Events, t \in Trees : Checkout(r, job, event, t)
     \/ Step(r)
     \/ Cancel(r)

Spec == Init /\ [][Next]_vars

\* A runner executes its steps one after the other; nothing obliges anyone to
\* start a run or to cancel one.
FairSpec == Spec /\ \A r \in Runs : WF_vars(Step(r))

-----------------------------------------------------------------------------
(* Properties.                                                             *)

\* Every Require of a listed file names a listed file.
Closed(t) == \A f \in t.listed : Req(t.text[f]) \subseteq t.listed

AfterMake == {"elaborate", "smoke", "palog", "audit", "manifest", "save", "link"}

\* The .vo of f is what a build of tree t from clean makes of it: compiled
\* from sources that still have their digest, under the tree's flags and
\* image, and against everything its requirements were compiled against.
Fresh(w, t, f) ==
  /\ w.vo[f] # Absent
  /\ w.vo[f].flags = t.flags
  /\ w.vo[f].image = t.image
  /\ w.vo[f].closure[f] # Absent
  /\ \A h \in Mentioned(w.vo[f].closure) :
        /\ h \in t.listed
        /\ t.text[h] # Absent
        /\ Digest[w.vo[f].closure[h]] = Digest[t.text[h]]
  /\ \A g \in Req(t.text[f]) :
        /\ w.vo[g] # Absent
        /\ Mentioned(w.vo[g].closure) \subseteq Mentioned(w.vo[f].closure)

\* What the cache is for: once make is done in a run on a closed tree, every
\* project file's .vo is the one a clean build would give, whichever entry
\* the run restored and however old it was (ci_invalidate_stale_vo.py, "makes
\* GNU make's mtime-based rebuild decisions SOUND against that cache").
FreshBuild ==
  \A r \in Runs : pc[r] \in AfterMake /\ Closed(run[r].tree) =>
     \A f \in run[r].tree.listed : Fresh(ws[r], run[r].tree, f)

\* Guardrail 4 under incrementality (ci.yml): when the audit has passed, the
\* chunk of every project file was printed by the compile of the .vo that is
\* there, and the axioms of every file that is not exempt are allowed by
\* this tree's allowlist, also when only the allowlist changed.
AuditCurrent ==
  \A r \in Runs : pc[r] \in {"manifest", "save"} =>
     LET t == run[r].tree IN
     \A f \in t.listed :
        /\ ws[r].vo[f] # Absent
        /\ ws[r].palog[f] = AxiomsOf(ws[r].vo[f])
        /\ f \notin t.exempt => AxiomsOf(ws[r].vo[f]) \subseteq t.allowed

\* f was compiled after, and against, everything it requires that has a .vo;
\* a closure has no other member unless a requirement has lost its .vo.
Coherent(vo, f) ==
  LET reqs == Req(vo[f].closure[f])
  IN /\ \A g \in reqs : vo[g] # Absent =>
           \A h \in Mentioned(vo[g].closure) \ {f} :
              vo[f].closure[h] = vo[g].closure[h]
     /\ \A h \in Mentioned(vo[f].closure) \ {f} :
           \E g \in reqs : vo[g] = Absent \/ h \in Mentioned(vo[g].closure)

\* An entry is one snapshot: the manifest, the .vo files and the chunks name
\* the same files, each .vo was compiled from the text, flags and image on
\* record, and each chunk is the audit output of that compile.
Sealed(e) ==
  \A f \in Files :
     /\ e.vo[f] = Absent <=> e.manifest.files[f] = Absent
     /\ e.vo[f] = Absent <=> e.palog[f] = Absent
     /\ e.vo[f] # Absent =>
          /\ e.vo[f].closure[f] # Absent
          /\ e.manifest.files[f] = Digest[e.vo[f].closure[f]]
          /\ e.vo[f].flags = e.manifest.flags
          /\ e.vo[f].image = e.key
          /\ e.palog[f] = AxiomsOf(e.vo[f])
          /\ Coherent(e.vo, f)

\* Every entry any run can restore is sealed (ci_write_vo_manifest.py, "the
\* manifest never blesses artefacts that did not pass the gauntlet"; and
\* build-oracle.yml on why it must not save).
CacheSealed == \A e \in cache : Sealed(e)

\* The integrity anchor (ci.yml): a run outside pull requests compiles every
\* project file itself, so nothing it saves or publishes is inherited.
MainFromClean ==
  \A r \in Runs :
     pc[r] \in AfterMake /\ run[r].event = "main" =>
        ws[r].log = run[r].tree.listed

\* f itself or something it is compiled against is new or has another
\* digest than the restored manifest recorded.
Affected(w, t, f) ==
  \E h \in Mentioned(w.vo[f].closure) :
     t.text[h] # Absent => w.manifest.files[h] # Digest[t.text[h]]

\* "make rebuilds exactly the changed files plus their dependents" (ci.yml):
\* a run that kept a manifest compiles no file all of whose closure is as
\* recorded, except in build-oracle the extraction leaf it touches (and what
\* would require that leaf).
MinimalRebuild ==
  \A r \in Runs :
     pc[r] \in {"make"} \cup (AfterMake \ {"save"}) /\ ws[r].manifest # Absent =>
        \A f \in ws[r].log :
           \/ Affected(ws[r], run[r].tree, f)
           \/ /\ run[r].job = "build-oracle"
              /\ ExtractFile \in Mentioned(ws[r].vo[f].closure)

\* A run that is started gets a verdict: no step of the job waits for ever,
\* whatever the tree (timeout-minutes ends a run that hangs).
EveryRunEnds == \A r \in Runs : pc[r] # "idle" ~> pc[r] = "done"

\* The gauntlet as its users see it, without any cache.
Clean == INSTANCE Gauntlet
           WITH asked <- [r \in Runs |-> IF run[r] = Absent THEN Absent
                             ELSE [job |-> run[r].job, tree |-> run[r].tree]],
                verdict <- verdict

\* On closed trees a run with the cache gives the verdict a build from clean
\* gives: no false green and no false red.
ImplementsGauntlet == Clean!Spec

\* The same claim for every tree a developer can push (the header of
\* ci_invalidate_stale_vo.py makes no exception).
PassIsCleanPass ==
  \A r \in Runs : verdict[r] = "pass" =>
     Clean!CleanPass(run[r].job, run[r].tree)
=============================================================================
