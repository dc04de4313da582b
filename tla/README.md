# A TLA+ verification of NetTopologySuite.Proofs

The repository is a Rocq development with a program around it: a CI pipeline
that compiles, audits and caches the corpus, an oracle binary and a shared
library extracted from it, a CAD extractor, and registries that guard what is
claimed. The theorems are Rocq's business. This directory specifies the
program around them.

Run TLC with `tlc -config X.cfg M` and the proofs with `tlapm M.tla`.

## 1. Inventory

| | component | state it keeps | operations | interacts with |
|---|---|---|---|---|
| A | Incremental corpus cache and gauntlet: `ci.yml` job `rocq-flocq`, `build-oracle.yml`, `scripts/ci_*`, `audit_axioms.sh`, `hunt_probe_smoke.sh`, `check_claim_statements.py --elaborate` | cache entries (.vo files, `.palog` chunks, `.vo-manifest`, under a key); one workspace per run with mtimes, build log | restore, invalidate, touch, make, elaborate, smoke, update chunks, audit, write manifest, save, link, cancel | runs meet in the cache only; a PR branch is the tree a run checks out |
| A2 | Content hash of a source, `ci_vo_hash.py` | none | strip comments, normalise, digest; hash the flag lines | called by the writer and by the invalidator of A |
| A3 | Stdlib-only lane: job `rocq`, `scripts/theories_changed.sh` | a second cache and manifest, keyed by the Rocq version | restore, invalidate, make with one retry, write, save | same scripts as A |
| B | FFI boundary: `nts_ffi_stubs.c`, `nts_ffi.ml`, the C#, Java and C++ bindings, `ffi_probe.c` | `nts_rocq_started`, the OCaml runtime, the gates, the state of the class, availability | load, init, ABI check, predicate calls, array calls | threads of the consumer; the loader; the extracted kernel |
| C | CAD extractor, `tools/cad/dxf_extract.py` | the stack of block references, the rows, the output file | parse options, walk entities and INSERTs, place, map, decline, write | ezdxf; a JSONL consumer |
| D | Oracle protocol, `oracle/driver.ml` | a process that reads requests and writes replies | mode dispatch, SIMPLIFY ends the process | clients over two pipes |
| E | Noding bag, `theories/SheetHenBag*.v` | a bag of pieces with provenance | intake, progress or decline, run | a proved specification, not a process |
| F | Guards, registries and the dashboard: `make ci-guards`, `gen_dashboard.py` | committed registries of claims, debt, counts; the committed page | scan, compare, fail; render; compare freshness | gate of A and A3 (`needs: guards`), of every merge, and source of the page of G |
| G | Publishing: `pages.yml`, `laser-ratchet.yml`, `vendor_laser_ratchet.py` | main, the published page, an open PR | fetch, apply, rebase and push or open a PR, dispatch, deploy | pushes by others |
| H | The corpus, generators, fixtures, packaging | none at run time | | |
| I | Scouts of JTS's orientation and in-circle filters: `oracle/gen_jts{1093,1094,1212,311}_*.py` | a table and a verdict | pin the oracle, ask it for every vector, hold the filters against it, write | the oracle binary, an FFI probe |

What is hard, and what makes each correct:

* **A.** Every run builds from files it did not make, by mtimes it has
  rewritten; its audit reads output printed by other runs; runs interleave and
  can be cancelled at every step. Correct means: an incremental build is the
  clean build, the audit speaks of what is there, an entry is one snapshot,
  main inherits nothing, and nothing is rebuilt without a reason.
* **A2.** A regex stands in for a lexer. Correct means: equal hashes, equal
  code.
* **A3.** As A, but nothing audits the result, and the key names less.
* **B.** A runtime that must be started once, by one thread, and not called by
  two. Correct means: no call before the start or beside another, and
  an answer is what the predicate computed, or the library lacks it.
* **C.** Recursion over a graph of blocks that may be cyclic. Correct means:
  it ends, and every entity gives rows or a reason.
* **D.** One reply per request, in order, over pipes that buffer. Correct means: a
  client never takes one request's reply for another's.
* **E.** Termination and provenance of a split that makes more pieces.
* **F.** Guards judge one tree, the merge of a branch into the tip of the moment;
  main moves after the check. Correct means: what main violates, no check had
  seen, and a page called fresh is current.
* **G.** A push that triggers nothing, a rebase that can stop half way, and a
  concurrency group that cancels. Correct means: feed and page never go back,
  and catch up with what main holds.
* **I.** Rounded filters are judged by an oracle that may be missing, wrong, or
  rounded itself. Correct means: CERTAIN is the true sign, green means true
  signs, and an honest oracle is never blamed.

`PROJECT.json` lists the hazards line by line.

## 2. The modules

| module | what it is |
|---|---|
| `CorpusCache` | component A: the state machine, its properties, the refinement mapping |
| `Gauntlet` | the abstract specification: a verdict on a tree is that of a build from clean |
| `CorpusCacheInv`, `CorpusCacheProofs` | its inductive invariant, by named parts, and the theorems |
| `GauntletInv`, `GauntletProofs` | what the invariant needs besides for minimal rebuilds and for the refinement of `Gauntlet` |
| `MCCorpusCache` | a corpus of three files and 15 trees for TLC |
| `VoHash` | component A2: the hash beside the Rocq lexer |
| `VoHashProofs`, `Recursion` | what is proved of the hash; induction and recursion over the natural numbers |
| `FfiRuntime` | component B: threads of a process that use one of the bindings |
| `SerialKernel` | the abstract specification: a runtime started once, one thread in it |
| `FfiRuntimeProofs` | the inductive invariant of `FfiRuntime` and the theorems |
| `DxfGeometry` | component C, the pure half: what one entity maps to |
| `DxfExtract` | component C: options, the walk, placement, the writer; the rows owed, without a walk |
| `DxfExtractInv`, `DxfExtractProofs` | its inductive invariant and the theorems |
| `Guards` | component F: the Python guards as predicates of a tree |
| `Dashboard` | component F: the page as a function of a tree |
| `Mainline` | components F and G composed: merges, the vendor job, the page runs |
| `MainlineInv`, `MainlineProofs` | its inductive invariant and the theorems |
| `ScoutFilters` | component I, the pure half: rounded arithmetic, filters, banks |
| `Scouts` | component I: a run of one scout against any oracle |
| `ScoutsProofs` | when a filter is right to be certain, and what a green run means |
| `MCFfiRuntime`, `MCDxfExtract`, `MCMainline`, `MCScouts` | their instances for TLC |

### CorpusCache and the code

One action per step of the job, in the order of the YAML. `pc[r]` is the step
run r is about to take; a failing step ends the job (`Finish`), as `set -e`
and the runner do.

| action | code |
|---|---|
| `Checkout` | a job starts on a tree: `rocq-flocq` or `build-oracle`, for a pull request or for main (push, release, dispatch) |
| `RestoreHit`, `RestoreMiss` | `actions/cache/restore` with `restore-keys`: any entry with the key's prefix may be the newest one in scope, and any may have been evicted |
| `InvalidateCold`, `InvalidateWipe`, `InvalidateByHash` | the three ways through `ci_invalidate_stale_vo.py` |
| `ForceExtraction` | the `touch` of build-oracle |
| `MakeSkip`, `MakeCompile`, `MakeFail`, `MakeDone` | GNU make on one target: up to date, recompiled, an error or a missing rule; then all done |
| `Elaborate`, `Smoke` | the two gates that load the .vo files just built |
| `UpdatePalog`, `AssembleAndAudit` | chunks of this run's compiles replace the old ones; the audit reads the chunks of every listed file |
| `WriteManifest`, `Save` | the manifest, then the entry; the save may store nothing (the key of a re-run exists, the service fails) and still succeed |
| `Link` | build-oracle has `extracted.ml` only if the extraction leaf was compiled in this run |
| `Cancel` | timeout, cancellation, lost runner, at any step |

Data is abstract. A **text** stands for the content of a .v file; constants give
its digest, what it requires, which axioms it uses and which texts it does not
compile against. A **.vo** records the text of every file it was compiled against,
directly or not, with flags, image and mtime. Loading one needs each of those
files still to be the one it was compiled against, which is how Rocq's library
digests behave. A **tree** holds texts, the list of `_CoqProject.full`, flags,
the Dockerfile, and the policy files the gates read: the allowlist, the audit
exceptions, the axioms pinned in `check_claim_statements.py` and the pinned
statements. The flag hash is taken for the flags: it is a sha256 of the lines
verbatim. The digest of a source is not taken for the source.

Merged into a neighbouring step: aging and touching, one pass over the sources;
`-j` of make, whose interleavings are the orders in which ready targets are
taken (a compile reads prerequisites that are finished and writes its own .vo).
Left out: pulling and publishing the image, `chmod`/`chown`, `.glob` and `.aux`
files (they live and die with the .vo), uploading `oracle_bin`.

### VoHash and the code

`Matching`, `Kept`, `Normal` are `re.sub` and the line normalisation of
`source_sha256`; `Lexing`, `Code` are what the Rocq lexer makes of comments
(nested) and strings (inside comments too). `Scan` and `Lex` are what one
character does to each; `Matching` and `Lexing` run them along the source. The
state grows a source one character at a time, so the reachable states are all
sources up to `MaxLen`, or `MaxSolid` where they have no blanks; the
properties look at all one-character edits of each.

### FfiRuntime and the code

A thread is in one of the places a call passes through (`pc`). `Begin` is the
first use of the class or a later call: a class that is being initialised makes
other callers wait (so do the JVM, the CLR and a C++ function-local static).
`Load` resolves the library and its symbols, `CheckStarted`, `Booted`,
`MarkStarted` are `nts_rocq_init` (test the flag, `caml_startup`, set the
flag), `Abi` compares versions. A call takes the gate (`Acquire`), asks whether the
library is there (`Require`), enters the stub (`EnterStub`, then
`CheckStarted` again), looks the callback up and runs the extracted function
(`Callback`), reads the result (`Read`) and gives the gate back (`Release`). One
module for three bindings, because they differ in guards: which symbols are checked at
load, what a missing one does, which methods call `Require()`, and that `abiVersion`
takes no gate. `Libraries` is what the loader may find: does it load, which ABI,
which symbols, and which callbacks its OCaml half registers.

A stub that finds no callback answers -9999 or NaN without running OCaml, and most methods
hand that on: as an enum, as the double, or as a false. Only those in `Throwing`
take it for an error. So a caller can get a **sentinel** for an answer.
`AnswersAreComputed`, a part of `TypeOK`, says when: only if the library registers no
callback of that name; and a value is always what that predicate's own callback
computed.

### DxfExtract and the code

The recursion of `emit` is a stack of calls, `todo`; one action per way a call can
go: `DeclineUnits`, `DeclineInsert` (tilted, degenerate, not a similarity, cyclic),
`UndefinedBlock`, `EmptyBlock`, `Expand`, `Leaf`. `Refuse` and `Read` are the options
and the file; `Open`, `WriteRow`, `Close` the output, opened after the walk.
`DxfGeometry` has one operator per branch of `_map_geometry`. Coordinates are
small integers, so "within 1e-9" is equality; `NonFinite` is NaN and the
infinities; angles are quarter turns.

ezdxf finds a block by a key that folds the case of its name (`BlockKey`, `BlockOf`);
the stack, the cycle test and the block path have the name as the INSERT spells it. So
INSERT `a` in block `A` is expanded, once more for each spelling, and
`NestingIsBounded` is about names: no path has one twice, and none is longer than
the document has spellings of them. The same block can be on a path twice.

`Occurrences` says, without walking, which entities are owed a row. `Drawn` and
`DrawnHeight` say where the DXF reference has a point of an entity, in plan and in
height, and are not taken from the code: a type that is stored in its OCS
(`OcsTypes`) comes out of it, LINE, ELLIPSE and SPLINE are stored in the coordinates around
them, and an INSERT subtracts the base of its block, scales by three scales,
turns, and puts the result at its insertion point in its own OCS. The code reads less, so
`PlacedAsDrawn` has two conditions, and outside of them it is false:

| condition | the code |
|---|---|
| `Upright`: INSERTs do not mirror in y alone | has the link of a mirror in x (run `dxf_mirror`; 303) |
| `Upright`: INSERTs are +Z | puts the reflection before the INSERT's own link (839-841) |
| `Upright`: blocks are based at x = y = 0; `Level`: at z = 0 | does not read the base point |
| `Upright`: LINE, ELLIPSE and SPLINE are +Z | reflects whatever is -Z (845, 861) |
| `Level`: zscale is 1 around whatever has a height | adds INSERT heights up (842-843, 862) |
| `Level`: -Z entities are at height 0 | does not negate their z (862) |
| `Level`: a POLYLINE is at height 0 | answers elevation 0 (529) |
| `Level`: the major axis of an ELLIPSE is level | compares its z, an offset, with that of the centre (743) |

All but the last are needed on the documents of `dxf`: without any one of them TLC finds a
record that is misplaced.

Kept as the code has them, although a reader may wonder:
MINSERT grids and attributes of an INSERT are not read; an INSERT of
an undefined block raises, and the rows so far are lost; hatch edges are not
checked for contiguity; a closed polyline whose chords enclose no area is
declined in lenient mode and recorded in strict mode.

### Guards, Dashboard, Mainline and the code

A tree is a set of lines, each with the kind of file it stands in and the fields
that a guard or the page reads there; scanning text is abstracted to those
fields. `Guards` has one operator per script of `make ci-guards` that is in
Python, and `GuardsPass` is their conjunction in the order of the Makefile.
`Dashboard!Build` is `gen_dashboard.build` and what `render` takes from it.

`Mainline` changes the tree by hunks, which git applies where the old lines
stand or the new ones do already.

| action | code |
|---|---|
| `Open`, `Update`, `Check`, `Merge` | an author proposes a commit, with or without a regenerated page; `ci.yml` judges the merge into the tip of the moment; a green check is enough to merge later |
| `Publish`, `Request` | upstream commits a feed and dispatches; a person runs the workflow by hand |
| `Checkout`, `Fetch`, `Pull`, `Push`, `Refused`, `DispatchPages` | the steps of `laser-ratchet.yml` with `vendor_laser_ratchet.py`: validate, compare, rebase (which drops the commit if the branch has the feed by now), push, or branch and pull request (which may be refused after the branch is there), then start `pages.yml` by name |
| `Deploy` | a run of `pages.yml`, cancelled by the next one (`Trigger`) |
| `Fresh` | `gen_dashboard.py --check-freshness` |

What the code does and the model keeps: the registers of debt are compared with the
tree and not with the base; a module on the split allowlist
whose metric falls below the gate fails as stale, so that dropping an import elsewhere
can fail a build, although the header of `check_module_split.py` says that a
listed module is not gated on its metric; an ADR with several status words
has the first in the order of `STATUSES`; the claim ids of the SQL/MM tokens are
looked up as substrings; a slack of 0 is read as 1.15; a pull request opened by
`GITHUB_TOKEN` gets no CI run until a person acts; the page is published from a red
main as well.

### Scouts and the code

`Pinned*` is the pin that every scout asks first, `Row*` one turn of its loop,
`Finish` the table and the verdict. Binary64 is a format of six bits with
round-to-nearest-even, in which `ScoutFilters` computes every operation in the order of
the code and with the constants of the code in terms of u; a filter's claim
is then as near to being wrong as the real one is. Banks keep the kinds of
pins; their open vectors are replaced by sites whose products need
rounding in six bits. The oracle's reply is any of: its own algorithm, either
sign, a tiny value, NaN, an unknown word, an error, something unparsable.
`honest` is a history variable.

As the code has it: #311 looks at a reply only when it is a sign, so a pinned vector
answered NAN passes there; an exception in the middle of a bank is not caught
by the other three and leaves the table of an earlier run; #1093 goes on without a
probe that fails its pin; a red run overwrites the committed table; the in-circle
oracle, called ground truth, is rounded itself.

## 3. What is checked

| run | instance | shows |
|---|---|---|
| `core` | 15 trees, two runs in sequence, both jobs and events; 152 000 states | `TypeOK`, `GInv`, `FreshBuild`, `AuditCurrent`, `CacheSealed`, `MainFromClean`, `MinimalRebuild`; on trees closed under Require, `ImplementsGauntlet`: verdicts are those of clean builds |
| `concurrent` | 5 trees, two runs interleaved; 145 709 states | the same safety under interleaving and cancellation (`FreshBuild`, `CacheSealed`, `MinimalRebuild`), and `EveryRunEnds` |
| `history` | 5 trees, three runs in sequence; 601 254 states | an entry made from an entry; a file that goes and returns |
| `dangling` | 3 trees | **violated**: `PassIsCleanPass` on a tree that lost a required file |
| `hash` | all sources over `( * )`, space, newline of up to 6 characters, without blanks up to 8; 28 279 states | `NeverEatsCode`, `EditIsSeen` |
| `hash_string` | with the quote | **violated**: `NeverEatsCode` |
| `hash_nested` | all edits, well formed or not | **violated**: `NeverASkippedRebuild` |
| `ffi` | two threads, two calls each, three bindings, 12 libraries: wrong ABI, a symbol missing, a callback missing; 90 230 states | `TypeOK`, `RuntimeExclusive`, `CrashOnlyOnUncheckedSymbol`, `AnswersOnlyFromItsAbi`, `ImplementsSerialKernel`, `EveryCallEnds` |
| `dxf` | every graph of two blocks with at most two entities each, also with a name in two spellings, with heights, base points and undersides; every single entity over small fields, both modes, every option; 422 228 states | `TypeOK`, `EveryEntityAnswered`, `NestingIsBounded`, `PlacedAsDrawn`, `RecordsValid`, `OutputIsWhole` |
| `dxf_mirror` | the same graphs with INSERTs that mirror in y | **violated**: `PlacementIsDxf` |
| `mainline` | three edits, two feeds, three merges; 72 228 states | `TypeOK`, `FreshMeansCurrent`, `RedOnlyUnseen`, `FeedOnlyForward`, `FeedArrives`, `PageNeverGoesBack`, `PageCatchesUp` |
| `scouts` | four scouts, banks with near-degenerate sites, any oracle; 25 795 states | `TypeOK`, `CertainIsExact`, `HonestOracleIsNotBlamed`, `GreenMeansTrue` |

Bounds: `Runs` and `MaxActive` (runs, and runs in progress together), the trees
of the instance. Three files are enough for a chain A, B, X with a
middle file that can change, vanish, or leave the list; two runs are enough for one
to save and one to restore, three for an entry whose .vo are partly two
runs old. The invariant that the proofs use speaks of one entry and one
run at a time, which is why more of either adds nothing new; the proofs hold for
any number. The instance has a broken edit (compiles no more), a repaired one,
a comment edit (same digest), an axiom edit under each policy, a flag
edit, an image edit, a removal, a removal with a flag edit, a dangling removal,
an unlisted prerequisite and a listed file that is not committed.

Further bounds. `MaxLen`, `MaxSolid`: a comment in a comment takes eight
characters, and blanks matter to the normalisation, which short sources show.
`MaxCalls = 2` and two threads: one thread initialises while the other
waits, and each then calls beside the other; the theorems hold for any
number. `MaxMerges = 3` and `MaxProposed = 2`: two proposals that are each green and
together red, and a vendor run on either side of them; `Protected` is FALSE,
because a refused push (the tip moved) takes the same path. The three edits are two
that break a module limit together, one of which also moves the page without
regenerating it, and one that retires what the other cites; the feeds are good,
unreadable, and accepted without having a rendering. Two blocks are enough for a
cycle and for a block reached twice, and two spellings of one name for a block inside
itself; the walk treats each call alone.
`Precision = 6` is the smallest format in which every filter is CERTAIN
of something; with five bits the bound of #311, whose epsilon is twice the unit, is all of
the permanent. `Followers` bounds what comes after
a pin, since rows share nothing but `failed`.

The runs are started from outside and end, so the model may stop:
`CHECK_DEADLOCK FALSE`. That no job hangs is `EveryRunEnds`. Its fairness is
weak fairness of `Step(r)`: a runner executes the next step of a job it has
started. Nothing obliges anyone to start a run or to cancel one, and a compile
that loops is cut off by `timeout-minutes`, which is `Cancel`. The other models may
stop as well: threads make a bounded number of calls, authors need not
propose or merge, an extractor or a scout ends. `FfiRuntime` assumes weak
fairness of each thread's `Step`: the operating system runs a runnable thread, and
a gate is handed to someone; with two threads no one can be passed over for ever, since calls
are bounded. `Mainline` assumes weak fairness of `VendorRun` and `PageRun`: a started
job is run to its end, a queued one is started. Nothing obliges an author, or
upstream, to do anything.

### Where code and words differ

1. `dangling`. A file is removed while an unchanged file still requires it. The
   header of `ci_invalidate_stale_vo.py` says the script makes make's decisions
   sound against the cache. coqdep only warns about the missing library, so the
   user's cached .vo is kept and the pull request is green; the push to main,
   from clean, is red. `FreshBuild` and `ImplementsGauntlet` are stated for trees
   closed under Require, and hold there.
2. `hash_string`. "non-greedy: never eats code" does not hold of a string literal
   with comment delimiters in it.
3. `hash_nested`. "never a skipped one" does not hold of the edit from `(**)` to
   `(*(*)`: same hash, and the edit does not compile.

4. `dxf_mirror`. `_insert_link` gives an INSERT with `yscale = -1` the link of one with
   `xscale = -1`; the two differ by a half turn. The fixture mirrors in x only.
   `PlacedAsDrawn` holds for upright drawings; the table in section 2 has the other
   ways in which a drawing and its records part.

`DigestAssumption` (equal digests, interchangeable texts) is the premise on which
`CorpusCache` and its theorems rest. `EditIsSeen`, checked on short sources and proved
for every length, establishes it for sources without strings and edits of one
character between sources that are
`Balanced`: every comment is closed, and no `*)` stands in code. 2 and 3 say where
it stops, and two things more were met on the way. With a stray `*)`, which the
lexer reads as two tokens, `(*(**)*)` may become `(***)*)` under the same hash;
no source of the corpus has one. And an edit of several characters can remove a comment that
alone parts two tokens, as from `x(**)y` to `xy`: the regex puts nothing in the place of a
comment, so the hash is the same. For a corpus with
comment delimiters in string literals, with unbalanced comments, or edited in that
way the theorems say nothing about the files concerned.

## 4. What is proved

`CorpusCacheProofs`, for every corpus, any trees and any number of runs:

| theorem | statement |
|---|---|
| `Invariance` | `Spec => []IInv` |
| `TypeCorrect` | `Spec => []TypeOK` |
| `BuildsAreFresh` | `Spec => []FreshBuild` |
| `AuditsAreCurrent` | `Spec => []AuditCurrent` |
| `CacheIsSealed` | `Spec => []CacheSealed` |
| `MainBuildsFromClean` | `Spec => []MainFromClean` |
| `MakeNeverWaits` | `Spec => []MakeHasWork`: make has a target that is ready, or is done |
| `RunsOnlyGoForward` | `Spec => RunsGoForward`: a step takes one run further and leaves the others |

From the assumptions `ConstantsAssumption` (types), `AbsentAssumption` (Absent
is no text, digest, .vo, manifest or chunk) and `DigestAssumption`.

**Why an invariant.** `FreshBuild` says nothing of a run before make is done, nor
of the entry it restored. `IInv` says what the workspace has at each step.

* In the cache, an entry is `Sealed`: each .vo was compiled from the recorded text,
  its chunk is that compile's, and its closure agrees with the closures of what
  it requires (`Coherent`). No .vo is from the future.
* From the invalidation on (`WorkInv`), every .vo that is there is compiled by
  this run and stamped now, or restored and older than now (`VoInv`), and agrees
  with each requirement that make has not replaced since (`CoherentSoFar`:
  a requirement that has changed is younger, which is what make compares).
* A restored .vo that this run has not recompiled has a source whose mtime tells
  the truth: touched, or of the recorded digest (`KeptInv`).
* A target make has finished with is settled (`MadeInv`): its .vo is
  of the tree's digest and no requirement is younger. On a complete tree it is then
  compiled against this tree all the way down (`FreshInv`). That step is
  the heart of the proof: it is the induction that make runs along the
  dependency order, and it has no well-founded induction of its own, because
  `made` grows along it.

Each action has a lemma on one workspace (`SiftedInv`, `SkippedInv`, `CompiledInv`,
...), and `StepOf` lifts it to the whole state. `MainBuildsFromClean` uses a
second invariant, `MInv` of `CorpusCacheInv`: a run on main has nothing but what it
compiled.

`MakeNeverWaits` and `RunsOnlyGoForward` are what `EveryRunEnds` rests on apart from
fairness. A run takes its steps in one order, and in `make` has one finished target
more each time. It stalls nowhere: the guards of the other steps leave no case
out, and of the targets that are left the one in the lowest layer is ready, if the
requires of the tree form no circle (`Layered`; Rocq compiles no file in a circle).

`GauntletProofs`, from the same assumptions:

| theorem | statement |
|---|---|
| `CleanInvariance` | `Spec => []GInv` |
| `RebuildsAreMinimal` | `Spec => []MinimalRebuild` |
| `CachedRunsImplementGauntlet` | `Spec => ImplementsGauntlet`: every behaviour is one of `Gauntlet`, which builds each tree from clean |

`IInv` makes an incremental build sound; it does not say why make skips anything, nor why
a gate judges the cached .vo as it would a clean one. `GInv` adds, in the cache: no .vo clashes with
what it was compiled against (`Agrees`) and none is older than what it requires
(`InOrder`). In a run that goes by the manifest: a
recorded file has its .vo, an unchanged source is old unless
build-oracle touched it (`AgedInv`), and what has been compiled had a reason
(`LogInv`). So make finds an unaffected target up to date, and only the
touched extraction leaf and what requires it are rebuilt for nothing. Of a finished
target: it loads, and its closure is what a build from clean reaches from it
(`LoadedInv`); that is again carried along `made`. Of the gates: those a run has
passed would open again (`PassedInv`), which matters because the verdict is given at
the end. The mapping takes `Checkout` to the question, the end of a run to the
answer, and all else to a stutter.

`FfiRuntimeProofs`, for any threads, methods, libraries and number of calls, from
`ConstantsAssumption` (types; `None` is no thread):

| theorem | statement |
|---|---|
| `FfiTypeCorrect` | `Spec => []TypeOK` |
| `RuntimeIsExclusive` | `Spec => []RuntimeExclusive` |
| `CrashesAreExplained` | `Spec => []CrashOnlyOnUncheckedSymbol` |
| `AnswersAreFromItsAbi` | `Spec => []AnswersOnlyFromItsAbi` |
| `BindingsImplementSerialKernel` | `Spec => Kernel!Spec`, the refinement of `SerialKernel` |
| `GateIsNeverLost` | `Spec => []GateHeldInCall` |
| `NoThreadsWaitInCircle` | `Spec => []NoDeadlock` |
| `EveryStepIsNearer` | `Spec => TollFalls` |

`FfiTypeCorrect` has the content of `AnswersAreComputed`: what a callback is looked up by
is the method the thread is in, from `Callback` through `Read` to `Release`, whatever
the other threads do.

Exclusion is not inductive: before the class is ready it rests on there being one
initialiser, afterwards on the gate, and `abiVersion` takes no gate at all. `FInv`
has one part for each: while the class is being initialised only the initialiser is
past `idle` (`PhaseInv`); the runtime is booting or up exactly as far as the
initialiser has come (`BootInv`); once the class is ready and available the
runtime is up, the flag set and the checked symbols there (`ReadyInv`); whoever is
between `Acquire` and `Release` of a gated method holds the gate (`GateInv`). The
refinement follows: booting is `Start`, `Booted` is `Started`, entering the
callback `Call`, reading `Return`, every other step a stutter.

The last three are what `EveryCallEnds` rests on apart from fairness. `GateInv` says that
a gated call holds the gate; the converse, `GateHeldInCall`, says that whoever holds it is
in the middle of a call, and is inductive beside `FInv`: every way out of a
method goes through its release. So a thread that waits for the gate waits for one
that waits for nobody (`NoDeadlock`). `Toll` bounds the steps a thread has before it, 18
for each call; every step but a crash lowers it for its thread and leaves that of
the others.

`MainlineProofs`, for any tree, edits and feeds, and any `MaxMerges`:

| theorem | statement |
|---|---|
| `MainlineInvariant` | `Spec => []MInv` |
| `MainlineTypeCorrect` | `Spec => []TypeOK` |
| `FreshPagesAreCurrent` | `Spec => []FreshMeansCurrent` |
| `PagesNeverGoBack` | `Spec => PageNeverGoesBack` |
| `FeedsGoForward` | `Spec => FeedOnlyForward` |
| `RedOnlyByStaleCheck` | `Spec => RedOnlyUnseen` |
| `NoPageIsLost` | `Spec => []PageIsOnItsWay` |
| `NoFeedIsLost` | `Spec => []FeedIsOnItsWay` |

The assumptions say that the tree has one page, right for it, and one feed
(`BaseAssumption`), that authors' edits touch neither (`EditsAssumption`), and that
a feed names the tip it was served at or none (`FeedAssumption`). Each property is about
something read a while ago: a check of a tip that has moved, a
page rendered at an earlier commit, a feed compared with a checkout. `MInv` says how
much of each reading still holds: a branch's hunks are an edit, an edit
with a page that is right unless an input of the page has moved (`Repaged`,
`Unmoved`), or a newer feed (`Vendored`); a verdict of the current tip is
right (`PullInv`); the vendor run holds a feed newer than the one it
checked out (`VendorInv`), and a hunk that no longer fits is not applied;
there is one page run, not older than the page that is served (`PageRunInv`).

`NoPageIsLost` and `NoFeedIsLost` are the safety half of `PageCatchesUp` and
`FeedArrives`: where nothing is under way, nothing is owed. For the page: the one run in
progress carries the tip's page, because a merge that starts no run touches nothing
that the page is rendered from, and a push by the vendor run is followed by its dispatch.
For the feed: unless another run is queued, what the vendor run got is the newest
feed (`NewestInv`). A run that finds nothing to do compared it with a checkout; the branch
may have moved since, but never to an older feed (`NoNewerCheckout`), and nothing is
newer than the newest.

`DxfExtractProofs`, for any documents with finitely many blocks, cyclic or not, from
`InputsAssumption` (an entity has the fields that the code reads of its type, and
numbers, finite or not, where the walk computes; each block has a base point of whole
numbers) and `NonFiniteAssumption`, for any `BlockKey`:

| theorem | statement |
|---|---|
| `ExtractInvariant` | `Spec => []ExtractInv` |
| `ExtractTypeCorrect` | `Spec => []TypeOK` |
| `NoNameInsideItself` | `Spec => []NestingIsBounded` |
| `DepthIsBoundedByNames` | no path is longer than there are spellings of names in INSERTs |
| `RecordsAccepted` | `Spec => []RecordsValid` |
| `FilesAreWhole` | `Spec => []OutputIsWhole` |
| `AnswersFollow` | `Spec => [](ExtractInv /\ AnswerInv)` |
| `EntitiesAreAnswered` | `Spec => []EveryEntityAnswered` |
| `PlacementsAreDrawn` | `Spec => []PlacedAsDrawn` |

`RecordsValid` needs the walk: a row is finite because the link of every call above
it is (`CallInv`), and a figure sound because each branch of `_map_geometry` that
returns one has made sure (`Sound`, with a lemma per branch in `DxfGeometry`'s
terms). `FileInv` ties the lines to the rows in each phase.

`EveryEntityAnswered` and `PlacedAsDrawn` compare the rows with the set of all occurrences, which is
built level by level and knows no stack. `AnswerInv` puts the two side by side:
there are occurrences `a`, one for each row, and `p`, one for each call to make, all in
reading order, such that row i answers a[i] (`Answers`), call j is the call for p[j]
(`Visits`: entity, handle, block path, height, and the links of the INSERTs around it),
and whatever is owed is among `a` or lies at or below one of `p`. A row moves p[1] to `a`;
`Expand` puts the children of p[1] in its place, and what is below p[1] and owed is below a
child (`BelowChild`). Once no call is left, the rows are all that is owed. The properties count
where the invariant lists; `AnsweredFirst` says that the i-th of `a` is the one with i - 1
earlier ones. That the links put a point where the drawing has it is an induction
along the INSERTs (`LinksPlace`), over `InsertedIsLinked`: one INSERT is one link, because
the scales differ in sign only and two negative ones are a half turn. That the
elevation is the height is another (`LevelPlaces`): the drawing works outwards from the
entity and the code inwards from the modelspace, and in between the height reached from inside and
the sum of the INSERTs still outside make the same total; an INSERT whose zscale is not 1
has everything inside it at height 0.

`ScoutsProofs`, for any open vectors of whole coordinates (`LineSitesAssumption`,
`CircleSitesAssumption`), any oracle and any probe:

| theorem | statement |
|---|---|
| `ScoutsInvariant` | `Spec => []SInv` |
| `ScoutsTypeCorrect` | `Spec => []TypeOK` |
| `FiltersAreExact` | `Spec => []CertainIsExact` |
| `GreenRunsAreTrue` | `Spec => []GreenMeansTrue` |
| `OrientationOracleIsNotBlamed` | `Spec => [](script = "1093" => HonestOracleIsNotBlamed)` |

While nothing has failed, each row of the table agrees with the pin and with the filters
(`SInv`, `VerdictInv`), and every pinned sign in the banks is the true one
(`BanksAreWellPinned`, computed by the prover).

That CERTAIN is exact is what the filters' error bounds are for, and is an error
analysis of the whole Stage A. One rounding moves a number n by at most |n|/65, and by
at most 1/64 of the result (`RoundedIsNear`; by induction along `Ulp`, a number
above 63 has six bits). Two differences and their product make `Thrice`: off by at most
12481/262144 of the computed product, which never changes its sign, so that products
of different signs cannot cancel (`MixedIsCertain`: the early return of `_detsum_certain`, and
what saves Ozaki's smaller bound). Where they have one sign, a
determinant that reaches the bound is larger than what both products may be off
(`LargeIsCertain`). The bound is itself rounded three times; 205/4096 still suffices, and
the code has 208/4096, that is (3 + 16u)u. For the in-circle filters the same is done
with lifts (`LiftIsClose`) and terms (`TermIsClose`): the determinant before its last
sum is off by at most 0.162 of the true permanent, and (10 + 96u)u of the computed
permanent, which loses up to four roundings, is at least 0.1637 of it
(`ReachedIsCertain`). So neither constant of the code leaves much room in this format.
Both are of the form (a + bu)u, and six bits are where the terms in u^2 weigh most;
the theorem is about this format and not about binary64, whose own analysis is
Shewchuk's and Ozaki's.

`VoHashProofs`, for sources of any length without string literals:

| theorem | statement |
|---|---|
| `NothingReadIsEaten` | `"quote" \notin Alphabet` implies `Spec => []NeverEatsCode` |
| `EditOfCodeIsSeen` | `"quote" \notin Alphabet` implies `Spec => []EditIsSeen` |

The regex and the lexer go along the source together, and inside a match the lexer
is inside a comment: it enters one where the match starts and leaves it no
earlier than at the first `*)`. `Matching` and `Lexing` are recursive functions; that they
satisfy their equations, and the induction along the source, is `Recursion`, which draws
both from the least element of a set of numbers (`WFMin` of the library, stated
of a set and not of an operator).

`EditOfCodeIsSeen` follows both scans along two sources, `t` and `u`, that differ in one
character. Two scans in the same state before the same text stay together (`SameSuffix`,
`MatchSuffix`), so what matters is how they come together behind the edit.

* After a replacement the lexers do, at the latest two characters on (`HalfAgain`), and no
  other position is read differently, with two exceptions: a comment
  that opens one character earlier (`((*` to `(**`) or closes one earlier (`**)` to
  `*))`). The first takes a `(` with it; the second gives the `)` back as code,
  unless the regex had left the nested comment before, and then nothing changes for it. So
  (`PutCases`) the code changes nowhere, or what the regex keeps is changed in one
  character, or one of the two texts has one more, which is not a blank.
* For a deletion it makes no difference which character of a run is the one taken out;
  of `(` the first, of others the last leaves both scans in the state they would have been
  in (`DeleteReadsAlike`, `DeleteCases`).
* Both reduce to the same question about `Normal`, which is asked of the texts the regex
  leaves (`SelectEdit` carries the edit over): another character, other than a
  blank, is another text (`NormalPut`); one fewer is a shorter one, and so is a blank
  fewer where it alone parts two characters (`NormalDelete`, which counts the positions
  that are kept, a space as part of a line, a newline between lines).
* What is left are edits that change blanks, or comments, beside other blanks or
  comments, and `Code` marks a gap of any width alike (`SameCodePut`,
  `SameCodeDelete`).

That the sources are `Balanced` is used where a stray `*)`, or a comment that nothing
closes, would let the scans part for good; section 3 has an edit of each kind that goes
unseen. String literals are outside the theorem because there the regex
and the lexer disagree about what a comment is (`hash_string`).

TLC agrees with the invariants: `GInv` is checked by `core`; `MInv` and `ExtractInv`
are visible from the MC modules and can be named as INVARIANT beside the
properties of their runs, which adds no states.

**Model-checked only.**

* Liveness: `EveryRunEnds`, `EveryCallEnds`, `FeedArrives`, `PageCatchesUp`; TLAPS has
  no rules for ENABLED here. What they rest on apart from fairness is proved: no
  run and no call loops or stalls (`RunsOnlyGoForward`, `MakeNeverWaits`,
  `EveryStepIsNearer`, `NoThreadsWaitInCircle`), no page and no feed is lost
  (`NoPageIsLost`, `NoFeedIsLost`).
* `HonestOracleIsNotBlamed` for the in-circle scouts: their oracle is itself rounded, and
  where a filter only just becomes certain nothing bounds the oracle's error below the
  determinant. It is a fact of the vectors asked, checked on the banks.

**Assumed by the model.** The wall clock is later at each invalidation than at all
earlier ones, on whichever runner: cached mtimes lie in the past. The image is
a function of the Dockerfile (Dockerfile:6-7 says so, although `opam update`,
Dockerfile:30, makes it depend on the day). In `Mainline`: a pull request is one
commit and is merged on a green check (branch protection, which is not in the
repository); the author regenerates the page last; two additions never
conflict; cancelling a page run takes effect at once; runners do not fail, nor does a
`git pull` or `git push` for want of a network, nor the dispatch call (a failed dispatch leaves
the page stale until the next push: a second run is a no-op and dispatches nothing). A
fetch may fail, and so may the creation of a pull request, which leaves its
branch behind. In `FfiRuntime`: a predicate returns, and callers go through a binding.

## 5. Plan

Built so far: A, A2, B without arrays, C, F without its shell scripts, G, I. Next:

1. `TheoriesLane` (A3): the same invalidator with a second manifest, two images
   under one key, a retried make and a clock skew between runners;
   `CorpusCache`'s operators are to be shared, not copied.
2. `FfiArrays` (B): the return codes of the variable-length entry points over all
   small lengths and caps.
3. `OracleProtocol` (D): a pipelining client, the request loop, an exception in
   the middle of a request.
4. `BagRun` (E), as far as it has steps.

## 6. Not modelled

* A3, D, E and the array entry points of B: not yet; section 5. The hazards that belong
  to them are in `PROJECT.json` without a property.
* F: the guards in shell (`check_admitted.sh`, `check_oracle_handrolled.sh`,
  `check_md_prose_ratchet.sh`, `check_deferred_registry_sync.sh`, `validate-claims.sh`,
  `check_readme_axioms.sh`), which are scans of text; `hunt.py`, `gen_constants.py`,
  `check_jts_nts_equiv.py`; the layout of the page.
* H: the proof corpus (`theories/`, `theories-flocq/`) and the numeric kernels of the
  oracle, real and binary64 arithmetic, proved in Rocq or checked against exact
  rationals; `scripts/b64gen`, which writes proofs from interval arithmetic;
  fixtures and packaging. No state, or pure I/O.
