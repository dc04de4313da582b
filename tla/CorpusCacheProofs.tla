-------------------------- MODULE CorpusCacheProofs --------------------------
(***************************************************************************)
(* Proofs about CorpusCache, for every corpus, every set of trees and any  *)
(* number of runs.                                                         *)
(***************************************************************************)
EXTENDS CorpusCacheInv, WellFoundedInduction, TLAPS

-----------------------------------------------------------------------------
(* Types.                                                                  *)

\* The workspace a runner starts with is a workspace.
LEMMA EmptyType ==
  ASSUME NEW n \in Nat
  PROVE  EmptyWorkspace(n) \in Workspace
  BY DEF EmptyWorkspace, Workspace, Artefacts, Palog

\* A text requires project files only.
LEMMA ReqType ==
  ASSUME NEW x \in Texts \cup {Absent}
  PROVE  Req(x) \subseteq Files
  BY ConstantsAssumption DEF Req

\* The axioms a .vo reaches are axiom names.
LEMMA AxiomsType ==
  ASSUME NEW v \in Vo
  PROVE  AxiomsOf(v) \in SUBSET AxiomNames
<1>1. \A h \in Mentioned(v.closure) : v.closure[h] \in Texts
  BY DEF Vo, Closure, Mentioned
<1>2. \A h \in Mentioned(v.closure) : AxiomsIn[v.closure[h]] \subseteq AxiomNames
  BY <1>1, ConstantsAssumption
<1>3. QED
  BY <1>2 DEF AxiomsOf

\* A compile that succeeds has a text for every file it loads.
LEMMA NewClosureType ==
  ASSUME NEW w \in Workspace, NEW t \in Tree, NEW f \in Files,
         Compiles(w, t, f)
  PROVE  NewClosure(w, t, f) \in Closure
<1>1. t.text[f] \in Texts \cup {Absent}
  BY DEF Tree, Closure
<1> SUFFICES ASSUME NEW h \in Files, h # f,
                    NEW g \in Req(t.text[f]), w.vo[g].closure[h] # Absent
             PROVE  w.vo[h].closure[h] \in Texts \cup {Absent}
  BY <1>1 DEF NewClosure, Closure
<1>2. h \in Mentioned(w.vo[g].closure)
  BY DEF Mentioned
<1>3. w.vo[h] # Absent
  BY <1>2 DEF Compiles, Loads
<1>4. QED
  BY <1>3 DEF Workspace, Artefacts, Vo, Closure

\* Each step gives a workspace, and changes only these fields.
LEMMA StampedType ==
  ASSUME NEW w \in Workspace, NEW now \in Nat, NEW u, u = Stamped(w, now)
  PROVE  /\ u \in Workspace
         /\ u.now = now /\ u.vo = w.vo /\ u.vtime = w.vtime /\ u.palog = w.palog
         /\ u.manifest = w.manifest /\ u.made = w.made /\ u.log = w.log
  BY DEF Stamped, Workspace

\* Deleting artefacts leaves artefacts.
LEMMA WithoutType ==
  ASSUME NEW w \in Workspace, NEW S
  PROVE  Without(w.vo, S) \in Artefacts /\ Without(w.palog, S) \in Palog
  BY DEF Without, Workspace, Artefacts, Palog

\* What the wipe of the invalidator changes, file by file.
LEMMA WipedType ==
  ASSUME NEW w \in Workspace, NEW t \in Tree, NEW now \in Nat,
         NEW u, u = Wiped(w, t, now)
  PROVE  /\ u \in Workspace
         /\ u.now = now /\ u.vtime = w.vtime
         /\ \A f \in Files :
               IF f \in t.listed \/ f \in Recorded(w.manifest)
               THEN u.vo[f] = Absent /\ u.palog[f] = Absent
               ELSE u.vo[f] = w.vo[f] /\ u.palog[f] = w.palog[f]
         /\ u.manifest = Absent /\ u.made = w.made /\ u.log = w.log
<1> DEFINE gone == t.listed \cup Recorded(w.manifest)
<1>1. /\ u.vo = Without(w.vo, gone)
      /\ u.palog = Without(w.palog, gone)
      /\ u.now = now /\ u.vtime = w.vtime
      /\ u.manifest = Absent /\ u.made = w.made /\ u.log = w.log
  BY DEF Wiped, Workspace
<1>2. u \in Workspace
  BY WithoutType DEF Wiped, Workspace
<1>3. QED
  BY <1>1, <1>2 DEF Without

\* What the pass over the hashes changes, file by file.
LEMMA SiftedType ==
  ASSUME NEW w \in Workspace, NEW t \in Tree, NEW now \in Nat,
         NEW u, u = Sifted(w, t, now)
  PROVE  /\ u \in Workspace
         /\ u.now = now
         /\ \A f \in t.listed :
               /\ t.text[f] # Absent => u.vtime[f] = Aged(w.manifest, t, now, f)
               /\ u.vo[f] = w.vo[f] /\ u.palog[f] = w.palog[f]
         /\ \A f \in Files \ t.listed :
               /\ u.vo[f] = IF f \in Recorded(w.manifest) THEN Absent ELSE w.vo[f]
               /\ u.palog[f] = Absent
         /\ u.manifest = w.manifest /\ u.made = w.made /\ u.log = w.log
<1>1. [f \in Files |-> IF f \in t.listed /\ t.text[f] # Absent
                       THEN Aged(w.manifest, t, now, f)
                       ELSE w.vtime[f]] \in [Files -> Nat]
  BY DEF Aged, OLD_MTIME, Workspace
<1>2. u \in Workspace
  BY <1>1, WithoutType DEF Sifted, Workspace
<1>3. /\ u.vo = Without(w.vo, Recorded(w.manifest) \ t.listed)
      /\ u.palog = Without(w.palog, Files \ t.listed)
      /\ u.vtime = [f \in Files |-> IF f \in t.listed /\ t.text[f] # Absent
                                    THEN Aged(w.manifest, t, now, f)
                                    ELSE w.vtime[f]]
      /\ u.now = now /\ u.manifest = w.manifest /\ u.made = w.made
      /\ u.log = w.log
  BY DEF Sifted, Workspace
<1>4. t.listed \subseteq Files
  BY DEF Tree
<1>5. QED
  BY <1>2, <1>3, <1>4 DEF Without

\* The forced touch of the extraction leaf changes one mtime.
LEMMA TouchedType ==
  ASSUME NEW w \in Workspace, NEW u, u = Touched(w)
  PROVE  /\ u \in Workspace
         /\ u.vtime = [w.vtime EXCEPT ![ExtractFile] = w.now]
         /\ u.now = w.now /\ u.vo = w.vo /\ u.palog = w.palog
         /\ u.manifest = w.manifest /\ u.made = w.made /\ u.log = w.log
<1>1. [w.vtime EXCEPT ![ExtractFile] = w.now] \in [Files -> Nat]
  BY DEF Workspace
<1>2. QED
  BY <1>1 DEF Touched, Workspace

\* A restore replaces the .vo files, the chunks and the manifest.
LEMMA UnpackedType ==
  ASSUME NEW w \in Workspace, NEW e \in Entry, NEW u, u = Unpacked(w, e)
  PROVE  /\ u \in Workspace
         /\ u.vo = e.vo /\ u.palog = e.palog /\ u.manifest = e.manifest
         /\ u.now = w.now /\ u.vtime = w.vtime /\ u.made = w.made
         /\ u.log = w.log
  BY DEF Unpacked, Entry, Workspace

\* An up-to-date target changes no file.
LEMMA SkippedType ==
  ASSUME NEW w \in Workspace, NEW f \in Files, NEW u, u = Skipped(w, f)
  PROVE  /\ u \in Workspace
         /\ u.made = w.made \cup {f}
         /\ u.now = w.now /\ u.vo = w.vo /\ u.vtime = w.vtime
         /\ u.palog = w.palog /\ u.manifest = w.manifest /\ u.log = w.log
  BY DEF Skipped, Workspace

\* Updating the chunks changes the chunks alone.
LEMMA ChunkedType ==
  ASSUME NEW w \in Workspace, \A f \in w.log : w.vo[f] # Absent,
         NEW u, u = [w EXCEPT !.palog = Chunks(w)]
  PROVE  /\ u \in Workspace
         /\ u.palog = Chunks(w)
         /\ u.now = w.now /\ u.vo = w.vo /\ u.vtime = w.vtime
         /\ u.manifest = w.manifest /\ u.made = w.made /\ u.log = w.log
<1>1. \A f \in w.log : AxiomsOf(w.vo[f]) \in SUBSET AxiomNames
  BY AxiomsType DEF Workspace, Artefacts
<1>2. Chunks(w) \in Palog
  BY <1>1 DEF Chunks, Palog, Workspace
<1>3. QED
  BY <1>2 DEF Workspace

\* Writing the manifest changes the manifest alone.
LEMMA ManifestType ==
  ASSUME NEW w \in Workspace, NEW t \in Tree,
         NEW u, u = [w EXCEPT !.manifest = ManifestOf(t)]
  PROVE  /\ u \in Workspace
         /\ u.manifest = ManifestOf(t) /\ ManifestOf(t) \in Manifest
         /\ u.now = w.now /\ u.vo = w.vo /\ u.vtime = w.vtime
         /\ u.palog = w.palog /\ u.made = w.made /\ u.log = w.log
<1>1. ManifestOf(t) \in Manifest
  BY ConstantsAssumption DEF ManifestOf, Manifest, Tree, Closure, source_sha256
<1>2. QED
  BY <1>1 DEF Workspace

\* A compile changes one .vo and puts the file in the log.
LEMMA CompiledType ==
  ASSUME NEW w \in Workspace, NEW t \in Tree, NEW f \in Files,
         Compiles(w, t, f), NEW u, u = Compiled(w, t, f)
  PROVE  /\ NewVo(w, t, f) \in Vo
         /\ u \in Workspace
         /\ u.vo = [w.vo EXCEPT ![f] = NewVo(w, t, f)]
         /\ u.made = w.made \cup {f} /\ u.log = w.log \cup {f}
         /\ u.now = w.now /\ u.vtime = w.vtime
         /\ u.palog = w.palog /\ u.manifest = w.manifest
<1>1. NewVo(w, t, f) \in Vo
  BY NewClosureType DEF NewVo, Vo, Tree, Workspace
<1>2. [w.vo EXCEPT ![f] = NewVo(w, t, f)] \in Artefacts
  BY <1>1 DEF Artefacts, Workspace
<1>3. QED
  BY <1>1, <1>2 DEF Compiled, Workspace

-----------------------------------------------------------------------------
(* The invariant of one run, step by step.                                 *)

\* A file with a .vo has the fields of one.
LEMMA VoType ==
  ASSUME NEW w \in Workspace, NEW f \in Files, w.vo[f] # Absent
  PROVE  /\ w.vo[f] \in Vo
         /\ w.vo[f].mtime \in Nat
         /\ w.vo[f].closure \in Closure
  BY DEF Workspace, Artefacts, Vo

\* Two texts with one digest have the same requirements.
LEMMA SameReq ==
  ASSUME NEW x \in Texts, NEW y \in Texts, Digest[x] = Digest[y]
  PROVE  Req(x) = Req(y)
  BY DigestAssumption, AbsentAssumption DEF Req

\* A hit restores a sealed entry.
LEMMA UnpackedInv ==
  ASSUME NEW t \in Tree, NEW w \in Workspace, NEW c \in Nat, NEW e \in Entry,
         Untouched(w), EntryInv(e, c), e.key = CacheKey(t),
         NEW u, u = Unpacked(w, e)
  PROVE  RestoredInv(t, u, c) /\ Untouched(u)
<1>1. /\ u.vo = e.vo /\ u.palog = e.palog /\ u.manifest = e.manifest
      /\ u.made = w.made /\ u.log = w.log
  BY UnpackedType
<1>2. e.manifest # Absent
  BY AbsentAssumption DEF Entry
<1>3. EntryOf(t, u) = e
  BY <1>1 DEF Entry, EntryOf
<1>4. QED
  BY <1>1, <1>2, <1>3 DEF RestoredInv, Untouched

\* A workspace with no .vo and no chunk is a start from clean.
LEMMA CleanWork ==
  ASSUME NEW t \in Tree, NEW w \in Workspace, NEW c \in Nat,
         Untouched(w), w.now = c + 1,
         \A f \in Files : w.vo[f] = Absent /\ w.palog[f] = Absent
  PROVE  WorkInv(t, w, c + 1) /\ BuildInv(t, w)
  BY DEF WorkInv, BuildInv, Untouched

\* A cold start establishes the invariant of the build.
LEMMA StampedInv ==
  ASSUME NEW t \in Tree, NEW w \in Workspace, NEW c \in Nat,
         RestoredInv(t, w, c), Untouched(w), w.manifest = Absent,
         NEW now \in Nat, now = c + 1, NEW u, u = Stamped(w, now)
  PROVE  WorkInv(t, u, now) /\ BuildInv(t, u) /\ Untouched(u)
<1>1. /\ u \in Workspace
      /\ u.now = now /\ u.vo = w.vo /\ u.palog = w.palog /\ u.made = w.made
      /\ u.log = w.log
  BY StampedType
<1>2. \A f \in Files : u.vo[f] = Absent /\ u.palog[f] = Absent
  BY <1>1 DEF RestoredInv, Bare
<1>3. Untouched(u)
  BY <1>1 DEF Untouched
<1>4. QED
  BY <1>1, <1>2, <1>3, CleanWork

\* So does a wipe: the entry was sealed, so nothing escapes it.
LEMMA WipedInv ==
  ASSUME NEW t \in Tree, NEW w \in Workspace, NEW c \in Nat,
         RestoredInv(t, w, c), Untouched(w), w.manifest # Absent,
         NEW now \in Nat, now = c + 1, NEW u, u = Wiped(w, t, now)
  PROVE  WorkInv(t, u, now) /\ BuildInv(t, u) /\ Untouched(u)
<1>1. /\ u \in Workspace
      /\ u.now = now /\ u.made = w.made /\ u.log = w.log
      /\ \A f \in Files :
            IF f \in t.listed \/ f \in Recorded(w.manifest)
            THEN u.vo[f] = Absent /\ u.palog[f] = Absent
            ELSE u.vo[f] = w.vo[f] /\ u.palog[f] = w.palog[f]
  BY WipedType
<1>2. ASSUME NEW f \in Files, f \notin Recorded(w.manifest)
      PROVE  w.vo[f] = Absent /\ w.palog[f] = Absent
  <2>1. w.manifest.files[f] = Absent
    BY <1>2 DEF Recorded
  <2>2. QED
    BY <2>1 DEF RestoredInv, Bare, EntryInv, Sealed, EntryOf
<1>3. \A f \in Files : u.vo[f] = Absent /\ u.palog[f] = Absent
  BY <1>1, <1>2
<1>4. Untouched(u)
  BY <1>1 DEF Untouched
<1>5. QED
  BY <1>1, <1>3, <1>4, CleanWork

\* So does the pass by hash over a sealed entry with this tree's flags: the
\* sources it ages have the digest their .vo was compiled from.
LEMMA SiftedInv ==
  ASSUME NEW t \in Tree, NEW w \in Workspace, NEW c \in Nat,
         RestoredInv(t, w, c), Untouched(w), w.manifest # Absent,
         ~ FlagsMoved(w.manifest, t),
         NEW now \in Nat, now = c + 1, NEW u, u = Sifted(w, t, now)
  PROVE  WorkInv(t, u, now) /\ BuildInv(t, u) /\ Untouched(u)
<1>1. /\ u \in Workspace
      /\ u.now = now /\ u.manifest = w.manifest /\ u.made = w.made
      /\ u.log = w.log
      /\ \A f \in t.listed :
            /\ t.text[f] # Absent => u.vtime[f] = Aged(w.manifest, t, now, f)
            /\ u.vo[f] = w.vo[f] /\ u.palog[f] = w.palog[f]
      /\ \A f \in Files \ t.listed :
            /\ u.vo[f] = IF f \in Recorded(w.manifest) THEN Absent ELSE w.vo[f]
            /\ u.palog[f] = Absent
  BY SiftedType
<1>2. Untouched(u)
  BY <1>1 DEF Untouched
<1> DEFINE e == EntryOf(t, w)
<1>3. EntryInv(e, c) /\ e.vo = w.vo /\ e.palog = w.palog
        /\ e.manifest = w.manifest /\ e.key = t.image
  BY DEF RestoredInv, Bare, EntryOf, CacheKey
<1> HIDE DEF e
<1>4. \A f \in Files : u.vo[f] = Absent \/ (u.vo[f] = w.vo[f] /\ f \in t.listed)
  <2>1. \A f \in Files : w.vo[f] # Absent => f \in Recorded(w.manifest)
    BY <1>3 DEF EntryInv, Sealed, Recorded
  <2>2. QED
    BY <1>1, <2>1
<1>5. \A f \in Files : w.vo[f] = Absent => u.vo[f] = Absent
  BY <1>1
<1>6. ASSUME NEW f \in Files, u.vo[f] # Absent PROVE VoInv(t, u, f)
  <2>1. u.vo[f] = w.vo[f] /\ f \in t.listed
    BY <1>4, <1>6
  <2>2. /\ w.vo[f].flags = t.flags /\ w.vo[f].image = t.image
        /\ w.vo[f].closure[f] # Absent
        /\ w.vo[f].mtime <= c
        /\ Coherent(w.vo, f)
    BY <1>3, <1>6, <2>1 DEF EntryInv, Sealed, FlagsMoved
  <2>3. w.vo[f].mtime < now
    BY <1>6, <2>1, <2>2, VoType
  <2>4. Req(w.vo[f].closure[f]) \subseteq Files
    BY <1>6, <2>1, VoType, ReqType DEF Closure
  <2>5. CoherentSoFar(u.vo, f)
    BY <1>4, <1>5, <2>1, <2>2, <2>4 DEF CoherentSoFar, Coherent, Outdated
  <2>6. QED
    BY <1>1, <1>2, <2>1, <2>2, <2>3, <2>5 DEF VoInv, Untouched
<1>7. ASSUME NEW f \in Files, u.vo[f] # Absent PROVE KeptInv(t, u, f)
  <2>1. u.vo[f] = w.vo[f] /\ f \in t.listed
    BY <1>4, <1>7
  <2>2. /\ w.palog[f] = AxiomsOf(w.vo[f])
        /\ w.manifest.files[f] = Digest[w.vo[f].closure[f]]
    BY <1>3, <1>7, <2>1 DEF EntryInv, Sealed
  <2>3. u.palog[f] = w.palog[f]
    BY <1>1, <2>1
  <2>4. t.text[f] # Absent =>
          u.vtime[f] = u.now \/ w.manifest.files[f] = Digest[t.text[f]]
    BY <1>1, <2>1 DEF Aged, Unchanged, source_sha256
  <2>5. QED
    BY <1>1, <2>1, <2>2, <2>3, <2>4 DEF KeptInv
<1>8. \A f \in Files : u.palog[f] # Absent => f \in t.listed
  BY <1>1
<1>9. WorkInv(t, u, now)
  BY <1>1, <1>2, <1>6, <1>8 DEF WorkInv, Untouched
<1>10. QED
  BY <1>2, <1>7, <1>9 DEF BuildInv

\* The touch of the extraction leaf only makes its source newer.
LEMMA TouchedInv ==
  ASSUME NEW t \in Tree, NEW w \in Workspace, NEW c \in Nat,
         WorkInv(t, w, c), BuildInv(t, w), Untouched(w),
         NEW u, u = Touched(w)
  PROVE  WorkInv(t, u, c) /\ BuildInv(t, u) /\ Untouched(u)
<1>1. /\ u.vtime = [w.vtime EXCEPT ![ExtractFile] = w.now]
      /\ u.now = w.now /\ u.vo = w.vo /\ u.palog = w.palog
      /\ u.manifest = w.manifest /\ u.made = w.made /\ u.log = w.log
  BY TouchedType
<1>2. \A f \in Files : u.vtime[f] = w.vtime[f] \/ u.vtime[f] = u.now
  BY <1>1 DEF Workspace
<1>3. WorkInv(t, u, c)
  BY <1>1 DEF WorkInv, VoInv, MadeInv, FreshInv
<1>4. BuildInv(t, u)
  BY <1>1, <1>2 DEF BuildInv, KeptInv
<1>5. QED
  BY <1>1, <1>3, <1>4 DEF Untouched

\* What a listed file finds it requires is done when make looks at it, and f
\* is not among it.
LEMMA FoundMade ==
  ASSUME NEW t \in Tree, NEW w \in Workspace, NEW c \in Nat,
         WorkInv(t, w, c), NEW f \in t.listed, f \notin w.made,
         Found(t, f) \cap t.listed \subseteq w.made, ~ NoRule(w, t, f)
  PROVE  /\ Found(t, f) \subseteq w.made
         /\ f \notin Found(t, f)
         /\ t.text[f] \in Texts
         /\ Complete(t) => Req(t.text[f]) = Found(t, f)
<1>1. f \in Files /\ t.text[f] \in Texts
  BY DEF Tree, Closure, NoRule
<1>2. Found(t, f) \subseteq Files
  BY <1>1, ReqType DEF Found
<1>3. ASSUME NEW g \in Found(t, f) PROVE g \in w.made
  <2>1. CASE g \in t.listed
    BY <1>3, <2>1
  <2>2. CASE g \notin t.listed
    <3>1. w.vo[g] # Absent
      BY <2>2 DEF NoRule
    <3>2. QED
      BY <1>2, <2>2, <3>1 DEF WorkInv, VoInv
  <2>3. QED
    BY <2>1, <2>2
<1>4. Complete(t) => Req(t.text[f]) = Found(t, f)
  BY DEF Complete, Closed, Found
<1>5. QED
  BY <1>1, <1>3, <1>4

\* An aged file has the digest its .vo was compiled from; what it requires is
\* made and not newer, so it is coherent with it, and fresh if that is.
LEMMA SkippedInv ==
  ASSUME NEW t \in Tree, NEW w \in Workspace, NEW c \in Nat,
         WorkInv(t, w, c), BuildInv(t, w), NEW f \in t.listed, f \notin w.made,
         Found(t, f) \cap t.listed \subseteq w.made,
         ~ NoRule(w, t, f), ~ Stale(w, t, f),
         NEW u, u = Skipped(w, f)
  PROVE  WorkInv(t, u, c) /\ BuildInv(t, u)
<1>1. f \in Files
  BY DEF Tree
<1>2. /\ u.made = w.made \cup {f}
      /\ u.now = w.now /\ u.vo = w.vo /\ u.vtime = w.vtime
      /\ u.palog = w.palog /\ u.manifest = w.manifest /\ u.log = w.log
  BY <1>1, SkippedType
<1>3. /\ Found(t, f) \subseteq w.made
      /\ t.text[f] \in Texts
      /\ Complete(t) => Req(t.text[f]) = Found(t, f)
  BY FoundMade
<1>4. w.vo[f] # Absent /\ w.vo[f] \in Vo
  BY <1>1, VoType DEF Stale
<1>5. /\ VoInv(t, w, f) /\ KeptInv(t, w, f)
      /\ w.vo[f].closure[f] \in Texts
  BY <1>1, <1>4 DEF WorkInv, BuildInv, VoInv, Vo, Closure
<1>6. f \notin w.log /\ w.vo[f].mtime < w.now /\ t.text[f] # Absent
  BY <1>5 DEF WorkInv, VoInv, NoRule
<1>7. w.vtime[f] # w.now
  <2>1. ~ (w.vtime[f] > w.vo[f].mtime)
    BY DEF Stale
  <2>2. w.vtime[f] \in Nat /\ w.vo[f].mtime \in Nat /\ w.now \in Nat
    BY <1>1, <1>4 DEF Workspace, Vo
  <2>3. QED
    BY <1>6, <2>1, <2>2
<1>8. Digest[w.vo[f].closure[f]] = Digest[t.text[f]]
  BY <1>5, <1>6, <1>7 DEF KeptInv
<1>9. Req(w.vo[f].closure[f]) = Req(t.text[f])
  BY <1>3, <1>5, <1>8, SameReq
<1>10. ASSUME NEW g \in Found(t, f)
       PROVE  g \in Files /\ w.vo[g] # Absent /\ w.vo[g].mtime <= w.vo[f].mtime
  <2>1. g \in w.made /\ g \in Files /\ w.vo[g] # Absent
    BY <1>3 DEF WorkInv, MadeInv, Workspace
  <2>2. ~ (w.vo[g].mtime > w.vo[f].mtime)
    BY <2>1 DEF Stale
  <2>3. QED
    BY <1>4, <2>1, <2>2, VoType DEF Vo
<1>11. MadeInv(t, u, f)
  BY <1>2, <1>3, <1>4, <1>6, <1>8, <1>10 DEF MadeInv
<1>12. ASSUME Complete(t) PROVE FreshInv(t, u, f)
  <2> SUFFICES ASSUME NEW h \in Mentioned(w.vo[f].closure)
               PROVE  /\ h \in t.listed
                      /\ Digest[w.vo[f].closure[h]] = Digest[t.text[h]]
    BY <1>2 DEF FreshInv
  <2>1. CASE h = f
    BY <1>8, <2>1
  <2>2. CASE h # f
    <3>1. \A g \in Found(t, f) : ~ Outdated(w.vo, f, g)
      BY <1>4, <1>10, VoType DEF Outdated, Vo
    <3>2. PICK g \in Found(t, f) : h \in Mentioned(w.vo[g].closure)
      BY <1>3, <1>5, <1>9, <1>12, <2>2, <3>1 DEF VoInv, CoherentSoFar
    <3>3. w.vo[f].closure[h] = w.vo[g].closure[h]
      BY <1>3, <1>5, <1>9, <1>12, <2>2, <3>1, <3>2 DEF VoInv, CoherentSoFar
    <3>4. FreshInv(t, w, g)
      BY <1>3, <1>12 DEF WorkInv
    <3>5. QED
      BY <3>2, <3>3, <3>4 DEF FreshInv
  <2>3. QED
    BY <2>1, <2>2
<1>13. \A g \in w.made : MadeInv(t, w, g) => MadeInv(t, u, g)
  BY <1>2 DEF MadeInv
<1>14. \A g \in Files : VoInv(t, w, g) => VoInv(t, u, g)
  BY <1>2 DEF VoInv
<1>15. \A g \in w.made : FreshInv(t, w, g) => FreshInv(t, u, g)
  BY <1>2 DEF FreshInv
<1>16. WorkInv(t, u, c)
  BY <1>2, <1>11, <1>12, <1>13, <1>14, <1>15 DEF WorkInv
<1>17. BuildInv(t, u)
  BY <1>2 DEF BuildInv, KeptInv
<1>18. QED
  BY <1>16, <1>17

\* The closure of a new .vo is that of what it requires, and itself.
LEMMA NewClosureFacts ==
  ASSUME NEW w \in Workspace, NEW t \in Tree, NEW f \in Files,
         \A g \in Req(t.text[f]) : Loads(w, g),
         NEW k, k = NewClosure(w, t, f)
  PROVE  /\ k[f] = t.text[f]
         /\ \A g \in Req(t.text[f]) : \A h \in Mentioned(w.vo[g].closure) \ {f} :
               k[h] = w.vo[g].closure[h]
         /\ \A h \in Mentioned(k) \ {f} :
               \E g \in Req(t.text[f]) : h \in Mentioned(w.vo[g].closure)
<1>1. k[f] = t.text[f]
  BY DEF NewClosure
<1>2. ASSUME NEW g \in Req(t.text[f]), NEW h \in Mentioned(w.vo[g].closure), h # f
      PROVE  k[h] = w.vo[g].closure[h]
  <2>1. h \in Files /\ w.vo[g].closure[h] # Absent
    BY DEF Mentioned
  <2>2. k[h] = w.vo[h].closure[h]
    BY <1>2, <2>1 DEF NewClosure
  <2>3. QED
    BY <2>2 DEF Loads
<1>3. ASSUME NEW h \in Mentioned(k), h # f
      PROVE  \E g \in Req(t.text[f]) : h \in Mentioned(w.vo[g].closure)
  <2>1. h \in Files /\ k[h] # Absent
    BY DEF Mentioned
  <2>2. \E g \in Req(t.text[f]) : w.vo[g].closure[h] # Absent
    BY <1>3, <2>1 DEF NewClosure
  <2>3. QED
    BY <2>1, <2>2 DEF Mentioned
<1>4. QED
  BY <1>1, <1>2, <1>3

\* A new .vo is coherent with what it loaded and fresh if that is.  Those that
\* were compiled against the old one are outdated, unless this run compiled
\* them: then make was through with their requirements, and f is none.
LEMMA CompiledInv ==
  ASSUME NEW t \in Tree, NEW w \in Workspace, NEW c \in Nat,
         WorkInv(t, w, c), BuildInv(t, w), NEW f \in t.listed, f \notin w.made,
         Found(t, f) \cap t.listed \subseteq w.made,
         ~ NoRule(w, t, f), Compiles(w, t, f),
         NEW u, u = Compiled(w, t, f)
  PROVE  WorkInv(t, u, c) /\ BuildInv(t, u)
<1>1. f \in Files
  BY DEF Tree
<1> DEFINE v == NewVo(w, t, f)
           k == NewClosure(w, t, f)
<1>2. /\ v \in Vo
      /\ u \in Workspace
      /\ u.vo = [w.vo EXCEPT ![f] = v]
      /\ u.made = w.made \cup {f} /\ u.log = w.log \cup {f}
      /\ u.now = w.now /\ u.vtime = w.vtime
      /\ u.palog = w.palog /\ u.manifest = w.manifest
  BY <1>1, CompiledType
<1>3. /\ v.closure = k /\ v.flags = t.flags /\ v.image = t.image
      /\ v.mtime = w.now
  BY DEF NewVo
<1> HIDE DEF v
<1>4. /\ u.vo[f] = v
      /\ \A g \in Files : g # f => u.vo[g] = w.vo[g]
      /\ v # Absent
  BY <1>1, <1>2, AbsentAssumption DEF Workspace, Artefacts
<1>5. /\ Found(t, f) \subseteq w.made
      /\ f \notin Found(t, f)
      /\ t.text[f] \in Texts
      /\ Complete(t) => Req(t.text[f]) = Found(t, f)
  BY FoundMade
<1>6. t.text[f] # Absent /\ Req(t.text[f]) \subseteq Files
        /\ f \notin Req(t.text[f])
  BY <1>5, ReqType DEF NoRule, Found
<1>7. /\ k[f] = t.text[f]
      /\ \A g \in Req(t.text[f]) : \A h \in Mentioned(w.vo[g].closure) \ {f} :
            k[h] = w.vo[g].closure[h]
      /\ \A h \in Mentioned(k) \ {f} :
            \E g \in Req(t.text[f]) : h \in Mentioned(w.vo[g].closure)
  BY <1>1, NewClosureFacts DEF Compiles
<1> HIDE DEF k
<1>8. w.made \subseteq Files /\ w.log \subseteq w.made /\ w.now \in Nat
  BY DEF WorkInv, Workspace
<1>9. \A g \in Files : w.vo[g] # Absent =>
         w.vo[g].mtime \in Nat /\ w.vo[g].mtime <= w.now /\ VoInv(t, w, g)
  BY <1>8, VoType DEF WorkInv, VoInv
<1>10. VoInv(t, u, f)
  <2>1. CoherentSoFar(u.vo, f)
    BY <1>3, <1>4, <1>6, <1>7 DEF CoherentSoFar
  <2>2. QED
    BY <1>2, <1>3, <1>4, <1>6, <1>7, <2>1 DEF VoInv
<1>11. ASSUME NEW g \in Files, g # f, u.vo[g] # Absent PROVE VoInv(t, u, g)
  <2>1. u.vo[g] = w.vo[g] /\ VoInv(t, w, g)
    BY <1>4, <1>9, <1>11
  <2>2. f \in Req(w.vo[g].closure[g]) => Outdated(u.vo, g, f)
    <3>1. CASE g \in w.log
      <4>1. w.vo[g].closure[g] = t.text[g] /\ Found(t, g) \subseteq w.made
        BY <2>1, <3>1, <1>8 DEF VoInv, WorkInv, MadeInv
      <4>2. QED
        BY <1>6, <4>1 DEF Found
    <3>2. CASE g \notin w.log
      BY <1>3, <1>4, <1>9, <2>1, <3>2 DEF VoInv, Outdated
    <3>3. QED
      BY <3>1, <3>2
  <2>3. Req(w.vo[g].closure[g]) \subseteq Files
    BY <1>11, <2>1, VoType, ReqType DEF Closure
  <2>4. CoherentSoFar(u.vo, g)
    <3>1. CoherentSoFar(w.vo, g)
      BY <2>1 DEF VoInv
    <3>2. \A q \in Req(w.vo[g].closure[g]) : q # f =>
             u.vo[q] = w.vo[q] /\ (Outdated(w.vo, g, q) => Outdated(u.vo, g, q))
      BY <1>4, <1>11, <2>3 DEF Outdated
    <3>3. QED
      BY <2>1, <2>2, <3>1, <3>2 DEF CoherentSoFar
  <2>5. QED
    BY <1>2, <1>11, <2>1, <2>4 DEF VoInv
<1>12. MadeInv(t, u, f)
  <2>1. \A g \in Found(t, f) : g \in Files /\ g # f /\ w.vo[g] # Absent
    BY <1>5, <1>8 DEF WorkInv, MadeInv
  <2>2. \A g \in Found(t, f) : u.vo[g].mtime <= u.vo[f].mtime
    BY <1>3, <1>4, <1>9, <2>1
  <2>3. QED
    BY <1>2, <1>3, <1>4, <1>5, <1>6, <1>7, <2>2 DEF MadeInv
<1>13. ASSUME NEW g \in w.made PROVE MadeInv(t, u, g)
  <2>1. MadeInv(t, w, g) /\ g # f /\ g \in Files
    BY <1>8, <1>13 DEF WorkInv
  <2>2. \A q \in Found(t, g) : q # f /\ q \in Files
    BY <1>8, <2>1 DEF MadeInv
  <2>3. QED
    BY <1>2, <1>4, <2>1, <2>2 DEF MadeInv
<1>14. ASSUME Complete(t) PROVE FreshInv(t, u, f)
  <2> SUFFICES ASSUME NEW h \in Mentioned(k)
               PROVE  h \in t.listed /\ Digest[k[h]] = Digest[t.text[h]]
    BY <1>3, <1>4 DEF FreshInv
  <2>1. CASE h = f
    BY <1>7, <2>1
  <2>2. CASE h # f
    <3>1. PICK g \in Req(t.text[f]) : h \in Mentioned(w.vo[g].closure)
      BY <1>7, <2>2
    <3>2. FreshInv(t, w, g)
      BY <1>5, <1>14 DEF WorkInv
    <3>3. k[h] = w.vo[g].closure[h]
      BY <1>7, <2>2, <3>1
    <3>4. QED
      BY <3>1, <3>2, <3>3 DEF FreshInv
  <2>3. QED
    BY <2>1, <2>2
<1>15. \A g \in w.made : FreshInv(t, w, g) => FreshInv(t, u, g)
  BY <1>4, <1>8 DEF FreshInv
<1>16. WorkInv(t, u, c)
  BY <1>2, <1>8, <1>10, <1>11, <1>12, <1>13, <1>14, <1>15 DEF WorkInv
<1>17. BuildInv(t, u)
  BY <1>2, <1>4 DEF BuildInv, KeptInv
<1>18. QED
  BY <1>16, <1>17

\* The new chunks: those of the compiled files, and the kept ones.
LEMMA ChunkedInv ==
  ASSUME NEW t \in Tree, NEW w \in Workspace, NEW c \in Nat,
         WorkInv(t, w, c), BuildInv(t, w),
         NEW u, u = [w EXCEPT !.palog = Chunks(w)]
  PROVE  u \in Workspace /\ WorkInv(t, u, c) /\ ChunksInv(u)
<1>1. w.log \subseteq w.made /\ w.made \subseteq Files
  BY DEF WorkInv, Workspace
<1>2. \A f \in w.log : w.vo[f] # Absent
  BY <1>1 DEF WorkInv, MadeInv
<1>3. /\ u \in Workspace
      /\ u.palog = Chunks(w)
      /\ u.now = w.now /\ u.vo = w.vo /\ u.vtime = w.vtime
      /\ u.manifest = w.manifest /\ u.made = w.made /\ u.log = w.log
  BY <1>2, ChunkedType
<1>4. \A f \in Files : u.palog[f] = IF f \in w.log THEN AxiomsOf(w.vo[f])
                                    ELSE w.palog[f]
  BY <1>3 DEF Chunks
<1>5. \A f \in Files : u.palog[f] # Absent => f \in t.listed
  BY <1>1, <1>4 DEF WorkInv, MadeInv
<1>6. WorkInv(t, u, c)
  BY <1>3, <1>5 DEF WorkInv, VoInv, MadeInv, FreshInv
<1>7. ChunksInv(u)
  BY <1>3, <1>4 DEF ChunksInv, BuildInv, KeptInv
<1>8. QED
  BY <1>3, <1>6, <1>7

\* The manifest names the listed files.
LEMMA ManifestInv ==
  ASSUME NEW t \in Tree, NEW w \in Workspace, NEW c \in Nat,
         WorkInv(t, w, c), DoneInv(t, w), ChunksInv(w), AuditedInv(t, w),
         NEW u, u = [w EXCEPT !.manifest = ManifestOf(t)]
  PROVE  /\ u \in Workspace
         /\ WorkInv(t, u, c) /\ DoneInv(t, u) /\ ChunksInv(u)
         /\ AuditedInv(t, u) /\ WrittenInv(t, u)
<1>1. /\ u \in Workspace
      /\ u.manifest = ManifestOf(t) /\ ManifestOf(t) \in Manifest
      /\ u.now = w.now /\ u.vo = w.vo /\ u.vtime = w.vtime
      /\ u.palog = w.palog /\ u.made = w.made /\ u.log = w.log
  BY ManifestType
<1>2. WorkInv(t, u, c)
  BY <1>1 DEF WorkInv, VoInv, MadeInv, FreshInv
<1>3. DoneInv(t, u) /\ ChunksInv(u) /\ AuditedInv(t, u)
  BY <1>1 DEF DoneInv, ChunksInv, AuditedInv
<1>4. u.manifest # Absent
  BY <1>1, AbsentAssumption
<1>5. WrittenInv(t, u)
  BY <1>1, <1>4 DEF WrittenInv, ManifestOf, source_sha256
<1>6. QED
  BY <1>1, <1>2, <1>3, <1>5

\* What make has made coherent so far is coherent when all is made.
LEMMA DoneCoherent ==
  ASSUME NEW t \in Tree, NEW w \in Workspace, NEW c \in Nat,
         WorkInv(t, w, c), DoneInv(t, w), NEW f \in Files, w.vo[f] # Absent
  PROVE  Coherent(w.vo, f)
<1>1. VoInv(t, w, f) /\ f \in w.made /\ MadeInv(t, w, f)
  BY DEF WorkInv, VoInv, DoneInv
<1>2. w.vo[f].closure[f] \in Texts /\ t.text[f] \in Texts
  BY <1>1, VoType DEF VoInv, MadeInv, Closure, Tree
<1>3. Req(w.vo[f].closure[f]) = Req(t.text[f]) /\ Req(t.text[f]) \subseteq Files
  BY <1>1, <1>2, SameReq, ReqType DEF MadeInv
<1>4. ASSUME NEW g \in Req(t.text[f]), w.vo[g] # Absent
      PROVE  ~ Outdated(w.vo, f, g)
  <2>1. g \in w.made
    BY <1>3, <1>4 DEF WorkInv, VoInv, DoneInv
  <2>2. g \in Found(t, f)
    BY <2>1 DEF WorkInv, MadeInv, Found
  <2>3. w.vo[g].mtime <= w.vo[f].mtime
    BY <1>1, <2>2 DEF MadeInv
  <2>4. QED
    BY <1>3, <1>4, <2>3, VoType DEF Outdated
<1>5. QED
  BY <1>1, <1>3, <1>4 DEF VoInv, CoherentSoFar, Coherent, Outdated

\* What a run that passed the gauntlet saves is sealed.
LEMMA SavedInv ==
  ASSUME NEW t \in Tree, NEW w \in Workspace, NEW c \in Nat,
         WorkInv(t, w, c), DoneInv(t, w), ChunksInv(w), WrittenInv(t, w),
         NEW e, e = EntryOf(t, w)
  PROVE  e \in Entry /\ EntryInv(e, c)
<1>1. /\ e.key = t.image /\ e.vo = w.vo /\ e.palog = w.palog
      /\ e.manifest = w.manifest
  BY DEF EntryOf, CacheKey
<1>2. e \in Entry
  BY DEF EntryOf, CacheKey, Entry, Workspace, Tree, WrittenInv
<1>3. ASSUME NEW f \in Files
      PROVE  /\ w.vo[f] # Absent <=> f \in t.listed
             /\ f \in t.listed => MadeInv(t, w, f) /\ VoInv(t, w, f)
  BY <1>3 DEF WorkInv, VoInv, DoneInv, MadeInv
<1>4. ASSUME NEW f \in Files
      PROVE  w.manifest.files[f] = IF f \in t.listed THEN Digest[t.text[f]]
                                                     ELSE Absent
  BY <1>3 DEF WrittenInv, MadeInv
<1>5. ASSUME NEW f \in Files, f \in t.listed
      PROVE  Digest[t.text[f]] # Absent /\ AxiomsOf(w.vo[f]) # Absent
  <2>1. t.text[f] \in Texts
    BY <1>3, <1>5 DEF MadeInv, Tree, Closure
  <2>2. AxiomsOf(w.vo[f]) \in SUBSET AxiomNames
    BY <1>3, <1>5, VoType, AxiomsType
  <2>3. QED
    BY <2>1, <2>2, ConstantsAssumption, AbsentAssumption
<1>6. ASSUME NEW f \in Files
      PROVE  /\ e.vo[f] = Absent <=> e.manifest.files[f] = Absent
             /\ e.vo[f] = Absent <=> e.palog[f] = Absent
  BY <1>1, <1>3, <1>4, <1>5 DEF ChunksInv, WorkInv
<1>7. ASSUME NEW f \in Files, e.vo[f] # Absent
      PROVE  /\ e.vo[f].closure[f] # Absent
             /\ e.manifest.files[f] = Digest[e.vo[f].closure[f]]
             /\ e.vo[f].flags = e.manifest.flags
             /\ e.vo[f].image = e.key
             /\ e.palog[f] = AxiomsOf(e.vo[f])
             /\ Coherent(e.vo, f)
  <2>1. f \in t.listed /\ MadeInv(t, w, f) /\ VoInv(t, w, f)
    BY <1>1, <1>3, <1>7
  <2>2. QED
    BY <1>1, <1>4, <1>7, <2>1, DoneCoherent
       DEF MadeInv, VoInv, WrittenInv, ChunksInv
<1>8. ASSUME NEW f \in Files, e.vo[f] # Absent PROVE e.vo[f].mtime <= c
  <2>1. VoInv(t, w, f)
    BY <1>1, <1>3, <1>8
  <2>2. w.vo[f].mtime \in Nat /\ w.now \in Nat /\ w.now <= c
    BY <1>1, <1>8, VoType DEF WorkInv, Workspace
  <2>3. QED
    BY <1>1, <2>1, <2>2 DEF VoInv
<1>9. QED
  BY <1>2, <1>6, <1>7, <1>8 DEF EntryInv, Sealed

-----------------------------------------------------------------------------
(* The invariant of the runs and the cache.                                *)

\* Time passing does not disturb a run.
LEMMA RunInvLater ==
  ASSUME NEW p, NEW info, NEW w \in Workspace, NEW c \in Nat, NEW d \in Nat,
         c <= d, RunInv(p, info, w, c)
  PROVE  RunInv(p, info, w, d)
<1>1. ASSUME NEW t, RestoredInv(t, w, c) PROVE RestoredInv(t, w, d)
  <2>1. \A f \in Files : w.vo[f] # Absent => w.vo[f].mtime \in Nat
    BY VoType
  <2>2. EntryOf(t, w).vo = w.vo
    BY DEF EntryOf
  <2>3. EntryInv(EntryOf(t, w), c) => EntryInv(EntryOf(t, w), d)
    BY <2>1, <2>2 DEF EntryInv
  <2>4. QED
    BY <1>1, <2>3 DEF RestoredInv
<1>2. ASSUME NEW t, WorkInv(t, w, c) PROVE WorkInv(t, w, d)
  BY <1>2 DEF WorkInv
<1>3. QED
  BY <1>1, <1>2 DEF RunInv

\* A step of r that keeps the cache sealed and r's own invariant keeps
\* everything.
LEMMA StepOf ==
  ASSUME IInv, NEW r \in Runs,
         NEW p \in Steps \cup {"idle", "done"}, NEW i \in RunInfo \cup {Absent},
         NEW w \in Workspace, NEW v \in [Runs -> Verdicts],
         clock' \in Nat, clock <= clock',
         pc' = [pc EXCEPT ![r] = p], run' = [run EXCEPT ![r] = i],
         ws' = [ws EXCEPT ![r] = w], verdict' = v,
         \A e \in cache' : e \in Entry /\ EntryInv(e, clock'),
         RunInv(p, i, w, clock')
  PROVE  IInv'
<1>1. TypeOK'
  <2>1. /\ pc' \in [Runs -> Steps \cup {"idle", "done"}]
        /\ run' \in [Runs -> RunInfo \cup {Absent}]
        /\ ws' \in [Runs -> Workspace]
    BY DEF IInv, TypeOK
  <2>2. cache' \subseteq Entry
    OBVIOUS
  <2>3. QED
    BY <2>1, <2>2 DEF TypeOK
<1>2. ASSUME NEW q \in Runs PROVE RunInv(pc'[q], run'[q], ws'[q], clock')
  <2>1. CASE q = r
    BY <2>1 DEF IInv, TypeOK
  <2>2. CASE q # r
    <3>1. pc'[q] = pc[q] /\ run'[q] = run[q] /\ ws'[q] = ws[q]
      BY <2>2 DEF IInv, TypeOK
    <3>2. RunInv(pc[q], run[q], ws[q], clock) /\ ws[q] \in Workspace
            /\ clock \in Nat
      BY DEF IInv, TypeOK
    <3>3. RunInv(pc[q], run[q], ws[q], clock')
      BY <3>2, RunInvLater
    <3>4. QED
      BY <3>1, <3>3
  <2>3. QED
    BY <2>1, <2>2
<1>3. QED
  BY <1>1, <1>2 DEF IInv

\* The entries stay as they are when time passes.
LEMMA EntriesLater ==
  ASSUME IInv, clock' \in Nat, clock <= clock'
  PROVE  \A e \in cache : e \in Entry /\ EntryInv(e, clock')
<1> SUFFICES ASSUME NEW e \in cache
             PROVE  e \in Entry /\ EntryInv(e, clock')
  OBVIOUS
<1>1. e \in Entry /\ EntryInv(e, clock) /\ clock \in Nat
  BY DEF IInv, TypeOK
<1>2. \A f \in Files : e.vo[f] # Absent => e.vo[f].mtime \in Nat
  BY <1>1 DEF Entry, Artefacts, Vo
<1>3. QED
  BY <1>1, <1>2 DEF EntryInv

\* A step of r that only moves it on and changes its workspace.
LEMMA MoveOf ==
  ASSUME IInv, NEW r \in Runs, NEW p \in Steps, NEW w \in Workspace,
         clock' \in Nat, clock <= clock',
         pc' = [pc EXCEPT ![r] = p], ws' = [ws EXCEPT ![r] = w],
         UNCHANGED <<cache, run, verdict>>,
         RunInv(p, run[r], w, clock')
  PROVE  IInv'
<1>1. run' = [run EXCEPT ![r] = run[r]] /\ run[r] \in RunInfo \cup {Absent}
        /\ verdict' \in [Runs -> Verdicts]
  BY DEF IInv, TypeOK
<1>2. \A e \in cache' : e \in Entry /\ EntryInv(e, clock')
  BY EntriesLater
<1>3. QED
  BY <1>1, <1>2, StepOf

\* A run that ends leaves nothing behind but its entry.
LEMMA FinishOf ==
  ASSUME IInv, NEW r \in Runs, NEW v \in Verdicts, Finish(r, v),
         UNCHANGED <<clock, run>>,
         \A e \in cache' : e \in Entry /\ EntryInv(e, clock)
  PROVE  IInv'
<1>1. /\ run' = [run EXCEPT ![r] = run[r]] /\ run[r] \in RunInfo \cup {Absent}
      /\ clock \in Nat
  BY DEF IInv, TypeOK
<1>2. [verdict EXCEPT ![r] = v] \in [Runs -> Verdicts]
  BY DEF IInv, TypeOK
<1>3. EmptyWorkspace(0) \in Workspace
  BY EmptyType
<1>4. RunInv("done", run[r], EmptyWorkspace(0), clock)
  BY DEF RunInv, Active, Steps, AfterMake, BuildSteps
<1>5. /\ clock' \in Nat /\ clock <= clock' /\ clock' = clock
      /\ pc' = [pc EXCEPT ![r] = "done"]
      /\ ws' = [ws EXCEPT ![r] = EmptyWorkspace(0)]
      /\ verdict' = [verdict EXCEPT ![r] = v]
      /\ verdict' \in [Runs -> Verdicts]
  BY <1>1, <1>2 DEF Finish
<1>6. /\ RunInv("done", run[r], EmptyWorkspace(0), clock')
      /\ \A e \in cache' : e \in Entry /\ EntryInv(e, clock')
      /\ "done" \in Steps \cup {"idle", "done"}
  BY <1>4, <1>5
<1>7. QED
  BY <1>1, <1>3, <1>5, <1>6, StepOf

\* A run that fails or is cancelled.
LEMMA StopOf ==
  ASSUME IInv, NEW r \in Runs, NEW v \in Verdicts, Finish(r, v),
         UNCHANGED <<cache, clock, run>>
  PROVE  IInv'
  BY FinishOf DEF IInv, TypeOK

\* A gate that opens changes nothing but the step r is at.
LEMMA GateOf ==
  ASSUME IInv, NEW r \in Runs, NEW from, NEW to \in Steps, NEW opens,
         Gate(r, from, to, opens),
         opens => RunInv(to, run[r], ws[r], clock)
  PROVE  IInv'
<1>1. CASE opens /\ pc' = [pc EXCEPT ![r] = to] /\ UNCHANGED <<ws, verdict>>
  <2>1. ws[r] \in Workspace /\ clock \in Nat
    BY DEF IInv, TypeOK
  <2>2. /\ ws' = [ws EXCEPT ![r] = ws[r]]
        /\ clock' \in Nat /\ clock <= clock' /\ clock' = clock
        /\ UNCHANGED <<cache, run, verdict>>
    BY <1>1, <2>1 DEF Gate, IInv, TypeOK
  <2>3. QED
    BY <1>1, <2>1, <2>2, MoveOf
<1>2. CASE Finish(r, "fail")
  BY <1>2, StopOf DEF Gate, Verdicts
<1>3. QED
  BY <1>1, <1>2 DEF Gate

\* What the invariant says of the run r.
LEMMA RunFacts ==
  ASSUME IInv, NEW r \in Runs
  PROVE  /\ RunInv(pc[r], run[r], ws[r], clock)
         /\ ws[r] \in Workspace /\ clock \in Nat
         /\ pc[r] \in Active =>
               run[r] \in RunInfo /\ run[r].tree \in Tree
<1>1. RunInv(pc[r], run[r], ws[r], clock) /\ ws[r] \in Workspace /\ clock \in Nat
        /\ run[r] \in RunInfo \cup {Absent}
  BY DEF IInv, TypeOK
<1>2. pc[r] \in Active => run[r] \in RunInfo
  BY <1>1 DEF RunInv
<1>3. \A i \in RunInfo : i.tree \in Tree
  BY ConstantsAssumption DEF RunInfo
<1>4. QED
  BY <1>1, <1>2, <1>3

\* The invariant holds before any run.
LEMMA InitInv == Init => IInv
<1> SUFFICES ASSUME Init PROVE IInv
  OBVIOUS
<1>1. TypeOK
  BY EmptyType DEF Init, TypeOK, Verdicts
<1>2. ASSUME NEW r \in Runs PROVE RunInv(pc[r], run[r], ws[r], clock)
  BY DEF Init, RunInv, Active, Steps, AfterMake, BuildSteps
<1>3. QED
  BY <1>1, <1>2 DEF IInv, Init

\* Checkout keeps it: the workspace is bare.
LEMMA CheckoutInv ==
  ASSUME IInv, NEW r \in Runs, NEW job \in Jobs, NEW event \in Events,
         NEW t \in Trees, Checkout(r, job, event, t)
  PROVE  IInv'
<1> DEFINE i == [job |-> job, event |-> event, tree |-> t]
           w == EmptyWorkspace(clock)
<1>1. i \in RunInfo /\ clock \in Nat /\ w \in Workspace
  BY EmptyType DEF IInv, TypeOK, RunInfo
<1>2. i # Absent
  BY <1>1, AbsentAssumption
<1>3. Bare(w) /\ Untouched(w)
  BY DEF EmptyWorkspace, Bare, Untouched
<1>4. /\ clock' = clock
      /\ pc' = [pc EXCEPT ![r] = "restore"] /\ run' = [run EXCEPT ![r] = i]
      /\ ws' = [ws EXCEPT ![r] = w]
      /\ verdict' \in [Runs -> Verdicts]
  BY DEF Checkout, Goto, IInv, TypeOK
<1> HIDE DEF i, w
<1>5. /\ RunInv("restore", i, w, clock')
      /\ \A e \in cache' : e \in Entry /\ EntryInv(e, clock')
      /\ "restore" \in Steps \cup {"idle", "done"}
      /\ clock' \in Nat /\ clock <= clock'
  BY <1>1, <1>2, <1>3, <1>4
     DEF RunInv, Steps, AfterMake, BuildSteps, Checkout, IInv, TypeOK
<1>6. QED
  BY <1>1, <1>4, <1>5, StepOf

\* The restore keeps it: what it unpacks is sealed.
LEMMA RestoreInv ==
  ASSUME IInv, NEW r \in Runs,
         (\E e \in cache : RestoreHit(r, e)) \/ RestoreMiss(r)
  PROVE  IInv'
<1> DEFINE t == run[r].tree
<1>1. /\ pc[r] = "restore" /\ pc' = [pc EXCEPT ![r] = "invalidate"]
      /\ clock' = clock /\ UNCHANGED <<cache, run, verdict>>
  BY DEF RestoreHit, RestoreMiss, Goto
<1>2. /\ Bare(ws[r]) /\ Untouched(ws[r]) /\ t \in Tree /\ run[r] # Absent
      /\ ws[r] \in Workspace /\ clock \in Nat
  BY <1>1, RunFacts, AbsentAssumption DEF RunInv, Active, Steps
<1>3. PICK w \in Workspace : /\ ws' = [ws EXCEPT ![r] = w]
                             /\ RestoredInv(t, w, clock) /\ Untouched(w)
  <2>1. ASSUME NEW e \in cache, RestoreHit(r, e)
        PROVE  /\ Unpacked(ws[r], e) \in Workspace
               /\ ws' = [ws EXCEPT ![r] = Unpacked(ws[r], e)]
               /\ RestoredInv(t, Unpacked(ws[r], e), clock)
               /\ Untouched(Unpacked(ws[r], e))
    <3>1. e \in Entry /\ EntryInv(e, clock) /\ e.key = CacheKey(t)
      BY <2>1 DEF IInv, TypeOK, RestoreHit
    <3>2. PICK u : u = Unpacked(ws[r], e)
      OBVIOUS
    <3>3. u \in Workspace
      BY <1>2, <3>1, <3>2, UnpackedType
    <3>4. RestoredInv(t, u, clock) /\ Untouched(u)
      BY <1>2, <3>1, <3>2, UnpackedInv
    <3>5. QED
      BY <2>1, <3>2, <3>3, <3>4 DEF RestoreHit
  <2>2. CASE RestoreMiss(r)
    <3>1. ws' = [ws EXCEPT ![r] = ws[r]]
      BY <2>2 DEF RestoreMiss, IInv, TypeOK
    <3>2. QED
      BY <1>2, <3>1 DEF RestoredInv
  <2>3. QED
    BY <2>1, <2>2
<1>4. RunInv("invalidate", run[r], w, clock)
  BY <1>2, <1>3 DEF RunInv, AfterMake, BuildSteps
<1>5. "invalidate" \in Steps /\ clock' \in Nat /\ clock <= clock'
        /\ RunInv("invalidate", run[r], w, clock')
  BY <1>1, <1>2, <1>4 DEF Steps
<1>6. QED
  BY <1>1, <1>3, <1>5, MoveOf

\* The invalidation keeps it, whichever way it goes.
LEMMA InvalidateInv ==
  ASSUME IInv, NEW r \in Runs,
         InvalidateCold(r) \/ InvalidateWipe(r) \/ InvalidateByHash(r)
  PROVE  IInv'
<1> DEFINE t == run[r].tree
<1>1. /\ pc[r] = "invalidate" /\ pc' = [pc EXCEPT ![r] = AfterInvalidate(r)]
      /\ clock' = clock + 1 /\ UNCHANGED <<cache, run, verdict>>
  BY DEF InvalidateCold, InvalidateWipe, InvalidateByHash, Goto
<1>2. /\ RestoredInv(t, ws[r], clock) /\ Untouched(ws[r])
      /\ t \in Tree /\ run[r] # Absent /\ ws[r] \in Workspace /\ clock \in Nat
  BY <1>1, RunFacts, AbsentAssumption DEF RunInv, Active, Steps
<1>3. clock' \in Nat /\ clock <= clock'
  BY <1>1, <1>2
<1>4. PICK w \in Workspace : /\ ws' = [ws EXCEPT ![r] = w]
                             /\ WorkInv(t, w, clock') /\ BuildInv(t, w)
                             /\ Untouched(w)
  <2>1. CASE InvalidateCold(r)
    <3>1. PICK u : u = Stamped(ws[r], clock')
      OBVIOUS
    <3>2. u \in Workspace
      BY <1>2, <1>3, <3>1, StampedType
    <3>3. WorkInv(t, u, clock') /\ BuildInv(t, u) /\ Untouched(u)
      BY <1>1, <1>2, <1>3, <2>1, <3>1, StampedInv DEF InvalidateCold
    <3>4. ws' = [ws EXCEPT ![r] = u]
      BY <1>1, <2>1, <3>1 DEF InvalidateCold
    <3>5. QED
      BY <3>2, <3>3, <3>4
  <2>2. CASE InvalidateWipe(r)
    <3>1. PICK u : u = Wiped(ws[r], t, clock')
      OBVIOUS
    <3>2. u \in Workspace
      BY <1>2, <1>3, <3>1, WipedType
    <3>3. WorkInv(t, u, clock') /\ BuildInv(t, u) /\ Untouched(u)
      BY <1>1, <1>2, <1>3, <2>2, <3>1, WipedInv DEF InvalidateWipe
    <3>4. ws' = [ws EXCEPT ![r] = u]
      BY <1>1, <2>2, <3>1 DEF InvalidateWipe
    <3>5. QED
      BY <3>2, <3>3, <3>4
  <2>3. CASE InvalidateByHash(r)
    <3>1. PICK u : u = Sifted(ws[r], t, clock')
      OBVIOUS
    <3>2. u \in Workspace
      BY <1>2, <1>3, <3>1, SiftedType
    <3>3. WorkInv(t, u, clock') /\ BuildInv(t, u) /\ Untouched(u)
      BY <1>1, <1>2, <1>3, <2>3, <3>1, SiftedInv DEF InvalidateByHash
    <3>4. ws' = [ws EXCEPT ![r] = u]
      BY <1>1, <2>3, <3>1 DEF InvalidateByHash
    <3>5. QED
      BY <3>2, <3>3, <3>4
  <2>4. QED
    BY <2>1, <2>2, <2>3
<1>5. PICK p \in Steps : p = AfterInvalidate(r) /\ p \in {"touch", "make"}
  BY DEF AfterInvalidate, Steps
<1>6. RunInv(p, run[r], w, clock')
  BY <1>2, <1>4, <1>5 DEF RunInv, AfterMake, BuildSteps
<1>7. QED
  BY <1>1, <1>3, <1>4, <1>5, <1>6, MoveOf

\* The touch of the extraction leaf keeps it.
LEMMA ForceInv ==
  ASSUME IInv, NEW r \in Runs, ForceExtraction(r)
  PROVE  IInv'
<1> DEFINE t == run[r].tree
<1>1. /\ pc[r] = "touch" /\ pc' = [pc EXCEPT ![r] = "make"]
      /\ clock' = clock /\ UNCHANGED <<cache, run, verdict>>
  BY DEF ForceExtraction, Goto
<1>2. /\ WorkInv(t, ws[r], clock) /\ BuildInv(t, ws[r]) /\ Untouched(ws[r])
      /\ t \in Tree /\ run[r] # Absent /\ ws[r] \in Workspace /\ clock \in Nat
  BY <1>1, RunFacts, AbsentAssumption DEF RunInv, Active, Steps, BuildSteps
<1>3. PICK w : w = Touched(ws[r])
  OBVIOUS
<1>4. w \in Workspace
  BY <1>2, <1>3, TouchedType
<1>5. WorkInv(t, w, clock) /\ BuildInv(t, w) /\ Untouched(w)
  BY <1>2, <1>3, TouchedInv
<1>6. RunInv("make", run[r], w, clock')
  BY <1>1, <1>2, <1>5 DEF RunInv, AfterMake
<1>7. "make" \in Steps /\ clock' \in Nat /\ clock <= clock'
        /\ ws' = [ws EXCEPT ![r] = w]
  BY <1>1, <1>2, <1>3 DEF Steps, ForceExtraction
<1>8. QED
  BY <1>1, <1>4, <1>6, <1>7, MoveOf

\* Looking at a target keeps it, whether make skips or compiles it.
LEMMA MakeInv ==
  ASSUME IInv, NEW r \in Runs, NEW f \in Files,
         MakeSkip(r, f) \/ MakeCompile(r, f)
  PROVE  IInv'
<1> DEFINE t == run[r].tree
<1>1. /\ pc[r] = "make" /\ pc' = pc /\ clock' = clock
      /\ UNCHANGED <<cache, run, verdict>>
      /\ f \in t.listed /\ f \notin ws[r].made
      /\ Found(t, f) \cap t.listed \subseteq ws[r].made
      /\ ~ NoRule(ws[r], t, f)
  BY DEF MakeSkip, MakeCompile, Ready
<1>2. /\ WorkInv(t, ws[r], clock) /\ BuildInv(t, ws[r])
      /\ t \in Tree /\ run[r] # Absent /\ ws[r] \in Workspace /\ clock \in Nat
  BY <1>1, RunFacts, AbsentAssumption DEF RunInv, Active, Steps, BuildSteps
<1>3. PICK w \in Workspace : /\ ws' = [ws EXCEPT ![r] = w]
                             /\ WorkInv(t, w, clock) /\ BuildInv(t, w)
  <2>1. CASE MakeSkip(r, f)
    <3>1. PICK u : u = Skipped(ws[r], f)
      OBVIOUS
    <3>2. u \in Workspace
      BY <1>2, <3>1, SkippedType
    <3>3. ~ Stale(ws[r], t, f) /\ ws' = [ws EXCEPT ![r] = u]
      BY <2>1, <3>1 DEF MakeSkip
    <3>4. WorkInv(t, u, clock) /\ BuildInv(t, u)
      BY <1>1, <1>2, <3>1, <3>3, SkippedInv
    <3>5. QED
      BY <3>2, <3>3, <3>4
  <2>2. CASE MakeCompile(r, f)
    <3>1. PICK u : u = Compiled(ws[r], t, f)
      OBVIOUS
    <3>2. Compiles(ws[r], t, f) /\ ws' = [ws EXCEPT ![r] = u]
      BY <2>2, <3>1 DEF MakeCompile
    <3>3. u \in Workspace
      BY <1>2, <3>1, <3>2, CompiledType
    <3>4. WorkInv(t, u, clock) /\ BuildInv(t, u)
      BY <1>1, <1>2, <3>1, <3>2, CompiledInv
    <3>5. QED
      BY <3>2, <3>3, <3>4
  <2>3. QED
    BY <2>1, <2>2
<1>4. RunInv("make", run[r], w, clock')
  BY <1>1, <1>2, <1>3 DEF RunInv, AfterMake
<1>5. "make" \in Steps /\ clock' \in Nat /\ clock <= clock'
        /\ pc' = [pc EXCEPT ![r] = "make"]
  BY <1>1, <1>2 DEF Steps, IInv, TypeOK
<1>6. QED
  BY <1>1, <1>3, <1>4, <1>5, MoveOf

\* So does the end of make: every listed file is made, and no other.
LEMMA MakeDoneInv ==
  ASSUME IInv, NEW r \in Runs, MakeDone(r)
  PROVE  IInv'
<1> DEFINE t == run[r].tree
           w == ws[r]
<1>1. /\ pc[r] = "make" /\ t.listed \subseteq w.made /\ clock' = clock
      /\ UNCHANGED <<cache, run, ws, verdict>>
  BY DEF MakeDone, Goto
<1>2. /\ WorkInv(t, w, clock) /\ BuildInv(t, w)
      /\ run[r] # Absent /\ w \in Workspace /\ clock \in Nat
  BY <1>1, RunFacts, AbsentAssumption DEF RunInv, Active, Steps, BuildSteps
<1>3. DoneInv(t, w)
  BY <1>1, <1>2 DEF WorkInv, MadeInv, DoneInv
<1>4. PICK p \in Steps : /\ p \in {"link", "elaborate"}
                         /\ pc' = [pc EXCEPT ![r] = p]
  BY DEF MakeDone, Goto, Steps
<1>5. RunInv(p, run[r], w, clock')
  BY <1>1, <1>2, <1>3, <1>4 DEF RunInv
<1>6. clock' \in Nat /\ clock <= clock' /\ ws' = [ws EXCEPT ![r] = w]
  BY <1>1, <1>2 DEF IInv, TypeOK
<1>7. QED
  BY <1>1, <1>2, <1>4, <1>5, <1>6, MoveOf

\* The gates keep it; the audit adds what it has checked.
LEMMA GatesInv ==
  ASSUME IInv, NEW r \in Runs, Elaborate(r) \/ Smoke(r) \/ AssembleAndAudit(r)
  PROVE  IInv'
<1>1. RunInv(pc[r], run[r], ws[r], clock)
  BY RunFacts
<1>2. CASE Elaborate(r)
  <2>1. pc[r] = "elaborate" => RunInv("smoke", run[r], ws[r], clock)
    BY <1>1 DEF RunInv, Active, Steps, AfterMake, BuildSteps
  <2>2. pc[r] = "elaborate" /\ "smoke" \in Steps
    BY <1>2 DEF Elaborate, Gate, Steps
  <2>3. QED
    BY <1>2, <2>1, <2>2, GateOf DEF Elaborate
<1>3. CASE Smoke(r)
  <2>1. pc[r] = "smoke" => RunInv("palog", run[r], ws[r], clock)
    BY <1>1 DEF RunInv, Active, Steps, AfterMake, BuildSteps
  <2>2. pc[r] = "smoke" /\ "palog" \in Steps
    BY <1>3 DEF Smoke, Gate, Steps
  <2>3. QED
    BY <1>3, <2>1, <2>2, GateOf DEF Smoke
<1>4. CASE AssembleAndAudit(r)
  <2>1. AuditPasses(ws[r], run[r].tree) => AuditedInv(run[r].tree, ws[r])
    BY DEF AuditPasses, AuditedInv
  <2>2. pc[r] = "audit" /\ AuditPasses(ws[r], run[r].tree) =>
           RunInv("manifest", run[r], ws[r], clock)
    BY <1>1, <2>1 DEF RunInv, Active, Steps, AfterMake, BuildSteps
  <2>3. pc[r] = "audit" /\ "manifest" \in Steps
    BY <1>4 DEF AssembleAndAudit, Gate, Steps
  <2>4. QED
    BY <1>4, <2>2, <2>3, GateOf DEF AssembleAndAudit
<1>5. QED
  BY <1>2, <1>3, <1>4

\* The chunks are brought up to date.
LEMMA UpdateInv ==
  ASSUME IInv, NEW r \in Runs, UpdatePalog(r)
  PROVE  IInv'
<1> DEFINE t == run[r].tree
<1>1. /\ pc[r] = "palog" /\ pc' = [pc EXCEPT ![r] = "audit"]
      /\ clock' = clock /\ UNCHANGED <<cache, run, verdict>>
  BY DEF UpdatePalog, Goto
<1>2. /\ WorkInv(t, ws[r], clock) /\ BuildInv(t, ws[r]) /\ DoneInv(t, ws[r])
      /\ t \in Tree /\ run[r] # Absent /\ ws[r] \in Workspace /\ clock \in Nat
  BY <1>1, RunFacts, AbsentAssumption
     DEF RunInv, Active, Steps, BuildSteps, AfterMake
<1>3. PICK w : w = [ws[r] EXCEPT !.palog = Chunks(ws[r])]
  OBVIOUS
<1>4. w \in Workspace /\ WorkInv(t, w, clock) /\ ChunksInv(w)
  BY <1>2, <1>3, ChunkedInv
<1>5. DoneInv(t, w)
  BY <1>2, <1>3 DEF DoneInv, Workspace
<1>6. RunInv("audit", run[r], w, clock')
  BY <1>1, <1>2, <1>4, <1>5 DEF RunInv, AfterMake, BuildSteps
<1>7. "audit" \in Steps /\ clock' \in Nat /\ clock <= clock'
        /\ ws' = [ws EXCEPT ![r] = w]
  BY <1>1, <1>2, <1>3 DEF Steps, UpdatePalog
<1>8. QED
  BY <1>1, <1>4, <1>6, <1>7, MoveOf

\* The manifest is written.
LEMMA WriteInv ==
  ASSUME IInv, NEW r \in Runs, WriteManifest(r)
  PROVE  IInv'
<1> DEFINE t == run[r].tree
<1>1. /\ pc[r] = "manifest" /\ pc' = [pc EXCEPT ![r] = "save"]
      /\ clock' = clock /\ UNCHANGED <<cache, run, verdict>>
  BY DEF WriteManifest, Goto
<1>2. /\ WorkInv(t, ws[r], clock) /\ DoneInv(t, ws[r]) /\ ChunksInv(ws[r])
      /\ AuditedInv(t, ws[r])
      /\ t \in Tree /\ run[r] # Absent /\ ws[r] \in Workspace /\ clock \in Nat
  BY <1>1, RunFacts, AbsentAssumption DEF RunInv, Active, Steps, AfterMake
<1>3. PICK w : w = [ws[r] EXCEPT !.manifest = ManifestOf(t)]
  OBVIOUS
<1>4. /\ w \in Workspace /\ WorkInv(t, w, clock) /\ DoneInv(t, w)
      /\ ChunksInv(w) /\ AuditedInv(t, w) /\ WrittenInv(t, w)
  BY <1>2, <1>3, ManifestInv
<1>5. RunInv("save", run[r], w, clock')
  BY <1>1, <1>2, <1>4 DEF RunInv, AfterMake, BuildSteps
<1>6. "save" \in Steps /\ clock' \in Nat /\ clock <= clock'
        /\ ws' = [ws EXCEPT ![r] = w]
  BY <1>1, <1>2, <1>3 DEF Steps, WriteManifest
<1>7. QED
  BY <1>1, <1>4, <1>5, <1>6, MoveOf

\* What is saved is sealed.
LEMMA SaveInv ==
  ASSUME IInv, NEW r \in Runs, Save(r)
  PROVE  IInv'
<1> DEFINE t == run[r].tree
<1>1. /\ WorkInv(t, ws[r], clock) /\ DoneInv(t, ws[r]) /\ ChunksInv(ws[r])
      /\ WrittenInv(t, ws[r])
      /\ t \in Tree /\ ws[r] \in Workspace /\ clock \in Nat
  BY RunFacts DEF Save, RunInv, Active, Steps, AfterMake
<1>2. PICK e : e = EntryOf(t, ws[r])
  OBVIOUS
<1>3. e \in Entry /\ EntryInv(e, clock)
  BY <1>1, <1>2, SavedInv
<1>4. \A d \in cache : d \in Entry /\ EntryInv(d, clock)
  BY DEF IInv, TypeOK
<1>5. \A d \in cache' : d \in Entry /\ EntryInv(d, clock)
  BY <1>2, <1>3, <1>4 DEF Save
<1>6. Finish(r, "pass") /\ UNCHANGED <<clock, run>> /\ "pass" \in Verdicts
  BY DEF Save, Verdicts
<1>7. QED
  BY <1>5, <1>6, FinishOf

\* The invariant is inductive.
LEMMA NextInv == IInv /\ [Next]_vars => IInv'
<1> SUFFICES ASSUME IInv, [Next]_vars PROVE IInv'
  OBVIOUS
<1>1. ASSUME NEW r \in Runs, NEW job \in Jobs, NEW event \in Events,
             NEW t \in Trees, Checkout(r, job, event, t)
      PROVE  IInv'
  BY <1>1, CheckoutInv
<1>2. ASSUME NEW r \in Runs, Step(r) PROVE IInv'
  <2>1. CASE (\E e \in cache : RestoreHit(r, e)) \/ RestoreMiss(r)
    BY <2>1, RestoreInv
  <2>2. CASE InvalidateCold(r) \/ InvalidateWipe(r) \/ InvalidateByHash(r)
    BY <2>2, InvalidateInv
  <2>3. CASE ForceExtraction(r)
    BY <2>3, ForceInv
  <2>4. ASSUME NEW f \in Files, MakeSkip(r, f) \/ MakeCompile(r, f) PROVE IInv'
    BY <2>4, MakeInv
  <2>5. ASSUME NEW f \in Files, MakeFail(r, f) PROVE IInv'
    BY <2>5, StopOf DEF MakeFail, Verdicts
  <2>6. CASE MakeDone(r)
    BY <2>6, MakeDoneInv
  <2>7. CASE Elaborate(r) \/ Smoke(r) \/ AssembleAndAudit(r)
    BY <2>7, GatesInv
  <2>8. CASE UpdatePalog(r)
    BY <2>8, UpdateInv
  <2>9. CASE WriteManifest(r)
    BY <2>9, WriteInv
  <2>10. CASE Save(r)
    BY <2>10, SaveInv
  <2>11. CASE Link(r)
    BY <2>11, StopOf DEF Link, Verdicts
  <2>12. QED
    BY <1>2, <2>1, <2>2, <2>3, <2>4, <2>5, <2>6, <2>7, <2>8, <2>9, <2>10, <2>11
       DEF Step
<1>3. ASSUME NEW r \in Runs, Cancel(r) PROVE IInv'
  BY <1>3, StopOf DEF Cancel, Verdicts
<1>4. CASE UNCHANGED vars
  BY <1>4 DEF vars, IInv, TypeOK
<1>5. QED
  BY <1>1, <1>2, <1>3, <1>4 DEF Next

-----------------------------------------------------------------------------
(* Theorems.                                                               *)

\* The inductive invariant holds in every behaviour, for every corpus, every
\* history of trees and any number of concurrent runs.
THEOREM Invariance == Spec => []IInv
  BY InitInv, NextInv, PTL DEF Spec

\* Type correctness.  It needs the rest of IInv: a chunk is printed only of a
\* .vo that is there, and an entry has a manifest because one was written.
THEOREM TypeCorrect == Spec => []TypeOK
<1>1. IInv => TypeOK
  BY DEF IInv
<1>2. QED
  BY <1>1, Invariance, PTL

\* Incremental builds are fresh: with whatever entry a run starts, after make
\* each project file's .vo is the one a build from clean gives.
THEOREM BuildsAreFresh == Spec => []FreshBuild
<1>1. ASSUME IInv PROVE FreshBuild
  <2> SUFFICES ASSUME NEW r \in Runs, pc[r] \in AfterMake, Closed(run[r].tree),
                      NEW f \in run[r].tree.listed
               PROVE  Fresh(ws[r], run[r].tree, f)
    BY DEF FreshBuild
  <2> DEFINE t == run[r].tree
             w == ws[r]
  <2>1. /\ WorkInv(t, w, clock) /\ DoneInv(t, w)
        /\ t \in Tree /\ w \in Workspace /\ clock \in Nat
    BY <1>1, RunFacts DEF RunInv, AfterMake, Active, Steps
  <2>2. \A g \in t.listed : g \in Files /\ MadeInv(t, w, g) /\ VoInv(t, w, g)
    BY <2>1 DEF WorkInv, DoneInv, MadeInv, Tree
  <2>3. Complete(t)
    BY <2>2 DEF Complete, MadeInv
  <2>4. FreshInv(t, w, f)
    BY <2>1, <2>3 DEF WorkInv, DoneInv
  <2>5. f \in Files /\ w.vo[f] # Absent /\ Coherent(w.vo, f)
    BY <2>1, <2>2, DoneCoherent DEF MadeInv
  <2>6. Req(w.vo[f].closure[f]) = Req(t.text[f])
    <3>1. w.vo[f].closure[f] \in Texts /\ t.text[f] \in Texts
      BY <2>1, <2>2, <2>5, VoType DEF MadeInv, VoInv, Closure, Tree
    <3>2. QED
      BY <2>2, <3>1, SameReq DEF MadeInv
  <2>7. ASSUME NEW g \in Req(t.text[f])
        PROVE  /\ w.vo[g] # Absent
               /\ Mentioned(w.vo[g].closure) \subseteq Mentioned(w.vo[f].closure)
    <3>1. w.vo[g] # Absent
      BY <2>2, <2>3 DEF Complete, Closed, MadeInv
    <3>2. QED
      BY <2>2, <2>5, <2>6, <2>7, <3>1 DEF Coherent, Mentioned, VoInv
  <2>8. \A h \in Mentioned(w.vo[f].closure) :
           /\ h \in t.listed
           /\ t.text[h] # Absent
           /\ Digest[w.vo[f].closure[h]] = Digest[t.text[h]]
    BY <2>2, <2>4 DEF FreshInv, MadeInv
  <2>9. QED
    BY <2>2, <2>5, <2>7, <2>8 DEF Fresh, VoInv
<1>2. QED
  BY <1>1, Invariance, PTL

\* The audit speaks of the .vo files that are there and of this allowlist.
THEOREM AuditsAreCurrent == Spec => []AuditCurrent
<1>1. ASSUME IInv PROVE AuditCurrent
  <2> SUFFICES ASSUME NEW r \in Runs, pc[r] \in {"manifest", "save"},
                      NEW f \in run[r].tree.listed
               PROVE  /\ ws[r].vo[f] # Absent
                      /\ ws[r].palog[f] = AxiomsOf(ws[r].vo[f])
                      /\ f \notin run[r].tree.exempt =>
                            AxiomsOf(ws[r].vo[f]) \subseteq run[r].tree.allowed
    BY DEF AuditCurrent
  <2> DEFINE t == run[r].tree
             w == ws[r]
  <2>1. /\ WorkInv(t, w, clock) /\ DoneInv(t, w) /\ ChunksInv(w)
        /\ AuditedInv(t, w) /\ t \in Tree
    BY <1>1, RunFacts DEF RunInv, AfterMake, Active, Steps
  <2>2. f \in Files /\ w.vo[f] # Absent
    BY <2>1 DEF WorkInv, DoneInv, MadeInv, Tree
  <2>3. QED
    BY <2>1, <2>2 DEF ChunksInv, AuditedInv
<1>2. QED
  BY <1>1, Invariance, PTL

\* Every entry in the cache is one consistent snapshot.
THEOREM CacheIsSealed == Spec => []CacheSealed
<1>1. IInv => CacheSealed
  BY DEF IInv, EntryInv, CacheSealed
<1>2. QED
  BY <1>1, Invariance, PTL

-----------------------------------------------------------------------------
(* Runs outside pull requests.                                             *)

\* A step of run r keeps MInv if it keeps MainInv of r.
LEMMA MainStepOf ==
  ASSUME IInv, MInv, NEW r \in Runs, NEW p, NEW i, NEW w,
         pc' = [pc EXCEPT ![r] = p], run' = [run EXCEPT ![r] = i],
         ws' = [ws EXCEPT ![r] = w],
         MainInv(p, i, w)
  PROVE  MInv'
<1> SUFFICES ASSUME NEW q \in Runs PROVE MainInv(pc'[q], run'[q], ws'[q])
  BY DEF MInv
<1>1. CASE q = r
  BY <1>1 DEF IInv, TypeOK
<1>2. CASE q # r
  BY <1>2 DEF IInv, TypeOK, MInv
<1>3. QED
  BY <1>1, <1>2

\* A job that has ended claims nothing.
LEMMA MainFinish ==
  ASSUME IInv, MInv, NEW r \in Runs, NEW v, Finish(r, v), UNCHANGED run
  PROVE  MInv'
<1>1. run' = [run EXCEPT ![r] = run[r]]
  BY DEF IInv, TypeOK
<1>2. MainInv("done", run[r], EmptyWorkspace(0))
  BY DEF MainInv, AfterMake
<1>3. QED
  BY <1>1, <1>2, MainStepOf DEF Finish

\* Each run on main starts from nothing.
LEMMA MainCheckout ==
  ASSUME IInv, MInv, NEW r \in Runs, NEW job \in Jobs, NEW event \in Events,
         NEW t \in Trees, Checkout(r, job, event, t)
  PROVE  MInv'
<1> DEFINE i == [job |-> job, event |-> event, tree |-> t]
           w == EmptyWorkspace(clock)
<1>1. /\ pc' = [pc EXCEPT ![r] = "restore"] /\ run' = [run EXCEPT ![r] = i]
      /\ ws' = [ws EXCEPT ![r] = w]
  BY DEF Checkout, Goto
<1>2. MainInv("restore", i, w)
  BY DEF MainInv, Bare, Untouched, EmptyWorkspace, AfterMake
<1>3. QED
  BY <1>1, <1>2, MainStepOf

\* A step that changes only the step the run is at and its workspace.
LEMMA MainMoveOf ==
  ASSUME IInv, MInv, NEW r \in Runs, NEW p, NEW w,
         pc' = [pc EXCEPT ![r] = p], ws' = [ws EXCEPT ![r] = w],
         UNCHANGED run, MainInv(p, run[r], w)
  PROVE  MInv'
<1>1. run' = [run EXCEPT ![r] = run[r]]
  BY DEF IInv, TypeOK
<1>2. QED
  BY <1>1, MainStepOf

\* A run on main restores nothing.
LEMMA MainRestore ==
  ASSUME IInv, MInv, NEW r \in Runs,
         (\E e \in cache : RestoreHit(r, e)) \/ RestoreMiss(r)
  PROVE  MInv'
<1>1. /\ pc[r] = "restore" /\ pc' = [pc EXCEPT ![r] = "invalidate"]
      /\ UNCHANGED run
  BY DEF RestoreHit, RestoreMiss, Goto
<1>2. MainInv("restore", run[r], ws[r])
  BY <1>1 DEF MInv
<1>3. CASE run[r].event = "main"
  <2>1. UNCHANGED ws
    BY <1>3 DEF RestoreHit, RestoreMiss, RestoresCache
  <2>2. ws' = [ws EXCEPT ![r] = ws[r]]
    BY <2>1 DEF IInv, TypeOK
  <2>3. MainInv("invalidate", run[r], ws[r])
    BY <1>2 DEF MainInv, AfterMake
  <2>4. QED
    BY <1>1, <2>2, <2>3, MainMoveOf
<1>4. CASE run[r].event # "main"
  <2>1. PICK w : ws' = [ws EXCEPT ![r] = w]
    <3>1. CASE RestoreMiss(r)
      <4>1. ws' = [ws EXCEPT ![r] = ws[r]]
        BY <3>1 DEF RestoreMiss, IInv, TypeOK
      <4>2. QED
        BY <4>1
    <3>2. CASE \E e \in cache : RestoreHit(r, e)
      BY <3>2 DEF RestoreHit
    <3>3. QED
      BY <3>1, <3>2
  <2>2. MainInv("invalidate", run[r], w)
    BY <1>4 DEF MainInv
  <2>3. QED
    BY <1>1, <2>1, <2>2, MainMoveOf
<1>5. QED
  BY <1>3, <1>4

\* With nothing restored there is no manifest to go by.
LEMMA MainInvalidate ==
  ASSUME IInv, MInv, NEW r \in Runs,
         InvalidateCold(r) \/ InvalidateWipe(r) \/ InvalidateByHash(r)
  PROVE  MInv'
<1>1. /\ pc[r] = "invalidate" /\ pc' = [pc EXCEPT ![r] = AfterInvalidate(r)]
      /\ UNCHANGED run
  BY DEF InvalidateCold, InvalidateWipe, InvalidateByHash, Goto
<1>2. /\ MainInv("invalidate", run[r], ws[r])
      /\ AfterInvalidate(r) \in {"touch", "make"}
      /\ run[r] # Absent /\ ws[r] \in Workspace /\ clock \in Nat
  BY <1>1, RunFacts DEF MInv, AfterInvalidate, Active, Steps, RunInv
<1>3. CASE run[r].event = "main"
  <2>1. Bare(ws[r]) /\ Untouched(ws[r])
    BY <1>2, <1>3 DEF MainInv
  <2>2. InvalidateCold(r)
    BY <2>1 DEF Bare, InvalidateWipe, InvalidateByHash
  <2>3. PICK u : u = Stamped(ws[r], clock + 1)
    OBVIOUS
  <2>4. ws' = [ws EXCEPT ![r] = u]
    BY <2>2, <2>3 DEF InvalidateCold
  <2>5. u.vo = ws[r].vo /\ u.made = ws[r].made /\ u.log = ws[r].log
    BY <1>2, <2>3, StampedType
  <2>6. MainInv(AfterInvalidate(r), run[r], u)
    BY <1>2, <2>1, <2>5 DEF MainInv, Bare, Untouched
  <2>7. QED
    BY <1>1, <2>4, <2>6, MainMoveOf
<1>4. CASE run[r].event # "main"
  <2>1. PICK w : ws' = [ws EXCEPT ![r] = w]
    BY DEF InvalidateCold, InvalidateWipe, InvalidateByHash
  <2>2. MainInv(AfterInvalidate(r), run[r], w)
    BY <1>4 DEF MainInv
  <2>3. QED
    BY <1>1, <2>1, <2>2, MainMoveOf
<1>5. QED
  BY <1>3, <1>4

\* Touching a source, or a chunk, or the manifest compiles nothing.
LEMMA MainTouch ==
  ASSUME IInv, MInv, NEW r \in Runs,
         ForceExtraction(r) \/ UpdatePalog(r) \/ WriteManifest(r)
  PROVE  MInv'
<1>1. PICK p \in {"make", "audit", "save"} :
         /\ pc' = [pc EXCEPT ![r] = p]
         /\ pc[r] \in {"touch", "palog", "manifest"}
         /\ UNCHANGED run
  BY DEF ForceExtraction, UpdatePalog, WriteManifest, Goto
<1>2. ws[r] \in Workspace
  BY RunFacts
<1>3. PICK w : /\ ws' = [ws EXCEPT ![r] = w]
               /\ w.vo = ws[r].vo /\ w.made = ws[r].made /\ w.log = ws[r].log
  <2>1. PICK w : w \in {Touched(ws[r]), [ws[r] EXCEPT !.palog = Chunks(ws[r])],
                        [ws[r] EXCEPT !.manifest = ManifestOf(run[r].tree)]}
                 /\ ws' = [ws EXCEPT ![r] = w]
    BY DEF ForceExtraction, UpdatePalog, WriteManifest
  <2>2. w.vo = ws[r].vo /\ w.made = ws[r].made /\ w.log = ws[r].log
    BY <1>2, <2>1 DEF Touched, Workspace
  <2>3. QED
    BY <2>1, <2>2
<1>4. MainInv(p, run[r], w)
  BY <1>1, <1>3 DEF MInv, MainInv, AfterMake
<1>5. QED
  BY <1>1, <1>3, <1>4, MainMoveOf

\* A compile leaves no .vo that this run has not compiled.
LEMMA OnlyCompiled ==
  ASSUME NEW t \in Tree, NEW w \in Workspace, NEW f \in Files,
         Compiles(w, t, f), w.log = w.made,
         \A g \in Files \ w.log : w.vo[g] = Absent,
         NEW u, u = Compiled(w, t, f)
  PROVE  u.log = u.made /\ \A g \in Files \ u.log : u.vo[g] = Absent
<1>1. /\ u.vo = [w.vo EXCEPT ![f] = NewVo(w, t, f)]
      /\ u.made = w.made \cup {f} /\ u.log = w.log \cup {f}
  BY CompiledType
<1>2. QED
  BY <1>1 DEF Workspace, Artefacts

\* Nothing is up to date where nothing is.
LEMMA MainMake ==
  ASSUME IInv, MInv, NEW r \in Runs, NEW f \in Files,
         MakeSkip(r, f) \/ MakeCompile(r, f)
  PROVE  MInv'
<1> DEFINE t == run[r].tree
<1>1. /\ pc[r] = "make" /\ UNCHANGED <<pc, run>> /\ f \notin ws[r].made
      /\ pc' = [pc EXCEPT ![r] = "make"]
  BY DEF MakeSkip, MakeCompile, Ready, IInv, TypeOK
<1>2. /\ MainInv("make", run[r], ws[r]) /\ run[r] # Absent
      /\ ws[r] \in Workspace /\ t \in Tree
  BY <1>1, RunFacts DEF MInv, Active, Steps, RunInv
<1>3. CASE run[r].event = "main"
  <2>1. /\ ws[r].log = ws[r].made
        /\ \A g \in Files \ ws[r].log : ws[r].vo[g] = Absent
    BY <1>2, <1>3 DEF MainInv
  <2>2. MakeCompile(r, f)
    BY <1>1, <2>1 DEF MakeSkip, Stale
  <2>3. PICK u : u = Compiled(ws[r], t, f)
    OBVIOUS
  <2>4. ws' = [ws EXCEPT ![r] = u] /\ Compiles(ws[r], t, f)
    BY <2>2, <2>3 DEF MakeCompile
  <2>5. u.log = u.made /\ \A g \in Files \ u.log : u.vo[g] = Absent
    BY <1>2, <2>1, <2>3, <2>4, OnlyCompiled
  <2>6. MainInv("make", run[r], u)
    BY <2>5 DEF MainInv, AfterMake
  <2>7. QED
    BY <1>1, <2>4, <2>6, MainMoveOf
<1>4. CASE run[r].event # "main"
  <2>1. PICK w : ws' = [ws EXCEPT ![r] = w]
    BY DEF MakeSkip, MakeCompile
  <2>2. MainInv("make", run[r], w)
    BY <1>4 DEF MainInv
  <2>3. QED
    BY <1>1, <2>1, <2>2, MainMoveOf
<1>5. QED
  BY <1>3, <1>4

\* From the end of make on, only the step changes, or the job ends.
LEMMA MainGates ==
  ASSUME IInv, MInv, NEW r \in Runs,
         MakeDone(r) \/ Elaborate(r) \/ Smoke(r) \/ AssembleAndAudit(r)
  PROVE  MInv'
<1>1. CASE \E v : Finish(r, v) /\ UNCHANGED run
  BY <1>1, MainFinish
<1>2. CASE \E p \in AfterMake : pc' = [pc EXCEPT ![r] = p] /\ UNCHANGED <<run, ws>>
  <2>1. PICK p \in AfterMake : pc' = [pc EXCEPT ![r] = p] /\ UNCHANGED <<run, ws>>
    BY <1>2
  <2>2. pc[r] \in {"make"} \cup AfterMake
    BY DEF MakeDone, Elaborate, Smoke, AssembleAndAudit, Gate, Goto, AfterMake
  <2>3. MainInv(p, run[r], ws[r])
    BY <2>1, <2>2 DEF MInv, MainInv, AfterMake
  <2>4. ws' = [ws EXCEPT ![r] = ws[r]]
    BY <2>1 DEF IInv, TypeOK
  <2>5. QED
    BY <2>1, <2>3, <2>4, MainMoveOf
<1>3. QED
  <2>1. CASE MakeDone(r)
    BY <1>2, <2>1 DEF MakeDone, Goto, AfterMake
  <2>2. CASE Elaborate(r)
    BY <1>1, <1>2, <2>2 DEF Elaborate, Gate, AfterMake
  <2>3. CASE Smoke(r)
    BY <1>1, <1>2, <2>3 DEF Smoke, Gate, AfterMake
  <2>4. CASE AssembleAndAudit(r)
    BY <1>1, <1>2, <2>4 DEF AssembleAndAudit, Gate, AfterMake
  <2>5. QED
    BY <2>1, <2>2, <2>3, <2>4

\* MInv is kept by every step from a state of IInv.
LEMMA MainNext == IInv /\ MInv /\ [Next]_vars => MInv'
<1> SUFFICES ASSUME IInv, MInv, [Next]_vars PROVE MInv'
  OBVIOUS
<1>1. ASSUME NEW r \in Runs, NEW job \in Jobs, NEW event \in Events,
             NEW t \in Trees, Checkout(r, job, event, t)
      PROVE  MInv'
  BY <1>1, MainCheckout
<1>2. ASSUME NEW r \in Runs, NEW f \in Files,
             MakeSkip(r, f) \/ MakeCompile(r, f) \/ MakeFail(r, f)
      PROVE  MInv'
  BY <1>2, MainMake, MainFinish DEF MakeFail
<1>3. ASSUME NEW r \in Runs,
             (\E e \in cache : RestoreHit(r, e)) \/ RestoreMiss(r)
      PROVE  MInv'
  BY <1>3, MainRestore
<1>4. ASSUME NEW r \in Runs,
             InvalidateCold(r) \/ InvalidateWipe(r) \/ InvalidateByHash(r)
      PROVE  MInv'
  BY <1>4, MainInvalidate
<1>5. ASSUME NEW r \in Runs,
             ForceExtraction(r) \/ UpdatePalog(r) \/ WriteManifest(r)
      PROVE  MInv'
  BY <1>5, MainTouch
<1>6. ASSUME NEW r \in Runs,
             MakeDone(r) \/ Elaborate(r) \/ Smoke(r) \/ AssembleAndAudit(r)
      PROVE  MInv'
  BY <1>6, MainGates
<1>7. ASSUME NEW r \in Runs, Save(r) \/ Link(r) \/ Cancel(r)
      PROVE  MInv'
  BY <1>7, MainFinish DEF Save, Link, Cancel
<1>8. CASE UNCHANGED vars
  BY <1>8 DEF vars, MInv
<1>9. QED
  BY <1>1, <1>2, <1>3, <1>4, <1>5, <1>6, <1>7, <1>8 DEF Next, Step

\* The integrity anchor: a run outside pull requests, once make is done, has
\* compiled every project file itself.
THEOREM MainBuildsFromClean == Spec => []MainFromClean
<1>1. Init => MInv
  BY DEF Init, MInv, MainInv
<1>2. ASSUME IInv, MInv PROVE MainFromClean
  <2> SUFFICES ASSUME NEW r \in Runs, pc[r] \in AfterMake,
                      run[r].event = "main"
               PROVE  ws[r].log = run[r].tree.listed
    BY DEF MainFromClean
  <2>1. MainInv(pc[r], run[r], ws[r]) /\ run[r] # Absent
        /\ DoneInv(run[r].tree, ws[r])
    BY <1>2, RunFacts DEF MInv, RunInv, AfterMake, Active, Steps
  <2>2. QED
    BY <2>1 DEF MainInv, DoneInv
<1>3. QED
  BY <1>1, <1>2, MainNext, Invariance, PTL DEF Spec

-----------------------------------------------------------------------------
(* Every run ends: what of it is not about fairness                        *)

\* The files can be numbered so that each has a greater number than what it
\* requires: there is no circle among them (rocq compiles none that has one).
Layered(t) ==
  \E layer \in [Files -> Nat] :
     \A f \in t.listed : \A g \in Found(t, f) \cap t.listed : layer[g] < layer[f]

\* make has a target whose prerequisites it is finished with, or is done.
MakeHasWork ==
  \A r \in Runs : pc[r] = "make" /\ Layered(run[r].tree) =>
     run[r].tree.listed \subseteq ws[r].made \/ \E f \in Files : Ready(r, f)

\* The order in which a job takes its steps.
Order ==
  [idle |-> 0, restore |-> 1, invalidate |-> 2, touch |-> 3, make |-> 4,
   link |-> 5, elaborate |-> 5, smoke |-> 6, palog |-> 7, audit |-> 8,
   manifest |-> 9, save |-> 10, done |-> 11]

\* Run r takes a later step, or make has finished with one target more.
Further(r) ==
  \/ Order[pc[r]] < Order[pc'[r]]
  \/ /\ pc[r] = "make" /\ pc'[r] = "make"
     /\ \E f \in run[r].tree.listed \ ws[r].made :
           ws'[r].made = ws[r].made \cup {f}

\* What a run is at.
At(r) == <<pc[r], run[r], ws[r], verdict[r]>>

\* A step takes one run further and leaves the others where they are.
RunsGoForward ==
  [][\E r \in Runs : Further(r) /\ \A q \in Runs : q # r => At(q)' = At(q)]_vars

\* A set of numbered things that is not empty has one with the least number.
LEMMA LeastLayer ==
  ASSUME NEW S, NEW layer \in [S -> Nat], NEW T \in SUBSET S, T # {}
  PROVE  \E f \in T : \A g \in T : ~(layer[g] < layer[f])
<1> DEFINE N == {layer[f] : f \in T}
<1>1. N \subseteq Nat /\ N # {}
  OBVIOUS
<1>2. PICK n \in N : \A k \in N : <<k, n>> \notin OpToRel(<, Nat)
  <2> HIDE DEF N
  <2>1. QED
    BY <1>1, WFMin, NatLessThanWellFounded
<1>3. PICK f \in T : layer[f] = n
  OBVIOUS
<1>4. ASSUME NEW g \in T PROVE ~(layer[g] < layer[f])
  <2>1. <<layer[g], layer[f]>> \notin OpToRel(<, Nat)
    BY <1>2, <1>3
  <2>2. QED
    BY <2>1 DEF OpToRel
<1>5. QED
  BY <1>4

\* Of the targets that are left, the one in the lowest layer is ready.
LEMMA LowestTargetIsReady == IInv => MakeHasWork
<1> SUFFICES ASSUME IInv, NEW r \in Runs, pc[r] = "make",
                    Layered(run[r].tree), ~(run[r].tree.listed \subseteq ws[r].made)
             PROVE  \E f \in Files : Ready(r, f)
  BY DEF MakeHasWork
<1> DEFINE t == run[r].tree
           Left == t.listed \ ws[r].made
<1>1. t \in Tree
  BY RunFacts DEF Active, Steps
<1>2. PICK layer \in [Files -> Nat] :
         \A f \in t.listed : \A g \in Found(t, f) \cap t.listed : layer[g] < layer[f]
  BY DEF Layered
<1>3. Left \in SUBSET Files /\ Left # {}
  BY <1>1 DEF Tree
<1>4. PICK f \in Left : \A g \in Left : ~(layer[g] < layer[f])
  <2> HIDE DEF Left
  <2>1. QED
    BY <1>3, LeastLayer
<1>5. Found(t, f) \cap t.listed \subseteq ws[r].made
  BY <1>2, <1>4
<1>6. QED
  BY <1>3, <1>5 DEF Ready

\* make never waits for a target that no one will build: as long as the
\* requires of the tree form no circle, one of the targets that are left has its
\* prerequisites finished, whatever was restored, deleted or left unlisted.
THEOREM MakeNeverWaits == Spec => []MakeHasWork
  BY LowestTargetIsReady, Invariance, PTL

-----------------------------------------------------------------------------

\* What a step writes, it writes at one run.
LEMMA OneRunMoves ==
  ASSUME IInv, NEW r \in Runs,
         Step(r) \/ Cancel(r)
           \/ \E job \in Jobs, event \in Events, t \in Trees : Checkout(r, job, event, t),
         NEW q \in Runs, q # r
  PROVE  At(q)' = At(q)
<1> USE DEF IInv, TypeOK, At
<1>1. CASE \E job \in Jobs, event \in Events, t \in Trees : Checkout(r, job, event, t)
  BY <1>1 DEF Checkout, Goto
<1>2. CASE \E f \in Files : MakeSkip(r, f) \/ MakeCompile(r, f) \/ MakeFail(r, f)
  BY <1>2 DEF MakeSkip, MakeCompile, MakeFail, Finish
<1>3. CASE (\E e \in cache : RestoreHit(r, e)) \/ RestoreMiss(r)
  BY <1>3 DEF RestoreHit, RestoreMiss, Goto
<1>4. CASE InvalidateCold(r) \/ InvalidateWipe(r) \/ InvalidateByHash(r)
  BY <1>4 DEF InvalidateCold, InvalidateWipe, InvalidateByHash, Goto
<1>5. CASE ForceExtraction(r) \/ MakeDone(r) \/ UpdatePalog(r) \/ WriteManifest(r)
  BY <1>5 DEF ForceExtraction, MakeDone, UpdatePalog, WriteManifest, Goto
<1>6. CASE Elaborate(r) \/ Smoke(r) \/ AssembleAndAudit(r)
  BY <1>6 DEF Elaborate, Smoke, AssembleAndAudit, Gate, Finish
<1>7. CASE Save(r) \/ Link(r) \/ Cancel(r)
  BY <1>7 DEF Save, Link, Cancel, Finish
<1>8. QED
  BY <1>1, <1>2, <1>3, <1>4, <1>5, <1>6, <1>7 DEF Step

\* A run that ends has taken its last step.
LEMMA FinishIsFurther ==
  ASSUME IInv, NEW r \in Runs, NEW v, pc[r] \in Active, Finish(r, v)
  PROVE  Further(r)
  BY DEF IInv, TypeOK, Active, Steps, Finish, Further, Order

\* A step of make has one target more, or ends the run.
LEMMA MakeIsFurther ==
  ASSUME IInv, NEW r \in Runs, NEW f \in Files,
         MakeSkip(r, f) \/ MakeCompile(r, f) \/ MakeFail(r, f)
  PROVE  Further(r)
<1>1. CASE MakeSkip(r, f)
  <2>1. ws'[r].made = ws[r].made \cup {f} /\ pc' = pc
    BY <1>1, RunFacts DEF MakeSkip, Skipped, IInv, TypeOK, Workspace
  <2>2. QED
    BY <1>1, <2>1 DEF MakeSkip, Ready, Further
<1>2. CASE MakeCompile(r, f)
  <2>1. ws'[r].made = ws[r].made \cup {f} /\ pc' = pc
    BY <1>2, RunFacts DEF MakeCompile, Compiled, IInv, TypeOK, Workspace
  <2>2. QED
    BY <1>2, <2>1 DEF MakeCompile, Ready, Further
<1>3. CASE MakeFail(r, f)
  BY <1>3, FinishIsFurther DEF MakeFail, Ready, Active, Steps
<1>4. QED
  BY <1>1, <1>2, <1>3

\* Every step of a job is followed by a later one.
LEMMA StepIsFurther ==
  ASSUME IInv, NEW r \in Runs,
         Step(r) \/ Cancel(r)
           \/ \E job \in Jobs, event \in Events, t \in Trees : Checkout(r, job, event, t)
  PROVE  Further(r)
<1> USE DEF Further, Order
<1>0. pc \in [Runs -> Steps \cup {"idle", "done"}]
  BY DEF IInv, TypeOK
<1>1. CASE \E job \in Jobs, event \in Events, t \in Trees : Checkout(r, job, event, t)
  BY <1>0, <1>1 DEF Checkout, Goto
<1>2. CASE \E f \in Files : MakeSkip(r, f) \/ MakeCompile(r, f) \/ MakeFail(r, f)
  BY <1>2, MakeIsFurther
<1>3. CASE (\E e \in cache : RestoreHit(r, e)) \/ RestoreMiss(r)
  BY <1>0, <1>3 DEF RestoreHit, RestoreMiss, Goto
<1>4. CASE InvalidateCold(r) \/ InvalidateWipe(r) \/ InvalidateByHash(r)
  BY <1>0, <1>4 DEF InvalidateCold, InvalidateWipe, InvalidateByHash,
                    AfterInvalidate, Goto
<1>5. CASE ForceExtraction(r) \/ MakeDone(r) \/ UpdatePalog(r) \/ WriteManifest(r)
  BY <1>0, <1>5 DEF ForceExtraction, MakeDone, UpdatePalog, WriteManifest, Goto
<1>6. CASE Elaborate(r) \/ Smoke(r) \/ AssembleAndAudit(r)
  BY <1>0, <1>6, FinishIsFurther
  DEF Elaborate, Smoke, AssembleAndAudit, Gate, Active, Steps
<1>7. CASE Save(r) \/ Link(r) \/ Cancel(r)
  BY <1>7, FinishIsFurther DEF Save, Link, Cancel, Active, Steps
<1>8. QED
  BY <1>1, <1>2, <1>3, <1>4, <1>5, <1>6, <1>7 DEF Step

\* No run goes round in circles and none disturbs another: a step takes one run
\* to a later step of its job, or has its make finish with one more target, and
\* changes nothing of any other run; they meet in the cache alone.
THEOREM RunsOnlyGoForward == Spec => RunsGoForward
<1>1. ASSUME IInv, Next
      PROVE  \E r \in Runs : Further(r) /\ \A q \in Runs : q # r => At(q)' = At(q)
  BY <1>1, OneRunMoves, StepIsFurther DEF Next
<1>2. IInv /\ [Next]_vars =>
        [\E r \in Runs : Further(r) /\ \A q \in Runs : q # r => At(q)' = At(q)]_vars
  BY <1>1
<1>3. QED
  BY <1>2, Invariance, PTL DEF Spec, RunsGoForward
=============================================================================
