---------------------------- MODULE GauntletProofs ----------------------------
(***************************************************************************)
(* Proofs that the cached runs compile no more than they must and give the *)
(* verdicts of module Gauntlet, for every corpus, every set of trees and   *)
(* any number of runs.                                                     *)
(***************************************************************************)
EXTENDS GauntletInv, CorpusCacheProofs

-----------------------------------------------------------------------------
(* What a file is built from.                                              *)

\* Gauntlet says of a tree what CorpusCache says of it.
LEMMA SameTree ==
  ASSUME NEW t
  PROVE  /\ \A f : Clean!Needs(t, f) = Req(t.text[f])
         /\ Clean!Closed(t) <=> Closed(t)
<1>1. \A f : Clean!Needs(t, f) = Req(t.text[f])
  BY DEF Clean!Needs, Req
<1>2. QED
  BY <1>1 DEF Clean!Closed, Closed

\* A file is built from itself and from what it requires.
LEMMA ReachUp ==
  ASSUME NEW t, NEW f \in Files
  PROVE  /\ f \in Clean!Reach(t, f)
         /\ \A g \in Req(t.text[f]) : Clean!Reach(t, g) \subseteq Clean!Reach(t, f)
<1>1. f \in Clean!Reach(t, f)
  BY DEF Clean!Reach
<1>2. ASSUME NEW g \in Req(t.text[f]), NEW h \in Clean!Reach(t, g)
      PROVE  h \in Clean!Reach(t, f)
  <2>1. h \in Files
    BY DEF Clean!Reach
  <2>2. ASSUME NEW S \in SUBSET Files,
               f \in S, \A q \in S : Clean!Needs(t, q) \subseteq S
        PROVE  h \in S
    <3>1. g \in S
      BY <2>2, SameTree
    <3>2. QED
      BY <2>2, <3>1 DEF Clean!Reach
  <2>3. QED
    BY <2>1, <2>2 DEF Clean!Reach
<1>3. QED
  BY <1>1, <1>2

\* What a file is built from is closed under Require.
LEMMA ReachClosed ==
  ASSUME NEW t \in Tree, NEW f \in Files, NEW h \in Clean!Reach(t, f)
  PROVE  Req(t.text[h]) \subseteq Clean!Reach(t, f)
<1>1. h \in Files
  BY DEF Clean!Reach
<1>2. Req(t.text[h]) \subseteq Files
  BY <1>1, ReqType DEF Tree, Closure
<1>3. ASSUME NEW g \in Req(t.text[h]), NEW S \in SUBSET Files,
             f \in S, \A q \in S : Clean!Needs(t, q) \subseteq S
      PROVE  g \in S
  <2>1. h \in S
    BY <1>3 DEF Clean!Reach
  <2>2. QED
    BY <1>3, <2>1, SameTree
<1>4. QED
  BY <1>2, <1>3 DEF Clean!Reach

\* The set that has f and what its requirements are built from is what f is
\* built from.
LEMMA ReachOf ==
  ASSUME NEW t \in Tree, NEW f \in Files, NEW M \in SUBSET Files, f \in M,
         \A g \in Req(t.text[f]) : g \in Files /\ Clean!Reach(t, g) \subseteq M,
         \A h \in M \ {f} : \E g \in Req(t.text[f]) : h \in Clean!Reach(t, g)
  PROVE  M = Clean!Reach(t, f)
<1>1. M \subseteq Clean!Reach(t, f)
  BY ReachUp
<1>2. ASSUME NEW q \in M PROVE Clean!Needs(t, q) \subseteq M
  <2>1. CASE q = f
    <3>1. \A g \in Req(t.text[f]) : g \in M
      BY ReachUp
    <3>2. QED
      BY <2>1, <3>1, SameTree
  <2>2. CASE q # f
    <3>1. PICK g \in Req(t.text[f]) : q \in Clean!Reach(t, g)
      BY <2>2
    <3>2. Req(t.text[q]) \subseteq Clean!Reach(t, g)
      BY <3>1, ReachClosed
    <3>3. QED
      BY <3>1, <3>2, SameTree
  <2>3. QED
    BY <2>1, <2>2
<1>3. Clean!Reach(t, f) \subseteq M
  BY <1>2 DEF Clean!Reach
<1>4. QED
  BY <1>1, <1>3

-----------------------------------------------------------------------------
(* The invariant of one run, step by step.                                 *)

\* Losing .vo files leaves those that are there as they were.
LEMMA Thinned ==
  ASSUME NEW vo, NEW less, NEW F \in SUBSET Files,
         \A f \in Files : less[f] = Absent \/ less[f] = vo[f]
  PROVE  /\ Agrees(vo) => Agrees(less)
         /\ InOrder(vo, F) => InOrder(less, F)
<1>1. Agrees(vo) => Agrees(less)
  BY DEF Agrees
<1>2. ASSUME InOrder(vo, F), NEW f \in F, less[f] # Absent,
             NEW g \in F \cap Req(less[f].closure[f]), less[g] # Absent
      PROVE  less[g].mtime <= less[f].mtime
  <2>1. less[f] = vo[f] /\ less[g] = vo[g]
    BY <1>2
  <2>2. QED
    BY <1>2, <2>1 DEF InOrder
<1>3. QED
  BY <1>1, <1>2 DEF InOrder

\* Fewer files, fewer claims.
LEMMA InOrderFewer ==
  ASSUME NEW vo, NEW F, NEW G \in SUBSET F, InOrder(vo, F)
  PROVE  InOrder(vo, G)
  BY DEF InOrder

\* Nothing is there: nothing disagrees, nothing is out of order.
LEMMA BareClean ==
  ASSUME NEW vo, \A f \in Files : vo[f] = Absent
  PROVE  Agrees(vo) /\ InOrder(vo, Files)
  BY DEF Agrees, InOrder

\* Before make looks at a target, it has finished and compiled none.
LEMMA UntouchedClean ==
  ASSUME NEW t, NEW info, NEW w, Untouched(w)
  PROVE  /\ LoadedInv(t, w) /\ LogInv(info, w)
         /\ InOrder(w.vo, Files) => InOrder(w.vo, Files \ w.log)
  BY InOrderFewer DEF LoadedInv, LogInv, Untouched

\* The pass by hash ages just the unchanged sources, and a recorded file had
\* its .vo.
LEMMA SiftedClean ==
  ASSUME NEW info \in RunInfo, NEW w \in Workspace, NEW c \in Nat,
         RestoredInv(info.tree, w, c), w.manifest # Absent,
         info.tree \in Tree, Agrees(w.vo), InOrder(w.vo, Files),
         NEW now \in Nat, NEW u, u = Sifted(w, info.tree, now)
  PROVE  Agrees(u.vo) /\ InOrder(u.vo, Files) /\ AgedInv(info, u)
<1> DEFINE t == info.tree
<1>1. /\ \A f \in t.listed :
            /\ t.text[f] # Absent => u.vtime[f] = Aged(w.manifest, t, now, f)
            /\ u.vo[f] = w.vo[f]
      /\ \A f \in Files \ t.listed :
            u.vo[f] = IF f \in Recorded(w.manifest) THEN Absent ELSE w.vo[f]
      /\ u.manifest = w.manifest
      /\ t.listed \subseteq Files
  BY SiftedType DEF Tree
<1>2. \A f \in Files : u.vo[f] = Absent \/ u.vo[f] = w.vo[f]
  BY <1>1
<1>3. Agrees(u.vo) /\ InOrder(u.vo, Files)
  BY <1>2, Thinned
<1>4. ASSUME NEW f \in t.listed, f \in Recorded(w.manifest)
      PROVE  w.vo[f] # Absent
  <2>1. EntryInv(EntryOf(t, w), c)
    BY DEF RestoredInv, Bare
  <2>2. QED
    BY <1>1, <1>4, <2>1 DEF EntryInv, Sealed, EntryOf, Recorded
<1>5. ASSUME NEW f \in t.listed, t.text[f] # Absent, Unchanged(w.manifest, t, f)
      PROVE  u.vtime[f] = OLD_MTIME
  BY <1>1, <1>5 DEF Aged
<1>6. AgedInv(info, u)
  BY <1>1, <1>4, <1>5 DEF AgedInv
<1>7. QED
  BY <1>3, <1>6

\* A target whose .vo agrees with those of its finished requirements loads,
\* and is built from what Gauntlet says.
LEMMA LoadedStep ==
  ASSUME NEW t \in Tree, NEW w \in Workspace, NEW u \in Workspace,
         NEW f \in Files, f \notin w.made,
         LoadedInv(t, w), Complete(t), Req(t.text[f]) \subseteq w.made,
         u.made = w.made \cup {f},
         \A g \in Files : g # f => u.vo[g] = w.vo[g],
         u.vo[f] # Absent, u.vo[f].closure[f] # Absent,
         \A g \in Req(t.text[f]) : \A h \in Mentioned(w.vo[g].closure) \ {f} :
            u.vo[f].closure[h] = w.vo[g].closure[h],
         \A h \in Mentioned(u.vo[f].closure) \ {f} :
            \E g \in Req(t.text[f]) : h \in Mentioned(w.vo[g].closure)
  PROVE  LoadedInv(t, u)
<1>1. w.made \subseteq Files
  BY DEF Workspace
<1>2. \A g \in w.made : /\ Loads(w, g)
                        /\ Mentioned(w.vo[g].closure) \subseteq w.made
                        /\ Mentioned(w.vo[g].closure) = Clean!Reach(t, g)
  BY DEF LoadedInv
<1>3. ASSUME NEW g \in w.made
      PROVE  /\ Loads(u, g)
             /\ Mentioned(u.vo[g].closure) \subseteq u.made
             /\ Mentioned(u.vo[g].closure) = Clean!Reach(t, g)
  <2>1. u.vo[g] = w.vo[g]
    BY <1>1
  <2>2. \A h \in Mentioned(w.vo[g].closure) : u.vo[h] = w.vo[h]
    BY <1>1, <1>2
  <2>3. QED
    BY <1>2, <2>1, <2>2 DEF Loads
<1> DEFINE M == Mentioned(u.vo[f].closure)
<1>4. f \in M /\ M \subseteq Files
  BY DEF Mentioned
<1>5. ASSUME NEW g \in Req(t.text[f])
      PROVE  g \in Files /\ Clean!Reach(t, g) \subseteq M
  <2>1. g \in w.made /\ Clean!Reach(t, g) = Mentioned(w.vo[g].closure)
    BY <1>2
  <2>2. ASSUME NEW h \in Mentioned(w.vo[g].closure) PROVE h \in M
    <3>1. h # f /\ h \in Files /\ w.vo[g].closure[h] # Absent
      BY <1>2, <2>1, <2>2 DEF Mentioned
    <3>2. u.vo[f].closure[h] = w.vo[g].closure[h]
      BY <3>1
    <3>3. QED
      BY <3>1, <3>2 DEF Mentioned
  <2>3. QED
    BY <1>1, <2>1, <2>2
<1>6. \A h \in M \ {f} : \E g \in Req(t.text[f]) : h \in Clean!Reach(t, g)
  BY <1>2
<1>7. M = Clean!Reach(t, f)
  <2> HIDE DEF M
  <2> QED
    BY <1>4, <1>5, <1>6, ReachOf
<1>8. ASSUME NEW h \in M, h # f
      PROVE  /\ h \in w.made /\ u.vo[h] # Absent
             /\ u.vo[h].closure[h] = u.vo[f].closure[h]
  <2>1. PICK g \in Req(t.text[f]) : h \in Mentioned(w.vo[g].closure)
    BY <1>8
  <2>2. g \in w.made /\ Loads(w, g) /\ h \in w.made
    BY <1>2, <2>1
  <2>3. w.vo[h] # Absent /\ w.vo[h].closure[h] = w.vo[g].closure[h]
    BY <2>1, <2>2 DEF Loads
  <2>4. u.vo[h] = w.vo[h] /\ u.vo[f].closure[h] = w.vo[g].closure[h]
    BY <1>1, <1>8, <2>1, <2>2
  <2>5. QED
    BY <2>2, <2>3, <2>4
<1>9. Loads(u, f) /\ M \subseteq u.made
  BY <1>8 DEF Loads
<1>10. QED
  BY <1>3, <1>7, <1>9 DEF LoadedInv

\* What make asks of a target before it skips or compiles it.
LEMMA ReadyFacts ==
  ASSUME NEW t \in Tree, NEW w \in Workspace, NEW c \in Nat,
         WorkInv(t, w, c), NEW f \in t.listed, f \notin w.made,
         Found(t, f) \cap t.listed \subseteq w.made, ~ NoRule(w, t, f)
  PROVE  /\ f \in Files /\ f \notin w.log
         /\ t.text[f] \in Texts /\ t.text[f] # Absent
         /\ Req(t.text[f]) \subseteq Files
         /\ Found(t, f) \subseteq w.made /\ f \notin Found(t, f)
         /\ Complete(t) => Req(t.text[f]) \subseteq w.made
         /\ f \notin Req(t.text[f])
<1>1. f \in Files /\ f \notin w.log /\ t.text[f] # Absent
  BY DEF Tree, WorkInv, NoRule
<1>2. /\ Found(t, f) \subseteq w.made /\ f \notin Found(t, f)
      /\ t.text[f] \in Texts
      /\ Complete(t) => Req(t.text[f]) = Found(t, f)
  BY FoundMade
<1>3. f \notin Req(t.text[f])
  BY <1>1, <1>2 DEF Found
<1>4. QED
  BY <1>1, <1>2, <1>3, ReqType

\* A skipped target is built from what Gauntlet says, and is no leaf that
\* build-oracle has touched.
LEMMA SkippedClean ==
  ASSUME NEW info \in RunInfo, NEW t \in Tree, t = info.tree,
         NEW w \in Workspace, NEW c \in Nat,
         WorkInv(t, w, c), BuildInv(t, w), NEW f \in t.listed, f \notin w.made,
         Found(t, f) \cap t.listed \subseteq w.made,
         ~ NoRule(w, t, f), ~ Stale(w, t, f),
         LoadedInv(t, w), ForcedInv(info, w),
         NEW u, u = Skipped(w, f)
  PROVE  LoadedInv(t, u) /\ ForcedInv(info, u)
<1>1. /\ f \in Files /\ f \notin w.log /\ t.text[f] # Absent
      /\ t.text[f] \in Texts
      /\ Complete(t) => Req(t.text[f]) \subseteq w.made
  BY ReadyFacts
<1>2. /\ u \in Workspace
      /\ u.made = w.made \cup {f}
      /\ u.now = w.now /\ u.vo = w.vo /\ u.vtime = w.vtime /\ u.log = w.log
  BY <1>1, SkippedType
<1>3. w.vo[f] # Absent /\ VoInv(t, w, f) /\ w.vo[f].mtime \in Nat
  BY <1>1, VoType DEF Stale, WorkInv
<1>4. f = ExtractFile => info.job # "build-oracle"
  <2>1. w.vo[f].mtime < w.now
    BY <1>1, <1>3 DEF VoInv
  <2>2. ~ (w.vtime[f] > w.vo[f].mtime)
    BY DEF Stale
  <2>3. w.now \in Nat
    BY DEF Workspace
  <2>4. w.vtime[f] # w.now
    BY <1>3, <2>1, <2>2, <2>3
  <2>5. QED
    BY <2>4 DEF ForcedInv
<1>5. ForcedInv(info, u)
  BY <1>2, <1>4 DEF ForcedInv
<1>6. ASSUME Complete(t) PROVE LoadedInv(t, u)
  <2>1. WorkInv(t, u, c)
    BY SkippedInv
  <2>2. MadeInv(t, u, f) /\ VoInv(t, u, f)
    BY <1>1, <1>2, <1>3, <2>1 DEF WorkInv
  <2>3. /\ Digest[w.vo[f].closure[f]] = Digest[t.text[f]]
        /\ \A g \in Found(t, f) : w.vo[g].mtime <= w.vo[f].mtime
        /\ w.vo[f].closure[f] # Absent
        /\ CoherentSoFar(w.vo, f)
    BY <1>2, <2>2 DEF MadeInv, VoInv
  <2>4. w.vo[f].closure[f] \in Texts
    BY <1>1, <1>3, <2>3, VoType DEF Closure
  <2>5. Req(w.vo[f].closure[f]) = Req(t.text[f])
    BY <1>1, <2>3, <2>4, SameReq
  <2>6. ASSUME NEW g \in Req(t.text[f]) PROVE ~ Outdated(w.vo, f, g)
    <3>1. g \in w.made /\ g \in Files
      BY <1>1, <1>6 DEF Workspace
    <3>2. w.vo[g] # Absent /\ t.text[g] # Absent
      BY <3>1 DEF WorkInv, MadeInv
    <3>3. w.vo[g].mtime <= w.vo[f].mtime /\ w.vo[g].mtime \in Nat
      BY <2>3, <3>1, <3>2, VoType DEF Found
    <3>4. QED
      BY <1>3, <3>2, <3>3 DEF Outdated
  <2>7. /\ \A g \in Req(t.text[f]) : \A h \in Mentioned(w.vo[g].closure) \ {f} :
              w.vo[f].closure[h] = w.vo[g].closure[h]
        /\ \A h \in Mentioned(w.vo[f].closure) \ {f} :
              \E g \in Req(t.text[f]) : h \in Mentioned(w.vo[g].closure)
    BY <2>3, <2>5, <2>6 DEF CoherentSoFar
  <2>8. /\ \A g \in Files : g # f => u.vo[g] = w.vo[g]
        /\ u.vo[f] # Absent /\ u.vo[f].closure[f] # Absent
        /\ \A g \in Req(t.text[f]) : \A h \in Mentioned(w.vo[g].closure) \ {f} :
              u.vo[f].closure[h] = w.vo[g].closure[h]
        /\ \A h \in Mentioned(u.vo[f].closure) \ {f} :
              \E g \in Req(t.text[f]) : h \in Mentioned(w.vo[g].closure)
    BY <1>2, <1>3, <2>3, <2>7
  <2>9. u.made = w.made \cup {f} /\ Req(t.text[f]) \subseteq w.made
    BY <1>1, <1>2, <1>6
  <2>10. QED
    BY <1>1, <1>2, <1>6, <2>8, <2>9, LoadedStep
<1>7. QED
  BY <1>5, <1>6 DEF LoadedInv

\* What make compiles is affected by a change, or by the touch of the leaf.
LEMMA AffectedStep ==
  ASSUME NEW info \in RunInfo, NEW t \in Tree, t = info.tree,
         NEW w \in Workspace, NEW c \in Nat,
         WorkInv(t, w, c), BuildInv(t, w), NEW f \in t.listed, f \notin w.made,
         Found(t, f) \cap t.listed \subseteq w.made,
         ~ NoRule(w, t, f), Stale(w, t, f), Compiles(w, t, f),
         w.manifest # Absent, AgedInv(info, w), LogInv(info, w),
         InOrder(w.vo, Files \ w.log),
         NEW k, k = NewClosure(w, t, f)
  PROVE  \/ \E h \in Mentioned(k) :
               t.text[h] # Absent => w.manifest.files[h] # Digest[t.text[h]]
         \/ info.job = "build-oracle" /\ ExtractFile \in Mentioned(k)
<1> SUFFICES ASSUME \A h \in Mentioned(k) :
                       /\ t.text[h] # Absent
                       /\ w.manifest.files[h] = Digest[t.text[h]],
                    ~ (info.job = "build-oracle" /\ ExtractFile \in Mentioned(k))
             PROVE  FALSE
  OBVIOUS
<1>1. /\ f \in Files /\ f \notin w.log
      /\ t.text[f] \in Texts /\ t.text[f] # Absent
      /\ Req(t.text[f]) \subseteq Files
      /\ Found(t, f) \subseteq w.made
      /\ f \notin Req(t.text[f])
  BY ReadyFacts
<1>2. /\ k[f] = t.text[f]
      /\ \A g \in Req(t.text[f]) : \A h \in Mentioned(w.vo[g].closure) \ {f} :
            k[h] = w.vo[g].closure[h]
  BY <1>1, NewClosureFacts DEF Compiles
<1>3. \A g \in Req(t.text[f]) : Mentioned(w.vo[g].closure) \subseteq Mentioned(k)
  BY <1>1, <1>2 DEF Mentioned
<1>4. f \in Mentioned(k)
  BY <1>1, <1>2 DEF Mentioned
<1>5. Unchanged(w.manifest, t, f) /\ f \in Recorded(w.manifest)
  <2>1. w.manifest.files[f] = Digest[t.text[f]] /\ Digest[t.text[f]] # Absent
    BY <1>1, <1>4, ConstantsAssumption, AbsentAssumption
  <2>2. QED
    BY <1>1, <2>1 DEF Unchanged, source_sha256, Recorded
<1>6. w.vo[f] # Absent /\ w.vtime[f] = OLD_MTIME
  BY <1>1, <1>4, <1>5 DEF AgedInv
<1>7. w.vo[f].mtime \in Nat /\ VoInv(t, w, f) /\ KeptInv(t, w, f)
  BY <1>1, <1>6, VoType DEF WorkInv, BuildInv
<1>8. ~ (w.vtime[f] > w.vo[f].mtime)
  BY <1>6, <1>7 DEF OLD_MTIME
<1>9. Req(w.vo[f].closure[f]) = Req(t.text[f])
  <2>1. w.vo[f].closure[f] \in Texts
    BY <1>1, <1>6, <1>7, VoType DEF VoInv, Closure
  <2>2. Digest[w.vo[f].closure[f]] = Digest[t.text[f]]
    BY <1>4, <1>7 DEF KeptInv
  <2>3. QED
    BY <1>1, <2>1, <2>2, SameReq
<1>10. PICK g \in Found(t, f) :
         w.vo[g] # Absent /\ w.vo[g].mtime > w.vo[f].mtime
  BY <1>6, <1>8 DEF Stale
<1>11. g \in Req(t.text[f]) /\ g \in Files
  BY <1>1, <1>10 DEF Found
<1>12. CASE g \in w.log
  <2>1. Affected(w, t, g)
    BY <1>3, <1>11, <1>12 DEF LogInv
  <2>2. QED
    BY <1>3, <1>11, <2>1 DEF Affected
<1>13. CASE g \notin w.log
  <2>1. w.vo[g].mtime <= w.vo[f].mtime
    BY <1>1, <1>6, <1>9, <1>10, <1>11, <1>13 DEF InOrder
  <2>2. w.vo[g].mtime \in Nat
    BY <1>10, <1>11, VoType
  <2>3. QED
    BY <1>7, <1>10, <2>1, <2>2
<1>14. QED
  BY <1>12, <1>13

\* A compile keeps what is said of the .vo files that are there.
LEMMA CompiledClean ==
  ASSUME NEW info \in RunInfo, NEW t \in Tree, t = info.tree,
         NEW w \in Workspace, NEW c \in Nat,
         WorkInv(t, w, c), BuildInv(t, w), NEW f \in t.listed, f \notin w.made,
         Found(t, f) \cap t.listed \subseteq w.made,
         ~ NoRule(w, t, f), Stale(w, t, f), Compiles(w, t, f),
         Agrees(w.vo), InOrder(w.vo, Files \ w.log), LoadedInv(t, w),
         KeptManifestInv(info, w), ForcedInv(info, w),
         NEW u, u = Compiled(w, t, f)
  PROVE  /\ Agrees(u.vo) /\ InOrder(u.vo, Files \ u.log) /\ LoadedInv(t, u)
         /\ KeptManifestInv(info, u) /\ ForcedInv(info, u)
<1>1. /\ f \in Files /\ f \notin w.log
      /\ t.text[f] \in Texts /\ t.text[f] # Absent
      /\ Req(t.text[f]) \subseteq Files
      /\ Complete(t) => Req(t.text[f]) \subseteq w.made
      /\ f \notin Req(t.text[f])
  BY ReadyFacts
<1> DEFINE v == NewVo(w, t, f)
           k == NewClosure(w, t, f)
<1>2. /\ v \in Vo /\ u \in Workspace
      /\ u.vo = [w.vo EXCEPT ![f] = v]
      /\ u.made = w.made \cup {f} /\ u.log = w.log \cup {f}
      /\ u.now = w.now /\ u.vtime = w.vtime /\ u.manifest = w.manifest
  BY <1>1, CompiledType
<1>3. v.closure = k
  BY DEF NewVo
<1> HIDE DEF v
<1>4. /\ u.vo[f] = v /\ v # Absent
      /\ \A g \in Files : g # f => u.vo[g] = w.vo[g]
  BY <1>1, <1>2, AbsentAssumption DEF Workspace, Artefacts
<1>5. /\ k[f] = t.text[f]
      /\ \A g \in Req(t.text[f]) : \A h \in Mentioned(w.vo[g].closure) \ {f} :
            k[h] = w.vo[g].closure[h]
      /\ \A h \in Mentioned(k) \ {f} :
            \E g \in Req(t.text[f]) : h \in Mentioned(w.vo[g].closure)
  BY <1>1, NewClosureFacts DEF Compiles
<1>6. \A h \in Mentioned(k) : <<t.text[f], k[h]>> \notin Clashes
  BY DEF Compiles
<1>7. w.manifest # Absent =>
         \/ \E h \in Mentioned(k) :
               t.text[h] # Absent => w.manifest.files[h] # Digest[t.text[h]]
         \/ info.job = "build-oracle" /\ ExtractFile \in Mentioned(k)
  BY AffectedStep DEF KeptManifestInv
<1> HIDE DEF k
<1>8. Agrees(u.vo)
  <2> SUFFICES ASSUME NEW g \in Files, u.vo[g] # Absent,
                      NEW h \in Mentioned(u.vo[g].closure)
               PROVE  <<u.vo[g].closure[g], u.vo[g].closure[h]>> \notin Clashes
    BY DEF Agrees
  <2>1. CASE g = f
    BY <1>3, <1>4, <1>5, <1>6, <2>1
  <2>2. CASE g # f
    BY <1>4, <2>2 DEF Agrees
  <2>3. QED
    BY <2>1, <2>2
<1>9. InOrder(u.vo, Files \ u.log)
  <2>1. \A g \in Files \ u.log : g \in Files \ w.log /\ u.vo[g] = w.vo[g]
    BY <1>2, <1>4
  <2>2. QED
    BY <2>1 DEF InOrder
<1>10. ASSUME Complete(t) PROVE LoadedInv(t, u)
  <2>1. u.vo[f] # Absent /\ u.vo[f].closure = k /\ k[f] # Absent
    BY <1>1, <1>3, <1>4, <1>5
  <2>2. /\ \A g \in Files : g # f => u.vo[g] = w.vo[g]
        /\ u.vo[f] # Absent /\ u.vo[f].closure[f] # Absent
        /\ \A g \in Req(t.text[f]) : \A h \in Mentioned(w.vo[g].closure) \ {f} :
              u.vo[f].closure[h] = w.vo[g].closure[h]
        /\ \A h \in Mentioned(u.vo[f].closure) \ {f} :
              \E g \in Req(t.text[f]) : h \in Mentioned(w.vo[g].closure)
    BY <1>4, <1>5, <2>1
  <2>3. /\ u.made = w.made \cup {f} /\ Req(t.text[f]) \subseteq w.made
        /\ u \in Workspace /\ f \in Files
    BY <1>1, <1>2, <1>10
  <2>4. QED
    BY <1>10, <2>2, <2>3, LoadedStep
<1>11. ASSUME w.manifest # Absent PROVE AgedInv(info, u) /\ LogInv(info, u)
  <2>1. AgedInv(info, w) /\ LogInv(info, w)
    BY <1>11 DEF KeptManifestInv
  <2>2. \A g \in Files : w.vo[g] # Absent => u.vo[g] # Absent
    BY <1>4
  <2>3. AgedInv(info, u)
    BY <1>2, <2>1, <2>2 DEF AgedInv, Tree
  <2>4. ASSUME NEW g \in u.log
        PROVE  \/ Affected(u, t, g)
               \/ info.job = "build-oracle"
                    /\ ExtractFile \in Mentioned(u.vo[g].closure)
    <3>1. CASE g = f
      BY <1>2, <1>3, <1>4, <1>7, <1>11, <3>1 DEF Affected
    <3>2. CASE g # f
      <4>1. g \in w.log /\ g \in Files /\ u.vo[g] = w.vo[g]
        BY <1>2, <1>4, <2>4, <3>2 DEF Workspace
      <4>2. QED
        BY <1>2, <2>1, <4>1 DEF LogInv, Affected
    <3>3. QED
      BY <3>1, <3>2
  <2>5. QED
    BY <2>3, <2>4 DEF LogInv
<1>12. KeptManifestInv(info, u)
  BY <1>2, <1>11 DEF KeptManifestInv
<1>13. ForcedInv(info, u)
  BY <1>2 DEF ForcedInv
<1>14. QED
  BY <1>8, <1>9, <1>10, <1>12, <1>13 DEF LoadedInv

-----------------------------------------------------------------------------
(* The invariant of the runs and the cache.                                *)

\* What the invariant says of the run r.
LEMMA CleanFacts ==
  ASSUME GInv, NEW r \in Runs
  PROVE  /\ IInv
         /\ CleanInv(pc[r], run[r], ws[r], verdict[r])
         /\ RunInv(pc[r], run[r], ws[r], clock)
         /\ ws[r] \in Workspace /\ clock \in Nat
         /\ pc[r] \in Active =>
               run[r] \in RunInfo /\ run[r].tree \in Tree /\ run[r] # Absent
  BY RunFacts, AbsentAssumption DEF GInv

\* A step of r that keeps what is said of the cache and of r keeps everything.
LEMMA CleanStepOf ==
  ASSUME GInv, IInv', NEW r \in Runs, NEW p, NEW i, NEW w, NEW v,
         pc' = [pc EXCEPT ![r] = p], run' = [run EXCEPT ![r] = i],
         ws' = [ws EXCEPT ![r] = w], verdict' = [verdict EXCEPT ![r] = v],
         \A e \in cache' : Agrees(e.vo) /\ InOrder(e.vo, Files),
         CleanInv(p, i, w, v)
  PROVE  GInv'
<1> SUFFICES ASSUME NEW q \in Runs
             PROVE  CleanInv(pc'[q], run'[q], ws'[q], verdict'[q])
  BY DEF GInv
<1>1. CASE q = r
  BY <1>1 DEF GInv, IInv, TypeOK
<1>2. CASE q # r
  BY <1>2 DEF GInv, IInv, TypeOK
<1>3. QED
  BY <1>1, <1>2

\* A step of r that only moves it on and changes its workspace.
LEMMA CleanMoveOf ==
  ASSUME GInv, IInv', NEW r \in Runs, NEW p, NEW w,
         pc' = [pc EXCEPT ![r] = p], ws' = [ws EXCEPT ![r] = w],
         UNCHANGED <<cache, run, verdict>>,
         CleanInv(p, run[r], w, verdict[r])
  PROVE  GInv'
<1>1. /\ run' = [run EXCEPT ![r] = run[r]]
      /\ verdict' = [verdict EXCEPT ![r] = verdict[r]]
      /\ \A e \in cache' : Agrees(e.vo) /\ InOrder(e.vo, Files)
  BY DEF GInv, IInv, TypeOK
<1>2. QED
  BY <1>1, CleanStepOf

\* A run that ends leaves nothing behind but its entry.
LEMMA CleanFinish ==
  ASSUME GInv, IInv', NEW r \in Runs, NEW v, Finish(r, v), UNCHANGED run,
         \A e \in cache' : Agrees(e.vo) /\ InOrder(e.vo, Files)
  PROVE  GInv'
<1>1. run' = [run EXCEPT ![r] = run[r]]
  BY DEF GInv, IInv, TypeOK
<1>2. CleanInv("done", run[r], EmptyWorkspace(0), v)
  BY DEF CleanInv, PassedInv, GateSteps, AfterMake, Active, Steps
<1>3. QED
  BY <1>1, <1>2, CleanStepOf DEF Finish

\* A checkout starts with nothing and no verdict.
LEMMA CheckoutClean ==
  ASSUME GInv, IInv', NEW r \in Runs, NEW job \in Jobs, NEW event \in Events,
         NEW t \in Trees, Checkout(r, job, event, t)
  PROVE  GInv'
<1> DEFINE i == [job |-> job, event |-> event, tree |-> t]
           w == EmptyWorkspace(clock)
<1>1. /\ pc[r] = "idle" /\ pc' = [pc EXCEPT ![r] = "restore"]
      /\ run' = [run EXCEPT ![r] = i] /\ ws' = [ws EXCEPT ![r] = w]
      /\ verdict' = [verdict EXCEPT ![r] = verdict[r]]
      /\ \A e \in cache' : Agrees(e.vo) /\ InOrder(e.vo, Files)
  BY DEF Checkout, Goto, GInv, IInv, TypeOK
<1>2. verdict[r] = "none"
  BY <1>1, CleanFacts DEF CleanInv
<1>3. \A f \in Files : w.vo[f] = Absent
  BY DEF EmptyWorkspace
<1>4. Agrees(w.vo)
  BY <1>3, BareClean
<1> HIDE DEF w
<1>5. CleanInv("restore", i, w, verdict[r])
  BY <1>2, <1>4 DEF CleanInv, PassedInv, GateSteps, AfterMake
<1>6. QED
  BY <1>1, <1>5, CleanStepOf

\* A hit restores .vo files that agree and are in order.
LEMMA RestoreClean ==
  ASSUME GInv, IInv', NEW r \in Runs,
         (\E e \in cache : RestoreHit(r, e)) \/ RestoreMiss(r)
  PROVE  GInv'
<1>1. /\ pc[r] = "restore" /\ pc' = [pc EXCEPT ![r] = "invalidate"]
      /\ UNCHANGED <<cache, run, verdict>>
  BY DEF RestoreHit, RestoreMiss, Goto
<1>2. /\ Bare(ws[r]) /\ ws[r] \in Workspace /\ verdict[r] = "none"
      /\ ws \in [Runs -> Workspace]
  BY <1>1, CleanFacts DEF RunInv, CleanInv, IInv, TypeOK
<1>3. PICK w : /\ ws' = [ws EXCEPT ![r] = w]
               /\ Agrees(w.vo) /\ InOrder(w.vo, Files)
  <2>1. ASSUME NEW e \in cache, RestoreHit(r, e)
        PROVE  /\ ws' = [ws EXCEPT ![r] = Unpacked(ws[r], e)]
               /\ Agrees(Unpacked(ws[r], e).vo)
               /\ InOrder(Unpacked(ws[r], e).vo, Files)
    <3>1. Agrees(e.vo) /\ InOrder(e.vo, Files) /\ e \in Entry
      BY DEF GInv, IInv, TypeOK
    <3>2. PICK u : u = Unpacked(ws[r], e)
      OBVIOUS
    <3>3. u.vo = e.vo
      BY <1>2, <3>1, <3>2, UnpackedType
    <3>4. QED
      BY <2>1, <3>1, <3>2, <3>3 DEF RestoreHit
  <2>2. CASE RestoreMiss(r)
    <3>1. ws' = [ws EXCEPT ![r] = ws[r]]
      BY <1>2, <2>2 DEF RestoreMiss
    <3>2. Agrees(ws[r].vo) /\ InOrder(ws[r].vo, Files)
      BY <1>2, BareClean DEF Bare
    <3>3. QED
      BY <3>1, <3>2
  <2>3. QED
    BY <2>1, <2>2
<1>4. CleanInv("invalidate", run[r], w, verdict[r])
  BY <1>2, <1>3 DEF CleanInv, PassedInv, GateSteps, AfterMake
<1>5. QED
  BY <1>1, <1>3, <1>4, CleanMoveOf

\* However the invalidation goes, make goes by a manifest only if the .vo
\* files and the mtimes are as it says.
LEMMA InvalidateClean ==
  ASSUME GInv, IInv', NEW r \in Runs,
         InvalidateCold(r) \/ InvalidateWipe(r) \/ InvalidateByHash(r)
  PROVE  GInv'
<1> DEFINE t == run[r].tree
<1>1. /\ pc[r] = "invalidate" /\ pc' = [pc EXCEPT ![r] = AfterInvalidate(r)]
      /\ clock' = clock + 1 /\ UNCHANGED <<cache, run, verdict>>
  BY DEF InvalidateCold, InvalidateWipe, InvalidateByHash, Goto
<1>2. /\ RestoredInv(t, ws[r], clock) /\ Untouched(ws[r])
      /\ Agrees(ws[r].vo) /\ InOrder(ws[r].vo, Files)
      /\ run[r] \in RunInfo /\ t \in Tree /\ ws[r] \in Workspace
      /\ clock \in Nat /\ verdict[r] = "none" /\ run[r] # Absent
  BY <1>1, CleanFacts DEF RunInv, CleanInv, Active, Steps
<1>3. clock' \in Nat
  BY <1>1, <1>2
<1>4. PICK w : /\ ws' = [ws EXCEPT ![r] = w] /\ Untouched(w)
               /\ Agrees(w.vo) /\ InOrder(w.vo, Files)
               /\ w.manifest # Absent => AgedInv(run[r], w)
  <2>1. CASE InvalidateCold(r)
    <3>1. PICK u : u = Stamped(ws[r], clock')
      OBVIOUS
    <3>2. /\ u.vo = ws[r].vo /\ u.manifest = ws[r].manifest
          /\ u.made = ws[r].made /\ u.log = ws[r].log
      BY <1>2, <1>3, <3>1, StampedType
    <3>3. u.manifest = Absent /\ ws' = [ws EXCEPT ![r] = u]
      BY <1>1, <2>1, <3>1, <3>2 DEF InvalidateCold
    <3>4. QED
      BY <1>2, <3>2, <3>3 DEF Untouched
  <2>2. CASE InvalidateWipe(r)
    <3>1. PICK u : u = Wiped(ws[r], t, clock')
      OBVIOUS
    <3>2. /\ \A f \in Files : u.vo[f] = Absent \/ u.vo[f] = ws[r].vo[f]
          /\ u.manifest = Absent
          /\ u.made = ws[r].made /\ u.log = ws[r].log
      BY <1>2, <1>3, <3>1, WipedType
    <3>3. Agrees(u.vo) /\ InOrder(u.vo, Files)
      BY <1>2, <3>2, Thinned
    <3>4. ws' = [ws EXCEPT ![r] = u]
      BY <1>1, <2>2, <3>1 DEF InvalidateWipe
    <3>5. QED
      BY <1>2, <3>2, <3>3, <3>4 DEF Untouched
  <2>3. CASE InvalidateByHash(r)
    <3>1. PICK u : u = Sifted(ws[r], t, clock')
      OBVIOUS
    <3>2. u.made = ws[r].made /\ u.log = ws[r].log
      BY <1>2, <1>3, <3>1, SiftedType
    <3>3. Agrees(u.vo) /\ InOrder(u.vo, Files) /\ AgedInv(run[r], u)
      BY <1>2, <1>3, <2>3, <3>1, SiftedClean DEF InvalidateByHash
    <3>4. ws' = [ws EXCEPT ![r] = u]
      BY <1>1, <2>3, <3>1 DEF InvalidateByHash
    <3>5. QED
      BY <1>2, <3>2, <3>3, <3>4 DEF Untouched
  <2>4. QED
    BY <2>1, <2>2, <2>3
<1>5. /\ LoadedInv(t, w) /\ LogInv(run[r], w) /\ InOrder(w.vo, Files \ w.log)
  BY <1>4, UntouchedClean
<1>6. PICK p : /\ p = AfterInvalidate(r) /\ p \in {"touch", "make"}
               /\ p = "touch" <=> run[r].job = "build-oracle"
  BY DEF AfterInvalidate
<1>7. CleanInv(p, run[r], w, verdict[r])
  BY <1>2, <1>4, <1>5, <1>6
     DEF CleanInv, PassedInv, GateSteps, AfterMake, KeptManifestInv, ForcedInv
<1>8. QED
  BY <1>1, <1>4, <1>6, <1>7, CleanMoveOf

\* The touch of the leaf makes it newer than any restored .vo.
LEMMA ForceClean ==
  ASSUME GInv, IInv', NEW r \in Runs, ForceExtraction(r)
  PROVE  GInv'
<1> DEFINE t == run[r].tree
<1>1. /\ pc[r] = "touch" /\ pc' = [pc EXCEPT ![r] = "make"]
      /\ UNCHANGED <<cache, run, verdict>>
  BY DEF ForceExtraction, Goto
<1>2. /\ Untouched(ws[r]) /\ ws[r] \in Workspace /\ t \in Tree
      /\ Agrees(ws[r].vo) /\ InOrder(ws[r].vo, Files \ ws[r].log)
      /\ KeptManifestInv(run[r], ws[r])
      /\ run[r].job = "build-oracle" /\ verdict[r] = "none"
  BY <1>1, CleanFacts DEF RunInv, CleanInv, PassedInv, Active, Steps
<1>3. PICK w : w = Touched(ws[r])
  OBVIOUS
<1>4. /\ w.vtime = [ws[r].vtime EXCEPT ![ExtractFile] = ws[r].now]
      /\ w.now = ws[r].now /\ w.vo = ws[r].vo
      /\ w.manifest = ws[r].manifest /\ w.made = ws[r].made
      /\ w.log = ws[r].log
  BY <1>2, <1>3, TouchedType
<1>5. /\ w.vtime[ExtractFile] = w.now
      /\ \A f \in Files : f # ExtractFile => w.vtime[f] = ws[r].vtime[f]
  BY <1>2, <1>4, ConstantsAssumption DEF Workspace
<1>6. ForcedInv(run[r], w) /\ Untouched(w)
  BY <1>2, <1>4, <1>5 DEF ForcedInv, Untouched
<1>7. KeptManifestInv(run[r], w)
  <2>1. ASSUME w.manifest # Absent PROVE AgedInv(run[r], w)
    BY <1>2, <1>4, <1>5, <2>1 DEF KeptManifestInv, AgedInv, Tree
  <2>2. LogInv(run[r], w)
    BY <1>6, UntouchedClean
  <2>3. QED
    BY <2>1, <2>2 DEF KeptManifestInv
<1>8. LoadedInv(t, w)
  BY <1>6, UntouchedClean
<1>9. CleanInv("make", run[r], w, verdict[r])
  BY <1>2, <1>4, <1>6, <1>7, <1>8 DEF CleanInv, PassedInv, GateSteps, AfterMake
<1>10. ws' = [ws EXCEPT ![r] = w]
  BY <1>3 DEF ForceExtraction
<1>11. QED
  BY <1>1, <1>9, <1>10, CleanMoveOf

\* Looking at a target keeps it, whether make skips or compiles it.
LEMMA MakeClean ==
  ASSUME GInv, IInv', NEW r \in Runs, NEW f \in Files,
         MakeSkip(r, f) \/ MakeCompile(r, f)
  PROVE  GInv'
<1> DEFINE t == run[r].tree
<1>1. /\ pc[r] = "make" /\ pc' = pc /\ UNCHANGED <<cache, run, verdict>>
      /\ f \in t.listed /\ f \notin ws[r].made
      /\ Found(t, f) \cap t.listed \subseteq ws[r].made
      /\ ~ NoRule(ws[r], t, f)
  BY DEF MakeSkip, MakeCompile, Ready
<1>2. /\ WorkInv(t, ws[r], clock) /\ BuildInv(t, ws[r])
      /\ run[r] \in RunInfo /\ t \in Tree /\ run[r] # Absent
      /\ ws[r] \in Workspace /\ clock \in Nat
  BY <1>1, CleanFacts DEF RunInv, Active, Steps, BuildSteps
<1>3. /\ Agrees(ws[r].vo) /\ InOrder(ws[r].vo, Files \ ws[r].log)
      /\ LoadedInv(t, ws[r]) /\ KeptManifestInv(run[r], ws[r])
      /\ ForcedInv(run[r], ws[r]) /\ verdict[r] = "none"
  BY <1>1, CleanFacts DEF CleanInv, Active, Steps
<1>4. PICK w : /\ ws' = [ws EXCEPT ![r] = w]
               /\ Agrees(w.vo) /\ InOrder(w.vo, Files \ w.log)
               /\ LoadedInv(t, w) /\ KeptManifestInv(run[r], w)
               /\ ForcedInv(run[r], w)
  <2>1. CASE MakeSkip(r, f)
    <3>1. PICK u : u = Skipped(ws[r], f)
      OBVIOUS
    <3>2. ~ Stale(ws[r], t, f) /\ ws' = [ws EXCEPT ![r] = u]
      BY <2>1, <3>1 DEF MakeSkip
    <3>3. LoadedInv(t, u) /\ ForcedInv(run[r], u)
      BY <1>1, <1>2, <1>3, <3>1, <3>2, SkippedClean
    <3>4. /\ u.vo = ws[r].vo /\ u.vtime = ws[r].vtime
          /\ u.manifest = ws[r].manifest /\ u.log = ws[r].log
      BY <1>2, <3>1, SkippedType
    <3>5. KeptManifestInv(run[r], u)
      BY <1>3, <3>4 DEF KeptManifestInv, AgedInv, LogInv, Affected
    <3>6. QED
      BY <1>3, <3>2, <3>3, <3>4, <3>5
  <2>2. CASE MakeCompile(r, f)
    <3>1. PICK u : u = Compiled(ws[r], t, f)
      OBVIOUS
    <3>2. /\ Compiles(ws[r], t, f) /\ Stale(ws[r], t, f)
          /\ ws' = [ws EXCEPT ![r] = u]
      BY <2>2, <3>1 DEF MakeCompile
    <3>3. /\ Agrees(u.vo) /\ InOrder(u.vo, Files \ u.log) /\ LoadedInv(t, u)
          /\ KeptManifestInv(run[r], u) /\ ForcedInv(run[r], u)
      BY <1>1, <1>2, <1>3, <3>1, <3>2, CompiledClean
    <3>4. QED
      BY <3>2, <3>3
  <2>3. QED
    BY <2>1, <2>2
<1>5. CleanInv("make", run[r], w, verdict[r])
  BY <1>2, <1>3, <1>4 DEF CleanInv, PassedInv, GateSteps, AfterMake
<1>6. pc' = [pc EXCEPT ![r] = "make"]
  BY <1>1 DEF GInv, IInv, TypeOK
<1>7. QED
  BY <1>1, <1>4, <1>5, <1>6, CleanMoveOf

\* The end of make changes nothing.
LEMMA MakeDoneClean ==
  ASSUME GInv, IInv', NEW r \in Runs, MakeDone(r)
  PROVE  GInv'
<1>1. /\ pc[r] = "make" /\ UNCHANGED <<cache, run, ws, verdict>>
      /\ ws' = [ws EXCEPT ![r] = ws[r]]
  BY DEF MakeDone, Goto, GInv, IInv, TypeOK
<1>2. CleanInv("make", run[r], ws[r], verdict[r]) /\ run[r] \in RunInfo
  BY <1>1, CleanFacts DEF Active, Steps
<1>3. PICK p : /\ p = IF run[r].job = "build-oracle" THEN "link" ELSE "elaborate"
               /\ pc' = [pc EXCEPT ![r] = p]
  BY DEF MakeDone, Goto
<1>4. CleanInv(p, run[r], ws[r], verdict[r])
  <2>1. run[r].job \in Jobs
    BY <1>2 DEF RunInfo
  <2>2. QED
    BY <1>2, <1>3, <2>1
       DEF CleanInv, PassedInv, GateSteps, AfterMake, Active, Steps, Jobs
<1>5. QED
  BY <1>1, <1>3, <1>4, CleanMoveOf

\* A gate that opens is remembered.
LEMMA GatesClean ==
  ASSUME GInv, IInv', NEW r \in Runs,
         Elaborate(r) \/ Smoke(r) \/ AssembleAndAudit(r)
  PROVE  GInv'
<1>1. CleanInv(pc[r], run[r], ws[r], verdict[r])
  BY CleanFacts
<1>2. UNCHANGED <<cache, run>>
  BY DEF Elaborate, Smoke, AssembleAndAudit, Gate
<1>3. CASE Finish(r, "fail")
  BY <1>2, <1>3, CleanFinish DEF GInv
<1>4. CASE ~ Finish(r, "fail")
  <2>1. PICK p : /\ pc' = [pc EXCEPT ![r] = p] /\ UNCHANGED <<ws, verdict>>
                 /\ CleanInv(p, run[r], ws[r], verdict[r])
    <3>1. CASE Elaborate(r)
      <4>1. /\ pc[r] = "elaborate" /\ Elaborates(ws[r], run[r].tree)
            /\ pc' = [pc EXCEPT ![r] = "smoke"] /\ UNCHANGED <<ws, verdict>>
        BY <1>4, <3>1 DEF Elaborate, Gate
      <4>2. CleanInv("smoke", run[r], ws[r], verdict[r])
        BY <1>1, <4>1
           DEF CleanInv, PassedInv, GateSteps, AfterMake, Active, Steps
      <4>3. QED
        BY <4>1, <4>2
    <3>2. CASE Smoke(r)
      <4>1. /\ pc[r] = "smoke" /\ \A q \in ProbeRoots : Loads(ws[r], q)
            /\ pc' = [pc EXCEPT ![r] = "palog"] /\ UNCHANGED <<ws, verdict>>
        BY <1>4, <3>2 DEF Smoke, Gate
      <4>2. CleanInv("palog", run[r], ws[r], verdict[r])
        BY <1>1, <4>1
           DEF CleanInv, PassedInv, GateSteps, AfterMake, Active, Steps
      <4>3. QED
        BY <4>1, <4>2
    <3>3. CASE AssembleAndAudit(r)
      <4>1. /\ pc[r] = "audit" /\ AuditPasses(ws[r], run[r].tree)
            /\ pc' = [pc EXCEPT ![r] = "manifest"] /\ UNCHANGED <<ws, verdict>>
        BY <1>4, <3>3 DEF AssembleAndAudit, Gate
      <4>2. CleanInv("manifest", run[r], ws[r], verdict[r])
        BY <1>1, <4>1
           DEF CleanInv, PassedInv, GateSteps, AfterMake, Active, Steps
      <4>3. QED
        BY <4>1, <4>2
    <3>4. QED
      BY <3>1, <3>2, <3>3
  <2>2. ws' = [ws EXCEPT ![r] = ws[r]]
    BY <2>1 DEF GInv, IInv, TypeOK
  <2>3. QED
    BY <1>2, <2>1, <2>2, CleanMoveOf
<1>5. QED
  BY <1>3, <1>4

\* What is said of the .vo files does not depend on the chunks, nor, but for
\* what make goes by, on the manifest.
LEMMA SameVos ==
  ASSUME NEW w, NEW u, NEW info, NEW t,
         u.vo = w.vo, u.vtime = w.vtime, u.now = w.now, u.made = w.made,
         u.log = w.log
  PROVE  /\ Agrees(w.vo) => Agrees(u.vo)
         /\ InOrder(w.vo, Files \ w.log) => InOrder(u.vo, Files \ u.log)
         /\ LoadedInv(t, w) => LoadedInv(t, u)
         /\ ForcedInv(info, w) => ForcedInv(info, u)
         /\ Elaborates(w, t) => Elaborates(u, t)
         /\ \A q \in ProbeRoots : Loads(w, q) => Loads(u, q)
         /\ KeptManifestInv(info, w) /\ u.manifest = w.manifest
               => KeptManifestInv(info, u)
         /\ AuditPasses(w, t) /\ u.palog = w.palog => AuditPasses(u, t)
<1>1. \A q \in Files : Loads(w, q) => Loads(u, q)
  BY DEF Loads
<1>2. LoadedInv(t, w) => LoadedInv(t, u)
  BY DEF LoadedInv, Loads
<1>3. Elaborates(w, t) => Elaborates(u, t)
  BY DEF Elaborates, Loads
<1>4. KeptManifestInv(info, w) /\ u.manifest = w.manifest
         => KeptManifestInv(info, u)
  BY DEF KeptManifestInv, AgedInv, LogInv, Affected
<1>5. AuditPasses(w, t) /\ u.palog = w.palog => AuditPasses(u, t)
  BY DEF AuditPasses
<1>6. \A q \in ProbeRoots : Loads(w, q) => Loads(u, q)
  BY <1>1, ConstantsAssumption
<1>7. QED
  BY <1>2, <1>3, <1>4, <1>5, <1>6 DEF ForcedInv

\* Neither the chunks nor the manifest written change a .vo.
LEMMA WrittenClean ==
  ASSUME GInv, IInv', NEW r \in Runs, UpdatePalog(r) \/ WriteManifest(r)
  PROVE  GInv'
<1> DEFINE t == run[r].tree
<1>1. CleanInv(pc[r], run[r], ws[r], verdict[r]) /\ ws[r] \in Workspace
  BY CleanFacts
<1>2. CASE UpdatePalog(r)
  <2>1. PICK w : w = [ws[r] EXCEPT !.palog = Chunks(ws[r])]
    OBVIOUS
  <2>2. /\ w.vo = ws[r].vo /\ w.vtime = ws[r].vtime /\ w.now = ws[r].now
        /\ w.made = ws[r].made /\ w.log = ws[r].log
        /\ w.manifest = ws[r].manifest
    BY <1>1, <2>1 DEF Workspace
  <2>3. /\ pc[r] = "palog" /\ pc' = [pc EXCEPT ![r] = "audit"]
        /\ ws' = [ws EXCEPT ![r] = w] /\ UNCHANGED <<cache, run, verdict>>
    BY <1>2, <2>1 DEF UpdatePalog, Goto
  <2>4. CleanInv("audit", run[r], w, verdict[r])
    BY <1>1, <2>2, <2>3, SameVos
       DEF CleanInv, PassedInv, GateSteps, AfterMake, Active, Steps
  <2>5. QED
    BY <2>3, <2>4, CleanMoveOf
<1>3. CASE WriteManifest(r)
  <2>1. PICK w : w = [ws[r] EXCEPT !.manifest = ManifestOf(t)]
    OBVIOUS
  <2>2. /\ w.vo = ws[r].vo /\ w.vtime = ws[r].vtime /\ w.now = ws[r].now
        /\ w.made = ws[r].made /\ w.log = ws[r].log
        /\ w.palog = ws[r].palog
    BY <1>1, <2>1 DEF Workspace
  <2>3. /\ pc[r] = "manifest" /\ pc' = [pc EXCEPT ![r] = "save"]
        /\ ws' = [ws EXCEPT ![r] = w] /\ UNCHANGED <<cache, run, verdict>>
    BY <1>3, <2>1 DEF WriteManifest, Goto
  <2>4. CleanInv("save", run[r], w, verdict[r])
    BY <1>1, <2>2, <2>3, SameVos
       DEF CleanInv, PassedInv, GateSteps, AfterMake, Active, Steps
  <2>5. QED
    BY <2>3, <2>4, CleanMoveOf
<1>4. QED
  BY <1>2, <1>3

\* When make is done every .vo is in order, so what is saved is.
LEMMA SaveClean ==
  ASSUME GInv, IInv', NEW r \in Runs, Save(r)
  PROVE  GInv'
<1> DEFINE t == run[r].tree
           w == ws[r]
<1>1. /\ WorkInv(t, w, clock) /\ DoneInv(t, w) /\ Agrees(w.vo)
      /\ t \in Tree /\ w \in Workspace
  BY CleanFacts DEF Save, RunInv, CleanInv, Active, Steps, AfterMake
<1> HIDE DEF w, t
<1>2. InOrder(w.vo, Files)
  <2> SUFFICES ASSUME NEW f \in Files, w.vo[f] # Absent,
                      NEW g \in Files, g \in Req(w.vo[f].closure[f]),
                      w.vo[g] # Absent
               PROVE  w.vo[g].mtime <= w.vo[f].mtime
    BY DEF InOrder
  <2>1. /\ f \in w.made /\ g \in w.made
        /\ VoInv(t, w, f) /\ MadeInv(t, w, f) /\ MadeInv(t, w, g)
    BY <1>1 DEF WorkInv, VoInv, DoneInv
  <2>2. w.vo[f].closure[f] \in Texts /\ t.text[f] \in Texts
    BY <1>1, <2>1, VoType DEF VoInv, MadeInv, Closure, Tree
  <2>3. Req(w.vo[f].closure[f]) = Req(t.text[f])
    BY <2>1, <2>2, SameReq DEF MadeInv
  <2>4. g \in Found(t, f)
    BY <2>1, <2>3 DEF Found, MadeInv
  <2>5. QED
    BY <2>1, <2>4 DEF MadeInv
<1>3. EntryOf(t, w).vo = w.vo
  BY DEF EntryOf
<1>4. \A e \in cache' : Agrees(e.vo) /\ InOrder(e.vo, Files)
  <2>1. \A e \in cache : Agrees(e.vo) /\ InOrder(e.vo, Files)
    BY DEF GInv
  <2>2. cache' = cache \/ cache' = cache \cup {EntryOf(t, w)}
    BY DEF Save, t, w
  <2>3. QED
    BY <1>1, <1>2, <1>3, <2>1, <2>2
<1>5. Finish(r, "pass") /\ UNCHANGED run
  BY DEF Save
<1>6. QED
  BY <1>4, <1>5, CleanFinish

\* The invariant holds before any run.
LEMMA InitClean == Init => GInv
<1> SUFFICES ASSUME Init PROVE GInv
  OBVIOUS
<1>1. ASSUME NEW r \in Runs PROVE CleanInv(pc[r], run[r], ws[r], verdict[r])
  BY DEF Init, CleanInv, PassedInv, GateSteps, AfterMake, Active, Steps
<1>2. QED
  BY <1>1, InitInv DEF GInv, Init

\* The invariant is inductive.
LEMMA NextClean == GInv /\ [Next]_vars => GInv'
<1> SUFFICES ASSUME GInv, [Next]_vars PROVE GInv'
  OBVIOUS
<1>1. IInv'
  BY NextInv DEF GInv
<1>2. ASSUME NEW r \in Runs, NEW job \in Jobs, NEW event \in Events,
             NEW t \in Trees, Checkout(r, job, event, t)
      PROVE  GInv'
  BY <1>1, <1>2, CheckoutClean
<1>3. ASSUME NEW r \in Runs, Step(r) PROVE GInv'
  <2>1. CASE (\E e \in cache : RestoreHit(r, e)) \/ RestoreMiss(r)
    BY <1>1, <2>1, RestoreClean
  <2>2. CASE InvalidateCold(r) \/ InvalidateWipe(r) \/ InvalidateByHash(r)
    BY <1>1, <2>2, InvalidateClean
  <2>3. CASE ForceExtraction(r)
    BY <1>1, <2>3, ForceClean
  <2>4. ASSUME NEW f \in Files, MakeSkip(r, f) \/ MakeCompile(r, f) PROVE GInv'
    BY <1>1, <2>4, MakeClean
  <2>5. ASSUME NEW f \in Files, MakeFail(r, f) PROVE GInv'
    BY <1>1, <2>5, CleanFinish DEF MakeFail, GInv
  <2>6. CASE MakeDone(r)
    BY <1>1, <2>6, MakeDoneClean
  <2>7. CASE Elaborate(r) \/ Smoke(r) \/ AssembleAndAudit(r)
    BY <1>1, <2>7, GatesClean
  <2>8. CASE UpdatePalog(r) \/ WriteManifest(r)
    BY <1>1, <2>8, WrittenClean
  <2>9. CASE Save(r)
    BY <1>1, <2>9, SaveClean
  <2>10. CASE Link(r)
    BY <1>1, <2>10, CleanFinish DEF Link, GInv
  <2>11. QED
    BY <1>3, <2>1, <2>2, <2>3, <2>4, <2>5, <2>6, <2>7, <2>8, <2>9, <2>10
       DEF Step
<1>4. ASSUME NEW r \in Runs, Cancel(r) PROVE GInv'
  BY <1>1, <1>4, CleanFinish DEF Cancel, GInv
<1>5. CASE UNCHANGED vars
  BY <1>1, <1>5 DEF vars, GInv
<1>6. QED
  BY <1>2, <1>3, <1>4, <1>5 DEF Next

\* The inductive invariant holds in every behaviour, for every corpus, every
\* history of trees and any number of concurrent runs.
THEOREM CleanInvariance == Spec => []GInv
  BY InitClean, NextClean, PTL DEF Spec

\* The incremental build is incremental: a run that kept a manifest compiles
\* only what a change, or the touch of the extraction leaf, affects.
THEOREM RebuildsAreMinimal == Spec => []MinimalRebuild
<1>1. ASSUME GInv PROVE MinimalRebuild
  <2> SUFFICES ASSUME NEW r \in Runs,
                      pc[r] \in {"make"} \cup (AfterMake \ {"save"}),
                      ws[r].manifest # Absent
               PROVE  LogInv(run[r], ws[r])
    BY DEF MinimalRebuild, LogInv
  <2>1. KeptManifestInv(run[r], ws[r])
    BY <1>1, CleanFacts DEF CleanInv
  <2>2. QED
    BY <2>1 DEF KeptManifestInv
<1>2. QED
  BY <1>1, CleanInvariance, PTL

-----------------------------------------------------------------------------
(* The verdicts are those of a build from clean.                           *)

\* Two texts with one digest clash with the same texts.
LEMMA SameClashes ==
  ASSUME NEW x \in Texts, NEW y \in Texts, NEW z \in Texts,
         Digest[x] = Digest[y]
  PROVE  /\ <<x, z>> \in Clashes <=> <<y, z>> \in Clashes
         /\ <<z, x>> \in Clashes <=> <<z, y>> \in Clashes
<1>1. \A q \in Texts : /\ <<x, q>> \in Clashes <=> <<y, q>> \in Clashes
                       /\ <<q, x>> \in Clashes <=> <<q, y>> \in Clashes
  BY DigestAssumption
<1>2. QED
  BY <1>1

\* A finished target is compiled from texts interchangeable with the tree's,
\* none of which clash, and from all that Gauntlet builds it from.
LEMMA TargetFacts ==
  ASSUME NEW t \in Tree, NEW w \in Workspace, NEW c \in Nat,
         WorkInv(t, w, c), Agrees(w.vo), LoadedInv(t, w), Complete(t),
         NEW f \in w.made
  PROVE  /\ f \in Files /\ Loads(w, f)
         /\ Mentioned(w.vo[f].closure) = Clean!Reach(t, f)
         /\ \A h \in Clean!Reach(t, f) :
               /\ w.vo[f].closure[h] \in Texts /\ t.text[h] \in Texts
               /\ Digest[w.vo[f].closure[h]] = Digest[t.text[h]]
               /\ <<t.text[f], t.text[h]>> \notin Clashes
<1> DEFINE k == w.vo[f].closure
<1>1. /\ f \in Files /\ Loads(w, f) /\ Mentioned(k) = Clean!Reach(t, f)
      /\ w.vo[f] # Absent
  BY DEF LoadedInv, Workspace, Loads
<1>2. /\ k \in Closure /\ FreshInv(t, w, f) /\ k[f] # Absent
  BY <1>1, VoType DEF WorkInv, VoInv
<1>3. ASSUME NEW h \in Clean!Reach(t, f)
      PROVE  /\ k[h] \in Texts /\ t.text[h] \in Texts
             /\ Digest[k[h]] = Digest[t.text[h]]
             /\ <<k[f], k[h]>> \notin Clashes
  <2>1. h \in Mentioned(k)
    BY <1>1
  <2>2. h \in Files /\ k[h] \in Texts
    BY <1>2, <2>1 DEF Mentioned, Closure
  <2>3. h \in t.listed /\ Digest[k[h]] = Digest[t.text[h]]
    BY <1>2, <2>1 DEF FreshInv
  <2>4. t.text[h] \in Texts
    BY <2>2, <2>3 DEF Complete, Tree, Closure
  <2>5. <<k[f], k[h]>> \notin Clashes
    BY <1>1, <2>1 DEF Agrees
  <2>6. QED
    BY <2>2, <2>3, <2>4, <2>5
<1>4. f \in Clean!Reach(t, f)
  BY <1>1, ReachUp
<1> HIDE DEF k
<1>5. ASSUME NEW h \in Clean!Reach(t, f)
      PROVE  <<t.text[f], t.text[h]>> \notin Clashes
  <2>1. /\ k[f] \in Texts /\ t.text[f] \in Texts
        /\ Digest[k[f]] = Digest[t.text[f]]
    BY <1>3, <1>4
  <2>2. /\ k[h] \in Texts /\ t.text[h] \in Texts
        /\ Digest[k[h]] = Digest[t.text[h]]
        /\ <<k[f], k[h]>> \notin Clashes
    BY <1>3, <1>5
  <2>3. <<t.text[f], k[h]>> \notin Clashes
    BY <2>1, <2>2, SameClashes
  <2>4. QED
    BY <2>1, <2>2, <2>3, SameClashes
<1>6. QED
  BY <1>1, <1>3, <1>5 DEF k

\* Its blocks list the axioms Gauntlet counts.
LEMMA TargetAxioms ==
  ASSUME NEW t \in Tree, NEW w \in Workspace, NEW f \in Files,
         Mentioned(w.vo[f].closure) = Clean!Reach(t, f),
         \A h \in Clean!Reach(t, f) :
            /\ w.vo[f].closure[h] \in Texts /\ t.text[h] \in Texts
            /\ Digest[w.vo[f].closure[h]] = Digest[t.text[h]]
  PROVE  AxiomsOf(w.vo[f]) = Clean!AxiomsReached(t, f)
<1>1. \A h \in Clean!Reach(t, f) :
         AxiomsIn[w.vo[f].closure[h]] = AxiomsIn[t.text[h]]
  BY DigestAssumption
<1>2. {AxiomsIn[w.vo[f].closure[h]] : h \in Mentioned(w.vo[f].closure)}
        = {AxiomsIn[t.text[h]] : h \in Clean!Reach(t, f)}
  BY <1>1
<1>3. QED
  BY <1>2 DEF AxiomsOf, Clean!AxiomsReached

\* When make is done on a closed tree, the tree builds.
LEMMA DoneBuilds ==
  ASSUME NEW t \in Tree, NEW w \in Workspace, NEW c \in Nat,
         WorkInv(t, w, c), DoneInv(t, w), Agrees(w.vo), LoadedInv(t, w),
         Closed(t)
  PROVE  Complete(t) /\ Clean!Builds(t)
<1>1. \A f \in t.listed : t.text[f] # Absent
  BY DEF DoneInv, WorkInv, MadeInv
<1>2. Complete(t)
  BY <1>1 DEF Complete
<1>3. \A f \in t.listed : \A h \in Clean!Reach(t, f) :
         <<t.text[f], t.text[h]>> \notin Clashes
  BY <1>2, TargetFacts DEF DoneInv
<1>4. QED
  BY <1>1, <1>2, <1>3, SameTree DEF Clean!Builds

\* make fails on a closed tree only if the tree does not build.
LEMMA FailsClean ==
  ASSUME NEW t \in Tree, NEW w \in Workspace, NEW c \in Nat,
         WorkInv(t, w, c), Agrees(w.vo), LoadedInv(t, w), Closed(t),
         NEW f \in t.listed, f \notin w.made,
         Found(t, f) \cap t.listed \subseteq w.made,
         NoRule(w, t, f) \/ ~ Compiles(w, t, f)
  PROVE  ~ Clean!Builds(t)
<1> SUFFICES ASSUME Clean!Builds(t) PROVE FALSE
  OBVIOUS
<1>1. Complete(t)
  BY DEF Clean!Builds, Complete
<1>2. f \in Files /\ t.text[f] # Absent
  BY <1>1 DEF Complete, Tree
<1>3. ~ NoRule(w, t, f)
  BY <1>2 DEF NoRule, Found, Closed
<1>4. /\ Req(t.text[f]) \subseteq w.made /\ t.text[f] \in Texts
      /\ f \notin Req(t.text[f]) /\ Req(t.text[f]) \subseteq Files
  BY <1>1, <1>3, ReadyFacts
<1>5. \A g \in Req(t.text[f]) : /\ Loads(w, g)
                                /\ w.vo[g].closure \in Closure
                                /\ Mentioned(w.vo[g].closure) = Clean!Reach(t, g)
                                /\ FreshInv(t, w, g)
  <2> SUFFICES ASSUME NEW g \in Req(t.text[f])
               PROVE  /\ Loads(w, g)
                      /\ w.vo[g].closure \in Closure
                      /\ Mentioned(w.vo[g].closure) = Clean!Reach(t, g)
                      /\ FreshInv(t, w, g)
    OBVIOUS
  <2>1. g \in w.made /\ g \in Files
    BY <1>4
  <2>2. Loads(w, g) /\ Mentioned(w.vo[g].closure) = Clean!Reach(t, g)
    BY <1>1, <2>1 DEF LoadedInv
  <2>3. w.vo[g].closure \in Closure
    BY <2>1, <2>2, VoType DEF Loads
  <2>4. QED
    BY <1>1, <2>1, <2>2, <2>3 DEF WorkInv
<1>6. PICK k : k = NewClosure(w, t, f)
  OBVIOUS
<1>7. /\ k[f] = t.text[f]
      /\ \A g \in Req(t.text[f]) : \A h \in Mentioned(w.vo[g].closure) \ {f} :
            k[h] = w.vo[g].closure[h]
      /\ \A h \in Mentioned(k) \ {f} :
            \E g \in Req(t.text[f]) : h \in Mentioned(w.vo[g].closure)
  BY <1>2, <1>5, <1>6, NewClosureFacts
<1>8. PICK h \in Mentioned(k) : <<t.text[f], k[h]>> \in Clashes
  BY <1>3, <1>5, <1>6 DEF Compiles
<1>9. /\ h \in Clean!Reach(t, f) /\ k[h] \in Texts /\ t.text[h] \in Texts
      /\ Digest[k[h]] = Digest[t.text[h]]
  <2>1. CASE h = f
    BY <1>2, <1>4, <1>7, <2>1, ReachUp
  <2>2. CASE h # f
    <3>1. PICK g \in Req(t.text[f]) : h \in Mentioned(w.vo[g].closure)
      BY <1>7, <2>2
    <3>2. k[h] = w.vo[g].closure[h] /\ h \in Clean!Reach(t, f)
      BY <1>2, <1>5, <1>7, <2>2, <3>1, ReachUp
    <3>3. /\ k[h] \in Texts /\ h \in Files
      BY <1>5, <3>1, <3>2 DEF Mentioned, Closure
    <3>4. h \in t.listed /\ Digest[k[h]] = Digest[t.text[h]]
      BY <1>5, <3>1, <3>2 DEF FreshInv
    <3>5. t.text[h] \in Texts
      BY <1>1, <3>3, <3>4 DEF Complete, Tree, Closure
    <3>6. QED
      BY <3>2, <3>3, <3>4, <3>5
  <2>3. QED
    BY <2>1, <2>2
<1>10. <<t.text[f], t.text[h]>> \in Clashes
  BY <1>4, <1>8, <1>9, SameClashes
<1>11. QED
  BY <1>9, <1>10 DEF Clean!Builds

\* The claim roots' pins are a matter of digests.
LEMMA SamePins ==
  ASSUME NEW t \in Trees, NEW x \in Texts, NEW y \in Texts,
         Digest[x] = Digest[y]
  PROVE  x \in t.pins <=> y \in t.pins
  BY DigestAssumption

\* What holds of the listed files of a closed tree when make is done.
LEMMA DoneFacts ==
  ASSUME NEW t \in Trees, NEW w \in Workspace, NEW c \in Nat,
         WorkInv(t, w, c), DoneInv(t, w), Agrees(w.vo), LoadedInv(t, w),
         Closed(t)
  PROVE  /\ \A f \in t.listed :
               /\ f \in Files /\ Loads(w, f)
               /\ AxiomsOf(w.vo[f]) = Clean!AxiomsReached(t, f)
               /\ (\A h \in Mentioned(w.vo[f].closure) :
                      w.vo[f].closure[h] \in t.pins)
                    <=> \A h \in Clean!Reach(t, f) : t.text[h] \in t.pins
         /\ \A f \in Files : Loads(w, f) => f \in t.listed
<1>1. t \in Tree
  BY ConstantsAssumption
<1>2. Complete(t)
  BY <1>1, DoneBuilds
<1>3. ASSUME NEW f \in t.listed
      PROVE  /\ f \in Files /\ Loads(w, f)
             /\ AxiomsOf(w.vo[f]) = Clean!AxiomsReached(t, f)
             /\ (\A h \in Mentioned(w.vo[f].closure) :
                    w.vo[f].closure[h] \in t.pins)
                  <=> \A h \in Clean!Reach(t, f) : t.text[h] \in t.pins
  <2>1. f \in w.made
    BY DEF DoneInv
  <2>2. /\ f \in Files /\ Loads(w, f)
        /\ Mentioned(w.vo[f].closure) = Clean!Reach(t, f)
        /\ \A h \in Clean!Reach(t, f) :
              /\ w.vo[f].closure[h] \in Texts /\ t.text[h] \in Texts
              /\ Digest[w.vo[f].closure[h]] = Digest[t.text[h]]
    BY <1>1, <1>2, <2>1, TargetFacts
  <2>3. AxiomsOf(w.vo[f]) = Clean!AxiomsReached(t, f)
    BY <1>1, <2>2, TargetAxioms
  <2>4. \A h \in Clean!Reach(t, f) :
           w.vo[f].closure[h] \in t.pins <=> t.text[h] \in t.pins
    BY <2>2, SamePins
  <2>5. QED
    BY <2>2, <2>3, <2>4
<1>4. \A f \in Files : Loads(w, f) => f \in t.listed
  BY DEF Loads, WorkInv, VoInv
<1>5. QED
  BY <1>3, <1>4

\* The claims gate is closed only to a tree whose audit fails.
LEMMA ElaborateFails ==
  ASSUME NEW t \in Trees, NEW w \in Workspace, NEW c \in Nat,
         WorkInv(t, w, c), DoneInv(t, w), Agrees(w.vo), LoadedInv(t, w),
         Closed(t), ~ Elaborates(w, t)
  PROVE  ~ Clean!Audits(t)
<1> SUFFICES ASSUME Clean!Audits(t) PROVE FALSE
  OBVIOUS
<1>1. /\ ClaimRoots \subseteq t.listed /\ t.allowed = t.pinned
      /\ \A q \in ClaimRoots : Clean!AxiomsReached(t, q) \subseteq t.allowed
      /\ \A q \in ClaimRoots : \A h \in Clean!Reach(t, q) : t.text[h] \in t.pins
  BY DEF Clean!Audits
<1>2. \A q \in ClaimRoots :
         /\ Loads(w, q)
         /\ AxiomsOf(w.vo[q]) = Clean!AxiomsReached(t, q)
         /\ \A h \in Mentioned(w.vo[q].closure) : w.vo[q].closure[h] \in t.pins
  BY <1>1, DoneFacts
<1>3. QED
  BY <1>1, <1>2 DEF Elaborates

\* So is the smoke gate.
LEMMA SmokeFails ==
  ASSUME NEW t \in Trees, NEW w \in Workspace, NEW c \in Nat,
         WorkInv(t, w, c), DoneInv(t, w), Agrees(w.vo), LoadedInv(t, w),
         Closed(t), ~ \A q \in ProbeRoots : Loads(w, q)
  PROVE  ~ Clean!Audits(t)
<1>1. \A f \in t.listed : Loads(w, f)
  BY DoneFacts
<1>2. QED
  BY <1>1 DEF Clean!Audits

\* And so is the audit: it finds a chunk for every listed file.
LEMMA AuditFails ==
  ASSUME NEW t \in Trees, NEW w \in Workspace, NEW c \in Nat,
         WorkInv(t, w, c), DoneInv(t, w), Agrees(w.vo), LoadedInv(t, w),
         Closed(t), ChunksInv(w), ~ (Assembles(w, t) /\ AuditPasses(w, t))
  PROVE  ~ Clean!Audits(t)
<1>1. \A f \in t.listed : /\ f \in Files /\ Loads(w, f)
                          /\ AxiomsOf(w.vo[f]) = Clean!AxiomsReached(t, f)
  BY DoneFacts
<1>2. \A f \in t.listed : /\ w.vo[f] # Absent
                          /\ w.palog[f] = AxiomsOf(w.vo[f])
  BY <1>1 DEF Loads, ChunksInv
<1>3. Assembles(w, t)
  <2>1. \A f \in t.listed : AxiomsOf(w.vo[f]) \in SUBSET AxiomNames
    BY <1>1, <1>2, VoType, AxiomsType
  <2>2. QED
    BY <1>2, <2>1, AbsentAssumption DEF Assembles
<1>4. ASSUME Clean!Audits(t) PROVE AuditPasses(w, t)
  <2>1. /\ ProbeRoots \subseteq t.listed
        /\ \A f \in t.listed \ t.exempt :
              Clean!AxiomsReached(t, f) \subseteq t.allowed
        /\ t.probesExempt \/
              \A q \in ProbeRoots : Clean!AxiomsReached(t, q) \subseteq t.allowed
    BY <1>4 DEF Clean!Audits
  <2>2. \A f \in t.listed \ t.exempt : w.palog[f] \subseteq t.allowed
    BY <1>1, <1>2, <2>1
  <2>3. t.probesExempt \/
           \A q \in ProbeRoots : AxiomsOf(w.vo[q]) \subseteq t.allowed
    BY <1>1, <2>1
  <2>4. QED
    BY <2>2, <2>3 DEF AuditPasses
<1>5. QED
  BY <1>3, <1>4

\* A run that has passed every gate would pass the audit of a clean build.
LEMMA SavePasses ==
  ASSUME NEW t \in Trees, NEW w \in Workspace, NEW c \in Nat,
         WorkInv(t, w, c), DoneInv(t, w), Agrees(w.vo), LoadedInv(t, w),
         Closed(t), ChunksInv(w), Elaborates(w, t), AuditPasses(w, t),
         \A q \in ProbeRoots : Loads(w, q)
  PROVE  Clean!Audits(t)
<1>1. /\ \A f \in t.listed :
            /\ f \in Files /\ Loads(w, f)
            /\ AxiomsOf(w.vo[f]) = Clean!AxiomsReached(t, f)
            /\ (\A h \in Mentioned(w.vo[f].closure) :
                   w.vo[f].closure[h] \in t.pins)
                 <=> \A h \in Clean!Reach(t, f) : t.text[h] \in t.pins
      /\ \A f \in Files : Loads(w, f) => f \in t.listed
  BY DoneFacts
<1>2. ClaimRoots \cup ProbeRoots \subseteq t.listed
  BY <1>1, ConstantsAssumption DEF Elaborates
<1>3. \A f \in t.listed \ t.exempt :
         Clean!AxiomsReached(t, f) \subseteq t.allowed
  <2>1. \A f \in t.listed : w.palog[f] = AxiomsOf(w.vo[f])
    BY <1>1 DEF Loads, ChunksInv
  <2>2. QED
    BY <1>1, <2>1 DEF AuditPasses
<1>4. \A q \in ClaimRoots : /\ Clean!AxiomsReached(t, q) \subseteq t.allowed
                            /\ \A h \in Clean!Reach(t, q) : t.text[h] \in t.pins
  BY <1>1, <1>2 DEF Elaborates
<1>5. t.probesExempt \/
         \A q \in ProbeRoots : Clean!AxiomsReached(t, q) \subseteq t.allowed
  BY <1>1, <1>2 DEF AuditPasses
<1>6. t.allowed = t.pinned
  BY DEF Elaborates
<1>7. QED
  BY <1>2, <1>3, <1>4, <1>5, <1>6 DEF Clean!Audits

\* What a run has been asked, as ImplementsGauntlet maps it.
asked == [r \in Runs |-> IF run[r] = Absent THEN Absent
                         ELSE [job |-> run[r].job, tree |-> run[r].tree]]

\* What the invariants say of a run that make has finished, or is in.
LEMMA MakeFacts ==
  ASSUME GInv, NEW r \in Runs, pc[r] \in {"make"} \cup AfterMake
  PROVE  /\ run[r] \in RunInfo /\ run[r].tree \in Trees /\ run[r].tree \in Tree
         /\ ws[r] \in Workspace /\ clock \in Nat
         /\ WorkInv(run[r].tree, ws[r], clock)
         /\ Agrees(ws[r].vo) /\ LoadedInv(run[r].tree, ws[r])
         /\ ForcedInv(run[r], ws[r])
         /\ PassedInv(pc[r], run[r], ws[r])
         /\ pc[r] \in AfterMake => DoneInv(run[r].tree, ws[r])
         /\ pc[r] \in {"audit", "manifest", "save"} => ChunksInv(ws[r])
<1>1. pc[r] \in Active
  BY DEF Active, Steps, AfterMake
<1>2. run[r] \in RunInfo => run[r].tree \in Trees
  BY DEF RunInfo
<1>3. QED
  BY <1>1, <1>2, CleanFacts DEF RunInv, CleanInv

\* A checkout is a question.
LEMMA CheckoutAsks ==
  ASSUME GInv, NEW r \in Runs, NEW job \in Jobs, NEW event \in Events,
         NEW t \in Trees, Checkout(r, job, event, t)
  PROVE  Clean!Ask(r)
<1>1. /\ pc[r] = "idle" /\ UNCHANGED verdict
      /\ run' = [run EXCEPT ![r] = [job |-> job, event |-> event, tree |-> t]]
      /\ run \in [Runs -> RunInfo \cup {Absent}]
  BY DEF Checkout, Goto, GInv, IInv, TypeOK
<1>2. run[r] = Absent
  BY <1>1, CleanFacts DEF CleanInv
<1>3. [job |-> job, event |-> event, tree |-> t] # Absent
  BY AbsentAssumption DEF RunInfo
<1>4. /\ run'[r].job = job /\ run'[r].tree = t /\ run'[r] # Absent
      /\ \A q \in Runs : q # r => run'[q] = run[q]
  BY <1>1, <1>3
<1>5. asked[r] = Absent
  BY <1>2 DEF asked
<1>6. asked' = [asked EXCEPT ![r] = [job |-> job, tree |-> t]]
  BY <1>4 DEF asked
<1>7. QED
  BY <1>1, <1>5, <1>6 DEF Clean!Ask, asked, Jobs

\* The end of a run is an answer, if the verdict is one Gauntlet gives.
LEMMA FinishAnswers ==
  ASSUME GInv, NEW r \in Runs, pc[r] \in Active, NEW v, Finish(r, v),
         UNCHANGED run,
         NEW a, a = [job |-> run[r].job, tree |-> run[r].tree],
         v \in Clean!Verdicts(a)
  PROVE  Clean!Answer(r)
<1>1. /\ run[r] \in RunInfo /\ run[r] # Absent /\ run[r].tree \in Tree
      /\ verdict[r] = "none"
  BY CleanFacts DEF CleanInv, Active, Steps
<1>2. asked[r] = a
  BY <1>1 DEF asked
<1>3. a # Absent
  BY <1>1, AbsentAssumption DEF RunInfo
<1>4. verdict' = [verdict EXCEPT ![r] = v] /\ UNCHANGED asked
  BY DEF Finish, asked
<1>5. QED
  BY <1>1, <1>2, <1>3, <1>4 DEF Clean!Answer, asked

\* The verdicts Gauntlet gives.
LEMMA VerdictOf ==
  ASSUME NEW info, NEW v,
         \/ v = "cancelled"
         \/ v = "pass" /\ (Closed(info.tree) =>
                              Clean!CleanPass(info.job, info.tree))
         \/ v = "fail" /\ (Closed(info.tree) =>
                              ~ Clean!CleanPass(info.job, info.tree))
  PROVE  v \in Clean!Verdicts([job |-> info.job, tree |-> info.tree])
<1>1. Clean!Closed(info.tree) <=> Closed(info.tree)
  BY SameTree
<1>2. QED
  BY <1>1 DEF Clean!Verdicts, Clean!CleanVerdict

\* A failing make is the failure of a build from clean.
LEMMA MakeFailAnswers ==
  ASSUME GInv, NEW r \in Runs, NEW f \in Files, MakeFail(r, f)
  PROVE  Clean!Answer(r)
<1> DEFINE t == run[r].tree
           w == ws[r]
<1>1. /\ pc[r] = "make" /\ f \in t.listed /\ f \notin w.made
      /\ Found(t, f) \cap t.listed \subseteq w.made
      /\ NoRule(w, t, f) \/ ~ Compiles(w, t, f)
      /\ Finish(r, "fail") /\ UNCHANGED run
  BY DEF MakeFail, Ready
<1>2. /\ t \in Tree /\ w \in Workspace /\ clock \in Nat
      /\ WorkInv(t, w, clock) /\ Agrees(w.vo) /\ LoadedInv(t, w)
  BY <1>1, MakeFacts
<1> HIDE DEF w
<1>3. Closed(t) => ~ Clean!Builds(t)
  BY <1>1, <1>2, FailsClean
<1>4. Closed(t) => ~ Clean!CleanPass(run[r].job, t)
  BY <1>3 DEF Clean!CleanPass
<1>5. "fail" \in Clean!Verdicts([job |-> run[r].job, tree |-> t])
  BY <1>4, VerdictOf
<1>6. pc[r] \in Active
  BY <1>1 DEF Active, Steps
<1>7. QED
  BY <1>1, <1>5, <1>6, FinishAnswers

\* A gate that stays shut is the failure of a build from clean.
LEMMA GateAnswers ==
  ASSUME GInv, NEW r \in Runs, Elaborate(r) \/ Smoke(r) \/ AssembleAndAudit(r),
         Finish(r, "fail")
  PROVE  Clean!Answer(r)
<1> DEFINE t == run[r].tree
           w == ws[r]
<1>1. /\ pc[r] \in {"elaborate", "smoke", "audit"} /\ UNCHANGED run
      /\ pc[r] \in AfterMake /\ pc[r] \in Active /\ pc[r] \in GateSteps
  BY DEF Elaborate, Smoke, AssembleAndAudit, Gate, AfterMake, Active, Steps,
         GateSteps
<1>2. /\ t \in Trees /\ w \in Workspace /\ clock \in Nat
      /\ WorkInv(t, w, clock) /\ DoneInv(t, w)
      /\ Agrees(w.vo) /\ LoadedInv(t, w)
      /\ run[r].job = "rocq-flocq"
      /\ pc[r] = "audit" => ChunksInv(w)
  BY <1>1, MakeFacts DEF PassedInv
<1>3. pc' = [pc EXCEPT ![r] = "done"] /\ pc \in [Runs -> Steps \cup {"idle", "done"}]
  BY DEF Finish, GInv, IInv, TypeOK
<1>4. \/ ~ Elaborates(w, t)
      \/ ~ \A q \in ProbeRoots : Loads(w, q)
      \/ pc[r] = "audit" /\ ~ (Assembles(w, t) /\ AuditPasses(w, t))
  <2>1. pc'[r] = "done"
    BY <1>3
  <2>2. CASE Elaborate(r)
    BY <1>3, <2>1, <2>2 DEF Elaborate, Gate
  <2>3. CASE Smoke(r)
    BY <1>3, <2>1, <2>3 DEF Smoke, Gate
  <2>4. CASE AssembleAndAudit(r)
    BY <1>3, <2>1, <2>4 DEF AssembleAndAudit, Gate
  <2>5. QED
    BY <2>2, <2>3, <2>4
<1> HIDE DEF w
<1>5. Closed(t) => ~ Clean!Audits(t)
  BY <1>2, <1>4, ElaborateFails, SmokeFails, AuditFails
<1>6. Closed(t) => ~ Clean!CleanPass(run[r].job, t)
  BY <1>2, <1>5 DEF Clean!CleanPass
<1>7. "fail" \in Clean!Verdicts([job |-> run[r].job, tree |-> t])
  BY <1>6, VerdictOf
<1>8. QED
  BY <1>1, <1>7, FinishAnswers

\* A saved run is the pass of a build from clean.
LEMMA SaveAnswers ==
  ASSUME GInv, NEW r \in Runs, Save(r)
  PROVE  Clean!Answer(r)
<1> DEFINE t == run[r].tree
           w == ws[r]
<1>1. /\ pc[r] = "save" /\ UNCHANGED run /\ Finish(r, "pass")
      /\ pc[r] \in AfterMake /\ pc[r] \in Active /\ pc[r] \in GateSteps
  BY DEF Save, AfterMake, Active, Steps, GateSteps
<1>2. /\ t \in Trees /\ t \in Tree /\ w \in Workspace /\ clock \in Nat
      /\ WorkInv(t, w, clock) /\ DoneInv(t, w)
      /\ Agrees(w.vo) /\ LoadedInv(t, w) /\ ChunksInv(w)
      /\ run[r].job = "rocq-flocq"
      /\ Elaborates(w, t) /\ AuditPasses(w, t)
      /\ \A q \in ProbeRoots : Loads(w, q)
  BY <1>1, MakeFacts DEF PassedInv
<1> HIDE DEF w
<1>3. Closed(t) => Clean!Builds(t)
  BY <1>2, DoneBuilds
<1>4. Closed(t) => Clean!Audits(t)
  BY <1>2, SavePasses
<1>5. Closed(t) => Clean!CleanPass(run[r].job, t)
  BY <1>2, <1>3, <1>4 DEF Clean!CleanPass
<1>6. "pass" \in Clean!Verdicts([job |-> run[r].job, tree |-> t])
  BY <1>5, VerdictOf
<1>7. QED
  BY <1>1, <1>6, FinishAnswers

\* The link has an extraction to link exactly if a build from clean has.
LEMMA LinkAnswers ==
  ASSUME GInv, NEW r \in Runs, Link(r)
  PROVE  Clean!Answer(r)
<1> DEFINE t == run[r].tree
           w == ws[r]
<1>1. /\ pc[r] = "link" /\ UNCHANGED run
      /\ pc[r] \in AfterMake /\ pc[r] \in Active
  BY DEF Link, AfterMake, Active, Steps
<1>2. /\ t \in Trees /\ t \in Tree /\ w \in Workspace /\ clock \in Nat
      /\ WorkInv(t, w, clock) /\ DoneInv(t, w)
      /\ Agrees(w.vo) /\ LoadedInv(t, w) /\ ForcedInv(run[r], w)
      /\ run[r].job = "build-oracle"
  BY <1>1, MakeFacts DEF PassedInv
<1>3. PICK v : v = (IF ExtractFile \in w.log THEN "pass" ELSE "fail")
               /\ Finish(r, v)
  BY DEF Link
<1> HIDE DEF w
<1>4. ExtractFile \in w.log <=> ExtractFile \in t.listed
  BY <1>2 DEF WorkInv, DoneInv, ForcedInv
<1>5. Closed(t) => Clean!Builds(t)
  BY <1>2, DoneBuilds
<1>6. Closed(t) => (Clean!CleanPass(run[r].job, t) <=> ExtractFile \in w.log)
  BY <1>2, <1>4, <1>5 DEF Clean!CleanPass
<1>7. v \in Clean!Verdicts([job |-> run[r].job, tree |-> t])
  BY <1>3, <1>6, VerdictOf
<1>8. QED
  BY <1>1, <1>3, <1>7, FinishAnswers

\* So may a run be cancelled, at any step.
LEMMA CancelAnswers ==
  ASSUME GInv, NEW r \in Runs, Cancel(r)
  PROVE  Clean!Answer(r)
<1>1. pc[r] \in Active /\ Finish(r, "cancelled") /\ UNCHANGED run
  BY DEF Cancel
<1>2. "cancelled" \in Clean!Verdicts([job |-> run[r].job, tree |-> run[r].tree])
  BY VerdictOf
<1>3. QED
  BY <1>1, <1>2, FinishAnswers

\* Every step is a question, an answer, or nothing that Gauntlet sees.
LEMMA StepIsGauntletStep ==
  GInv /\ [Next]_vars => [Clean!Next]_<<asked, verdict>>
<1> SUFFICES ASSUME GInv, [Next]_vars
             PROVE  Clean!Next \/ UNCHANGED <<asked, verdict>>
  OBVIOUS
<1>1. ASSUME UNCHANGED <<run, verdict>> PROVE UNCHANGED <<asked, verdict>>
  BY <1>1 DEF asked
<1>2. ASSUME NEW r \in Runs, NEW job \in Jobs, NEW event \in Events,
             NEW t \in Trees, Checkout(r, job, event, t)
      PROVE  Clean!Next
  BY <1>2, CheckoutAsks DEF Clean!Next
<1>3. ASSUME NEW r \in Runs, Step(r)
      PROVE  Clean!Next \/ UNCHANGED <<asked, verdict>>
  <2>1. CASE Elaborate(r) \/ Smoke(r) \/ AssembleAndAudit(r)
    <3>1. Finish(r, "fail") \/ UNCHANGED <<run, verdict>>
      BY <2>1 DEF Elaborate, Smoke, AssembleAndAudit, Gate
    <3>2. QED
      BY <1>1, <2>1, <3>1, GateAnswers DEF Clean!Next
  <2>2. CASE Save(r)
    BY <2>2, SaveAnswers DEF Clean!Next
  <2>3. CASE Link(r)
    BY <2>3, LinkAnswers DEF Clean!Next
  <2>4. ASSUME NEW f \in Files, MakeFail(r, f) PROVE Clean!Next
    BY <2>4, MakeFailAnswers DEF Clean!Next
  <2>5. CASE \/ \E e \in cache : RestoreHit(r, e)
             \/ RestoreMiss(r) \/ InvalidateCold(r) \/ InvalidateWipe(r)
             \/ InvalidateByHash(r) \/ ForceExtraction(r)
             \/ \E f \in Files : MakeSkip(r, f) \/ MakeCompile(r, f)
             \/ MakeDone(r) \/ UpdatePalog(r) \/ WriteManifest(r)
    <3>1. UNCHANGED <<run, verdict>>
      BY <2>5 DEF RestoreHit, RestoreMiss, InvalidateCold, InvalidateWipe,
           InvalidateByHash, ForceExtraction, MakeSkip, MakeCompile, MakeDone,
           UpdatePalog, WriteManifest
    <3>2. QED
      BY <1>1, <3>1
  <2>6. QED
    BY <1>3, <2>1, <2>2, <2>3, <2>4, <2>5 DEF Step
<1>4. ASSUME NEW r \in Runs, Cancel(r) PROVE Clean!Next
  BY <1>4, CancelAnswers DEF Clean!Next
<1>5. CASE UNCHANGED vars
  BY <1>1, <1>5 DEF vars
<1>6. QED
  BY <1>2, <1>3, <1>4, <1>5 DEF Next

\* No run has been asked for anything at first.
LEMMA InitIsGauntletInit == Init => Clean!Init
  BY DEF Init, Clean!Init

\* No false green and no false red: on every closed tree a run with the cache
\* gives the verdict of a build from clean, for every corpus, every history of
\* entries and any number of concurrent runs.
THEOREM CachedRunsImplementGauntlet == Spec => ImplementsGauntlet
<1>1. GInv /\ [Next]_vars
        => [Clean!Next]_<<[r \in Runs |-> IF run[r] = Absent THEN Absent
                             ELSE [job |-> run[r].job, tree |-> run[r].tree]],
                          verdict>>
  BY StepIsGauntletStep DEF asked
<1>2. QED
  BY <1>1, InitIsGauntletInit, CleanInvariance, PTL
  DEF Spec, ImplementsGauntlet, Clean!Spec
==============================================================================
