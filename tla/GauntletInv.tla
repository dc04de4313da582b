------------------------------ MODULE GauntletInv ------------------------------
(***************************************************************************)
(* What CorpusCacheInv lacks for MinimalRebuild and ImplementsGauntlet:    *)
(* why make finds an unaffected file up to date, and why each gate judges  *)
(* the .vo files that are there as it would those of a build from clean.   *)
(***************************************************************************)
EXTENDS CorpusCacheInv

\* What is there was compiled: its text clashes with nothing it loaded.
Agrees(vo) ==
  \A f \in Files : vo[f] # Absent =>
     \A h \in Mentioned(vo[f].closure) :
        <<vo[f].closure[f], vo[f].closure[h]>> \notin Clashes

\* No .vo of F is older than what its source requires.
InOrder(vo, F) ==
  \A f \in F : vo[f] # Absent =>
     \A g \in F \cap Req(vo[f].closure[f]) :
        vo[g] # Absent => vo[g].mtime <= vo[f].mtime

\* A recorded file has its .vo, and an unchanged one an old source unless it
\* is the leaf build-oracle touches.
AgedInv(info, w) ==
  \A f \in info.tree.listed :
     /\ f \in Recorded(w.manifest) => w.vo[f] # Absent
     /\ info.tree.text[f] # Absent /\ Unchanged(w.manifest, info.tree, f) =>
           \/ w.vtime[f] = OLD_MTIME
           \/ f = ExtractFile /\ info.job = "build-oracle"

\* What MinimalRebuild says of one run.
LogInv(info, w) ==
  \A f \in w.log :
     \/ Affected(w, info.tree, f)
     \/ info.job = "build-oracle" /\ ExtractFile \in Mentioned(w.vo[f].closure)

\* While make goes by the restored manifest.
KeptManifestInv(info, w) ==
  w.manifest # Absent => AgedInv(info, w) /\ LogInv(info, w)

\* The extraction leaf is not skipped.
ForcedInv(info, w) ==
  info.job = "build-oracle" =>
     /\ w.vtime[ExtractFile] = w.now
     /\ ExtractFile \in w.made => ExtractFile \in w.log

\* A finished target loads, and is compiled from what a build from clean
\* compiles it from.
LoadedInv(t, w) ==
  Complete(t) => \A f \in w.made :
     /\ Loads(w, f)
     /\ Mentioned(w.vo[f].closure) \subseteq w.made
     /\ Mentioned(w.vo[f].closure) = Clean!Reach(t, f)

GateSteps == {"elaborate", "smoke", "palog", "audit", "manifest", "save"}

\* The gates a run has passed would open again.
PassedInv(p, info, w) ==
  /\ p \in GateSteps => info.job = "rocq-flocq"
  /\ p \in GateSteps \ {"elaborate"} => Elaborates(w, info.tree)
  /\ p \in GateSteps \ {"elaborate", "smoke"} =>
        \A q \in ProbeRoots : Loads(w, q)
  /\ p \in {"manifest", "save"} => AuditPasses(w, info.tree)
  /\ p \in {"touch", "link"} => info.job = "build-oracle"

CleanInv(p, info, w, v) ==
  /\ p = "idle" => info = Absent
  /\ p # "done" => v = "none"
  /\ p \in Active => Agrees(w.vo)
  /\ p = "invalidate" => InOrder(w.vo, Files)
  /\ p \in {"touch", "make"} \cup AfterMake =>
        /\ InOrder(w.vo, Files \ w.log)
        /\ LoadedInv(info.tree, w)
  /\ p \in {"touch", "make"} \cup (AfterMake \ {"save"}) =>
        KeptManifestInv(info, w)
  /\ p \in {"make"} \cup AfterMake => ForcedInv(info, w)
  /\ PassedInv(p, info, w)

\* The inductive invariant: IInv, and what is said above of the cache and of
\* every run.
GInv ==
  /\ IInv
  /\ \A e \in cache : Agrees(e.vo) /\ InOrder(e.vo, Files)
  /\ \A r \in Runs : CleanInv(pc[r], run[r], ws[r], verdict[r])
================================================================================
