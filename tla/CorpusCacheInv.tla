---------------------------- MODULE CorpusCacheInv ----------------------------
(***************************************************************************)
(* The inductive invariant behind FreshBuild, AuditCurrent and CacheSealed *)
(* of CorpusCache.  It is stated of a workspace w, the run's info and the  *)
(* clock, so that the steps of one run leave that of every other alone.    *)
(***************************************************************************)
EXTENDS CorpusCache

\* A project make can finish: every listed file is there, and so is
\* everything it requires.
Complete(t) == Closed(t) /\ \A f \in t.listed : t.text[f] # Absent

\* An entry is sealed, and no .vo in it is from the future.
EntryInv(e, c) ==
  /\ Sealed(e)
  /\ \A f \in Files : e.vo[f] # Absent => e.vo[f].mtime <= c

Bare(w) ==
  /\ \A f \in Files : w.vo[f] = Absent /\ w.palog[f] = Absent
  /\ w.manifest = Absent

Untouched(w) == w.made = {} /\ w.log = {}

\* Between the restore and the invalidation.
RestoredInv(t, w, c) ==
  \/ Bare(w)
  \/ /\ w.manifest # Absent
     /\ EntryInv(EntryOf(t, w), c)

\* g is not the g that f was compiled against.
Outdated(vo, f, g) == vo[g] = Absent \/ vo[g].mtime > vo[f].mtime

\* Coherent, but for the requirements that make has rebuilt since.
CoherentSoFar(vo, f) ==
  LET reqs == Req(vo[f].closure[f])
  IN /\ \A g \in reqs : Outdated(vo, f, g) \/
           \A h \in Mentioned(vo[g].closure) \ {f} :
              vo[f].closure[h] = vo[g].closure[h]
     /\ \A h \in Mentioned(vo[f].closure) \ {f} :
           \E g \in reqs : Outdated(vo, f, g) \/ h \in Mentioned(vo[g].closure)

\* Every .vo that is there belongs to a listed file and to this flags and
\* image; this run's are stamped now, the restored ones earlier.
VoInv(t, w, f) ==
  /\ f \in t.listed
  /\ w.vo[f].flags = t.flags
  /\ w.vo[f].image = t.image
  /\ w.vo[f].closure[f] # Absent
  /\ f \in w.log => w.vo[f].mtime = w.now /\ w.vo[f].closure[f] = t.text[f]
  /\ f \notin w.log => w.vo[f].mtime < w.now
  /\ CoherentSoFar(w.vo, f)

\* A restored .vo has its chunk; its source is as old as the manifest says or
\* has been touched.
KeptInv(t, w, f) ==
  /\ w.palog[f] = AxiomsOf(w.vo[f])
  /\ w.manifest # Absent
  /\ w.manifest.files[f] = Digest[w.vo[f].closure[f]]
  /\ t.text[f] # Absent =>
        w.vtime[f] = w.now \/ w.manifest.files[f] = Digest[t.text[f]]

\* What make has finished with is settled, for this tree.
MadeInv(t, w, f) ==
  /\ f \in t.listed
  /\ t.text[f] # Absent
  /\ w.vo[f] # Absent
  /\ Digest[w.vo[f].closure[f]] = Digest[t.text[f]]
  /\ Found(t, f) \subseteq w.made
  /\ \A g \in Found(t, f) : w.vo[g].mtime <= w.vo[f].mtime

\* The induction that make runs: a finished target is fresh.
FreshInv(t, w, f) ==
  \A h \in Mentioned(w.vo[f].closure) :
     /\ h \in t.listed
     /\ Digest[w.vo[f].closure[h]] = Digest[t.text[h]]

\* From the invalidation on.
WorkInv(t, w, c) ==
  /\ w.now \in 1..c
  /\ w.log \subseteq w.made
  /\ \A f \in Files : w.palog[f] # Absent => f \in t.listed
  /\ \A f \in Files : w.vo[f] # Absent => VoInv(t, w, f)
  /\ \A f \in w.made : MadeInv(t, w, f)
  /\ Complete(t) => \A f \in w.made : FreshInv(t, w, f)

BuildSteps == {"touch", "make", "elaborate", "smoke", "palog", "link"}

\* Until the chunks are updated, only the kept files have theirs.
BuildInv(t, w) == \A f \in Files \ w.log : w.vo[f] # Absent => KeptInv(t, w, f)

\* Once make is done every listed file is made, and only those have a .vo.
DoneInv(t, w) == t.listed = w.made

ChunksInv(w) ==
  \A f \in Files : w.vo[f] # Absent => w.palog[f] = AxiomsOf(w.vo[f])

AuditedInv(t, w) ==
  \A f \in t.listed \ t.exempt : w.palog[f] \subseteq t.allowed

WrittenInv(t, w) ==
  /\ w.manifest # Absent
  /\ w.manifest.flags = t.flags
  /\ \A f \in Files : w.manifest.files[f] =
        IF f \in t.listed /\ t.text[f] # Absent THEN Digest[t.text[f]] ELSE Absent

RunInv(p, info, w, c) ==
  /\ p \in Active => info # Absent
  /\ p = "restore" => Bare(w) /\ Untouched(w)
  /\ p = "invalidate" => RestoredInv(info.tree, w, c) /\ Untouched(w)
  /\ p \in {"touch", "make"} \cup AfterMake => WorkInv(info.tree, w, c)
  /\ p = "touch" => Untouched(w)
  /\ p \in BuildSteps => BuildInv(info.tree, w)
  /\ p \in AfterMake => DoneInv(info.tree, w)
  /\ p \in {"audit", "manifest", "save"} => ChunksInv(w)
  /\ p \in {"manifest", "save"} => AuditedInv(info.tree, w)
  /\ p = "save" => WrittenInv(info.tree, w)

\* What holds of the cache and of every run at each of its steps, from the
\* restore to the save: strong enough to be kept by every action.
IInv ==
  /\ TypeOK
  /\ \A e \in cache : EntryInv(e, clock)
  /\ \A r \in Runs : RunInv(pc[r], run[r], ws[r], clock)

\* A run outside pull requests has nothing but what it compiled.
MainInv(p, info, w) ==
  info # Absent /\ info.event = "main" =>
     /\ p \in {"restore", "invalidate"} => Bare(w) /\ Untouched(w)
     /\ p \in {"touch", "make"} \cup AfterMake =>
           /\ w.log = w.made
           /\ \A f \in Files \ w.log : w.vo[f] = Absent

\* What holds besides IInv of the runs on main.
MInv == \A r \in Runs : MainInv(pc[r], run[r], ws[r])
===============================================================================
