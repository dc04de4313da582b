------------------------------- MODULE Gauntlet -------------------------------
(***************************************************************************)
(* What a CI run promises, with no cache, no mtimes and no chunks: someone *)
(* asks for the verdict on a tree, and the answer is the verdict of a      *)
(* build of that tree from clean, unless the run is cancelled.  Nothing is *)
(* promised of a tree with a file that requires one the project lacks.     *)
(***************************************************************************)
CONSTANTS Files, AxiomNames, Runs, Trees, Absent, Requires, AxiomsIn, Clashes,
          ClaimRoots, ProbeRoots, ExtractFile

VARIABLES
  asked,    \* asked[r]: the job and the tree, or Absent
  verdict   \* verdict[r]: the answer

Needs(t, f) == IF t.text[f] = Absent THEN {} ELSE Requires[t.text[f]]

Closed(t) ==
  \A f \in t.listed : Needs(t, f) \subseteq t.listed

\* The files f is built from: the least set that has f and what its members
\* require.
Reach(t, f) ==
  {h \in Files : \A S \in SUBSET Files :
      (f \in S /\ \A g \in S : Needs(t, g) \subseteq S) => h \in S}

Builds(t) ==
  /\ \A f \in t.listed : t.text[f] # Absent
  /\ Closed(t)
  /\ \A f \in t.listed : \A h \in Reach(t, f) :
        <<t.text[f], t.text[h]>> \notin Clashes

AxiomsReached(t, f) == UNION {AxiomsIn[t.text[h]] : h \in Reach(t, f)}

Audits(t) ==
  /\ ClaimRoots \cup ProbeRoots \subseteq t.listed
  /\ \A f \in (t.listed \ t.exempt) \cup ClaimRoots
               \cup (IF t.probesExempt THEN {} ELSE ProbeRoots) :
        AxiomsReached(t, f) \subseteq t.allowed
  /\ t.allowed = t.pinned
  /\ \A c \in ClaimRoots : \A h \in Reach(t, c) : t.text[h] \in t.pins

\* build-oracle needs the extraction leaf, rocq-flocq the audit.
CleanPass(job, t) ==
  /\ Builds(t)
  /\ job = "rocq-flocq" => Audits(t)
  /\ job = "build-oracle" => ExtractFile \in t.listed

CleanVerdict(a) == IF CleanPass(a.job, a.tree) THEN "pass" ELSE "fail"

Init ==
  /\ asked = [r \in Runs |-> Absent]
  /\ verdict = [r \in Runs |-> "none"]

Ask(r) ==
  /\ asked[r] = Absent
  /\ \E job \in {"rocq-flocq", "build-oracle"}, t \in Trees :
        asked' = [asked EXCEPT ![r] = [job |-> job, tree |-> t]]
  /\ UNCHANGED verdict

Verdicts(a) ==
  (IF Closed(a.tree) THEN {CleanVerdict(a)} ELSE {"pass", "fail"})
    \cup {"cancelled"}

Answer(r) ==
  /\ asked[r] # Absent
  /\ verdict[r] = "none"
  /\ \E v \in Verdicts(asked[r]) : verdict' = [verdict EXCEPT ![r] = v]
  /\ UNCHANGED asked

Next == \E r \in Runs : Ask(r) \/ Answer(r)

Spec == Init /\ [][Next]_<<asked, verdict>>
=============================================================================
