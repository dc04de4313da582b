---------------------------- MODULE MCCorpusCache ----------------------------
(***************************************************************************)
(* A corpus of three files for TLC: B requires A, and X, the extraction    *)
(* leaf, requires B (text x1) or only A (text x2).  a1c is a1 with another *)
(* comment; a2 changes A so that b1 no longer compiles and b2 does; b3     *)
(* uses the axiom "other".                                                 *)
(***************************************************************************)
EXTENDS GauntletInv, TLC

CONSTANTS A, B, X, a1, a1c, a2, b1, b2, b3, x1, x2,
          da1, da2, db1, db2, db3, dx1, dx2, f1, f2, i1, i2

MCFiles == {A, B, X}
MCTexts == {a1, a1c, a2, b1, b2, b3, x1, x2}
MCDigests == {da1, da2, db1, db2, db3, dx1, dx2}
MCFlags == {f1, f2}
MCImages == {i1, i2}
MCAxiomNames == {"allowed", "other"}

MCDigest == a1 :> da1 @@ a1c :> da1 @@ a2 :> da2 @@ b1 :> db1 @@ b2 :> db2
              @@ b3 :> db3 @@ x1 :> dx1 @@ x2 :> dx2
MCRequires == [x \in MCTexts |-> CASE x \in {b1, b2, b3} -> {A}
                                   [] x = x1 -> {B}
                                   [] x = x2 -> {A}
                                   [] OTHER -> {}]
MCAxiomsIn == [x \in MCTexts |-> IF x = b3 THEN {"allowed", "other"}
                                           ELSE {"allowed"}]
MCClashes == {<<b1, a2>>}

On(a, b, x) == A :> a @@ B :> b @@ X :> x

\* The tree the others are edits of.
Base == [text |-> On(a1, b1, x1), listed |-> MCFiles, flags |-> f1,
         image |-> i1, allowed |-> {"allowed"}, exempt |-> {},
         probesExempt |-> TRUE, pinned |-> {"allowed"}, pins |-> MCTexts]
With(a, b, x) == [Base EXCEPT !.text = On(a, b, x)]

CommentEdit == With(a1c, b1, x1)
BrokenEdit == With(a2, b1, x1)
FixedEdit == With(a2, b2, x1)
AxiomEdit == With(a1, b3, x1)
AxiomAllowed == [AxiomEdit EXCEPT !.allowed = MCAxiomNames,
                                  !.pinned = MCAxiomNames]
AllowlistOnly == [AxiomEdit EXCEPT !.allowed = MCAxiomNames]
AxiomExempt == [AxiomEdit EXCEPT !.exempt = {B, X}]
ProbesAudited == [AxiomExempt EXCEPT !.probesExempt = FALSE]
\* A changes what a registered claim means.
PinBroken == [FixedEdit EXCEPT !.pins = MCTexts \ {a2}]
FlagEdit == [Base EXCEPT !.flags = f2]
ImageEdit == [Base EXCEPT !.image = i2]
\* B is deleted and its one user no longer requires it.
Removed == [With(a1, Absent, x2) EXCEPT !.listed = {A, X}]
\* B is deleted, X still requires it.
Dangling == [With(a1, Absent, x1) EXCEPT !.listed = {A, X}]
\* B stays on disk but leaves _CoqProject.full, X still requires it.
Unlisted == [Base EXCEPT !.listed = {A, X}]
\* B is listed but not committed.
Missing == With(a1, Absent, x1)
RemovedFlagEdit == [Removed EXCEPT !.flags = f2]

ContentTrees == {Base, CommentEdit, BrokenEdit, FixedEdit, Removed}
PolicyTrees == {Base, AxiomEdit, AxiomAllowed, AllowlistOnly, AxiomExempt,
                ProbesAudited, PinBroken}
SettingTrees == {Base, FlagEdit, ImageEdit, RemovedFlagEdit, FixedEdit}
HistoryTrees == {Base, FixedEdit, Removed, Dangling, AxiomExempt}
AllTrees == ContentTrees \cup PolicyTrees \cup SettingTrees
              \cup {Dangling, Unlisted, Missing}
ConcurrentTrees == {Base, FlagEdit, RemovedFlagEdit, Unlisted, AxiomEdit}
DanglingTrees == {Base, Dangling, FixedEdit}

RunSymmetry == Permutations(Runs)
==============================================================================
