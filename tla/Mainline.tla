------------------------------- MODULE Mainline -------------------------------
(***************************************************************************)
(* The default branch and what is derived from it: pull requests that the  *)
(* guards judge, the laser feed that .github/workflows/laser-ratchet.yml   *)
(* vendors from another repository, and the page that                      *)
(* .github/workflows/pages.yml builds and deploys.                         *)
(*                                                                         *)
(* A commit changes the tree by hunks; git applies a hunk where its old    *)
(* lines still stand, or where its new lines stand already.  The tree also *)
(* holds the committed page: sha (the height it was built at) and shows.   *)
(***************************************************************************)
EXTENDS Dashboard, Sequences

CONSTANTS
  Base,          \* the tree at height 0
  Edits,         \* what authors propose: [Edits -> sets of hunks]
  Regenerating,  \* the edits whose authors regenerate the page, last
  FeedTexts,     \* FeedTexts[v]: what the feed may say at its version v
  VendorBranch,  \* VendorBranch[v]: the branch named after the feed's tip v
  Protected,     \* whether direct pushes to the default branch are refused
  MaxMerges,     \* no pull request is merged on this height or above
  MaxProposed    \* of pull requests by authors

ASSUME MergesAssumption == MaxMerges \in Nat

VARIABLES
  main,      \* tree; height; green: the guards' verdict; page: what it renders to
  log,       \* log[h]: the kinds of line that the commit at height h touches
  prs,       \* pull requests, by branch: none, just the branch pushed, open, ...
  upstream,  \* the feed as the other repository serves it
  wanted,    \* a vendor run is queued behind the one in progress
  vendor,    \* the vendor run in progress, or how the last one ended, and the
             \* feed version that was fetched last
  runs,      \* the page runs in progress
  site       \* the page that is served, and the height it was built at

vars == <<main, log, prs, upstream, wanted, vendor, runs, site>>

-----------------------------------------------------------------------------
(* Trees, commits and what they set off *)

Clean(t, hunks) == \A h \in hunks : h.old \subseteq t \/ h.new \subseteq t

Apply(t, hunks) == (t \ UNION {h.old : h \in hunks}) \cup UNION {h.new : h \in hunks}

Touches(hunks) == {l.file : l \in UNION {h.old \cup h.new : h \in hunks}}

\* What gen_dashboard writes for a tree: nothing when it does not render.
Rendered(t) == IF Renders(t) THEN {Build(t)} ELSE {}

\* Bug: without cancel-in-progress an older run goes on beside the new one.
Trigger_Beside(m) == runs' = runs \cup {[at |-> m.height, shows |-> m.page]}

\* The group of pages.yml holds one run: a new one cancels it.
Trigger(m) == runs' = {[at |-> m.height, shows |-> m.page]}

Land(hunks) ==
  LET t == Apply(main.tree, hunks)
  IN /\ main' = [tree |-> t, height |-> main.height + 1,
                 green |-> GuardsPass(t), page |-> Rendered(t)]
     /\ log' = Append(log, Touches(hunks))

\* The tree begins with one feed and with one page, which shows it.
ASSUME BaseAssumption ==
  /\ Lines(Base, "page") = {[file |-> "page", sha |-> 0, shows |-> Rendered(Base)]}
  /\ \E l \in Lines(Base, "feed") :
       /\ Lines(Base, "feed") = {l}
       /\ l = [file |-> "feed", text |-> l.text] /\ l.text.tip \in {Unknown, 0}

\* The feed is written by the vendor run and the page by its generator only.
ASSUME EditsAssumption ==
  \A b \in DOMAIN Edits : Touches(Edits[b]) \cap {"page", "feed"} = {}

\* A feed names the upstream tip it was measured at, or none; every vendor
\* branch is named after such a tip.
ASSUME FeedAssumption ==
  /\ FeedTexts \in Seq({FeedTexts[v] : v \in DOMAIN FeedTexts})
  /\ \A v \in DOMAIN FeedTexts : \A f \in FeedTexts[v] : f.tip \in {Unknown, v}
  /\ DOMAIN VendorBranch = DOMAIN FeedTexts

\* The paths filter of pages.yml, on a push by a person.
PushEvent(hunks) ==
  IF Touches(hunks) \cap PageInputs # {} THEN Trigger(main') ELSE UNCHANGED runs

-----------------------------------------------------------------------------
(* Pull requests *)

NoPR == [pc |-> "none", hunks |-> {}, seen |-> 0, green |-> FALSE]

Branches == DOMAIN Edits \cup {VendorBranch[v] : v \in DOMAIN VendorBranch}

Proposed == {b \in DOMAIN Edits : prs[b].pc # "none"}

\* The page as the author's working tree renders it, on top of height h.
PageHunk(t, h) ==
  [old |-> Lines(main.tree, "page"),
   new |-> {[file |-> "page", sha |-> h, shows |-> Rendered(t)]}]

Proposal(b) ==
  IF b \in Regenerating /\ Renders(Apply(main.tree, Edits[b]))
  THEN Edits[b] \cup {PageHunk(Apply(main.tree, Edits[b]), main.height)}
  ELSE Edits[b]

Open(b) ==
  /\ prs[b].pc = "none"
  /\ Cardinality(Proposed) < MaxProposed
  /\ Clean(main.tree, Edits[b])
  /\ prs' = [prs EXCEPT ![b] = [NoPR EXCEPT !.pc = "open", !.hunks = Proposal(b)]]
  /\ UNCHANGED <<main, log, upstream, wanted, vendor, runs, site>>

\* The author brings the branch up to date: a new push, to be checked anew.
Update(b) ==
  /\ prs[b].pc = "checked" /\ prs[b].seen # main.height
  /\ b \in DOMAIN Edits /\ Clean(main.tree, Edits[b])
  /\ prs' = [prs EXCEPT ![b] = [NoPR EXCEPT !.pc = "open", !.hunks = Proposal(b)]]
  /\ UNCHANGED <<main, log, upstream, wanted, vendor, runs, site>>

\* Bug: the check runs on the branch as it was cut, not on the merge.
Check_BranchOnly(b) ==
  /\ prs[b].pc = "open"
  /\ Clean(main.tree, prs[b].hunks)
  /\ prs' = [prs EXCEPT ![b].pc = "checked", ![b].seen = main.height,
                        ![b].green = GuardsPass(Apply(Base, prs[b].hunks))]
  /\ UNCHANGED <<main, log, upstream, wanted, vendor, runs, site>>

\* The guards run on the merge of the branch into the tip of the moment.
Check(b) ==
  /\ prs[b].pc = "open"
  /\ Clean(main.tree, prs[b].hunks)
  /\ prs' = [prs EXCEPT ![b].pc = "checked", ![b].seen = main.height,
                        ![b].green = GuardsPass(Apply(main.tree, prs[b].hunks))]
  /\ UNCHANGED <<main, log, upstream, wanted, vendor, runs, site>>

\* Bug: the merge takes the branch's side of a conflict.
Mergeable_Theirs(b) == TRUE

Mergeable(b) == Clean(main.tree, prs[b].hunks)

\* A green check stands although the tip has moved since.
Merge(b) ==
  /\ main.height < MaxMerges
  /\ prs[b].pc = "checked" /\ prs[b].green
  /\ Mergeable(b)
  /\ Land(prs[b].hunks)
  /\ PushEvent(prs[b].hunks)
  /\ prs' = [prs EXCEPT ![b] = [NoPR EXCEPT !.pc = "merged"]]
  /\ UNCHANGED <<upstream, wanted, vendor, site>>

-----------------------------------------------------------------------------
(* The vendor workflow *)

\* validate: what the vendor step demands of a feed.
Compatible(f) ==
  /\ f.valid
  /\ f.contract
  /\ f.slack # Unknown
  /\ f.tip # Unknown
  /\ \A y \in f.types : y.name # ""

FeedOf(t) == Lines(t, "feed")

FeedHunk == [old |-> vendor.local, new |-> vendor.got]

Ended(how, tip) == vendor' = [pc |-> how, local |-> {}, got |-> {}, fetched |-> tip, at |-> 0]

\* Bug: a dispatch that finds a run in progress is dropped.
Publish_Dropped ==
  /\ upstream.tip < Len(FeedTexts)
  /\ \E f \in FeedTexts[upstream.tip + 1] :
       upstream' = [tip |-> upstream.tip + 1, text |-> f]
  /\ wanted' = (wanted \/ vendor.pc \in {"idle", "failed", "noop", "pr", "main"})
  /\ UNCHANGED <<main, log, prs, vendor, runs, site>>

\* Upstream commits a new feed and fires repository_dispatch.  The group of
\* laser-ratchet.yml keeps at most one queued run.
Publish ==
  /\ upstream.tip < Len(FeedTexts)
  /\ \E f \in FeedTexts[upstream.tip + 1] :
       upstream' = [tip |-> upstream.tip + 1, text |-> f]
  /\ wanted' = TRUE
  /\ UNCHANGED <<main, log, prs, vendor, runs, site>>

\* A person runs the workflow again after it could not push.
Request ==
  /\ vendor.pc \in {"failed", "pr"} /\ Compatible(upstream.text)
  /\ wanted' = TRUE
  /\ UNCHANGED <<main, log, prs, upstream, vendor, runs, site>>

Idle == vendor.pc \in {"idle", "failed", "noop", "pr", "main"}

\* The queued run starts, and checks out the default branch.
Checkout ==
  /\ wanted /\ Idle
  /\ wanted' = FALSE
  /\ vendor' = [vendor EXCEPT !.pc = "fetch", !.local = FeedOf(main.tree)]
  /\ UNCHANGED <<main, log, prs, upstream, runs, site>>

\* Fetch, validate, and apply when the feed differs from the checkout's.  Any
\* fetch may fail.
Fetch ==
  /\ vendor.pc = "fetch"
  /\ LET got == {[file |-> "feed", text |-> upstream.text]}
     IN \/ Ended("failed", upstream.tip)
        \/ /\ Compatible(upstream.text)
           /\ IF vendor.local = got THEN Ended("noop", upstream.tip)
              ELSE vendor' = [vendor EXCEPT !.pc = "pull", !.got = got,
                                            !.fetched = upstream.tip]
  /\ UNCHANGED <<main, log, prs, upstream, wanted, runs, site>>

\* git pull --rebase.  The commit is dropped as empty when the branch has the
\* feed by now.  A conflict stops the rebase, and the checkout of the fallback
\* branch then fails too.
Pull ==
  /\ vendor.pc = "pull"
  /\ IF Clean(main.tree, {FeedHunk})
     THEN vendor' = [vendor EXCEPT !.at = main.height,
                       !.pc = IF FeedHunk.new \subseteq main.tree THEN "empty" ELSE "push"]
     ELSE Ended("failed", vendor.fetched)
  /\ UNCHANGED <<main, log, prs, upstream, wanted, runs, site>>

\* git push.  With the commit dropped there is nothing to push, which
\* succeeds, protected or not.
Push ==
  /\ vendor.at = main.height
  /\ \/ vendor.pc = "push" /\ ~Protected /\ Land({FeedHunk})
     \/ vendor.pc = "empty" /\ UNCHANGED <<main, log>>
  /\ vendor' = [vendor EXCEPT !.pc = "dispatch"]
  /\ UNCHANGED <<prs, upstream, wanted, runs, site>>

\* The push is refused: the commit goes to a branch named after the feed's
\* tip, unless that branch is there already, and to a pull request.  Creating
\* the request may fail, and then the branch stays behind; it does fail when
\* the rebase has dropped the commit and the branch holds nothing new.  No
\* check runs on the request until a person acts (Check is theirs as well).
Refused ==
  /\ vendor.pc \in {"push", "empty"}
  /\ (vendor.pc = "push" /\ Protected) \/ vendor.at # main.height
  /\ LET b == VendorBranch[vendor.fetched]
     IN IF vendor.pc = "push" /\ prs[b].pc = "none"
        THEN \/ /\ prs' = [prs EXCEPT ![b] = [NoPR EXCEPT !.pc = "open", !.hunks = {FeedHunk}]]
                /\ Ended("pr", vendor.fetched)
             \/ /\ prs' = [prs EXCEPT ![b] = [NoPR EXCEPT !.pc = "pushed"]]
                /\ Ended("failed", vendor.fetched)
        ELSE UNCHANGED prs /\ Ended("failed", vendor.fetched)
  /\ UNCHANGED <<main, log, upstream, wanted, runs, site>>

\* Bug: the push is trusted to set off pages.yml.
DispatchPages_Trusting ==
  /\ vendor.pc = "dispatch"
  /\ UNCHANGED runs
  /\ Ended("main", vendor.fetched)
  /\ UNCHANGED <<main, log, prs, upstream, wanted, site>>

\* A push with the workflow's own token sets off no workflow: pages.yml is
\* dispatched by name, on the branch as it is now.
DispatchPages ==
  /\ vendor.pc = "dispatch"
  /\ Trigger(main)
  /\ Ended("main", vendor.fetched)
  /\ UNCHANGED <<main, log, prs, upstream, wanted, site>>

-----------------------------------------------------------------------------
(* The page workflow *)

\* The run generates the page of its own checkout and deploys it.  A tree
\* that does not render fails the run.
Deploy(r) ==
  /\ runs' = runs \ {r}
  /\ IF r.shows = {} THEN UNCHANGED site ELSE site' = r
  /\ UNCHANGED <<main, log, prs, upstream, wanted, vendor>>

-----------------------------------------------------------------------------
(* gen_dashboard --check-freshness, on the tip *)

StoredPage == CHOOSE l \in Lines(main.tree, "page") : TRUE

\* The last commit that stored the page.
StoredBy == Max({0} \cup {h \in 1..Len(log) : "page" \in log[h]})

\* Bug: only the commits after the one that stored the page are counted.
Behind_AfterStored ==
  {h \in (StoredBy + 1)..Len(log) : log[h] \cap DashboardInputs # {}}

Behind == {h \in (StoredPage.sha + 1)..Len(log) : log[h] \cap DashboardInputs # {}} \ {StoredBy}

Fresh == Behind = {}

-----------------------------------------------------------------------------
Init ==
  /\ main = [tree |-> Base, height |-> 0, green |-> GuardsPass(Base), page |-> Rendered(Base)]
  /\ log = <<>>
  /\ prs = [b \in Branches |-> NoPR]
  /\ upstream = [tip |-> 0, text |-> (CHOOSE l \in FeedOf(Base) : TRUE).text]
  /\ wanted = FALSE
  /\ vendor = [pc |-> "idle", local |-> {}, got |-> {}, fetched |-> 0, at |-> 0]
  /\ runs = {}
  /\ site = [at |-> 0, shows |-> main.page]

Authors == \E b \in Branches :
  \/ (b \in DOMAIN Edits /\ Open(b))
  \/ Update(b)
  \/ Check(b)
  \/ Merge(b)

VendorRun == Checkout \/ Fetch \/ Pull \/ Push \/ Refused \/ DispatchPages

PageRun == \E r \in runs : Deploy(r)

Next == Authors \/ Publish \/ Request \/ VendorRun \/ PageRun

\* A job that was started runs to its end, and a queued one is started.
Spec == Init /\ [][Next]_vars /\ WF_vars(VendorRun) /\ WF_vars(PageRun)

-----------------------------------------------------------------------------
\* Types; one page run at a time, one committed page, one feed in the tree.
TypeOK ==
  /\ main.height \in 0..(MaxMerges + Len(FeedTexts)) /\ main.green \in BOOLEAN
  /\ Len(log) = main.height
  /\ \A b \in Branches : /\ prs[b].pc \in {"none", "pushed", "open", "checked", "merged"}
                         /\ prs[b].seen \in 0..main.height
  /\ upstream.tip \in 0..Len(FeedTexts)
  /\ vendor.pc \in {"idle", "fetch", "pull", "push", "empty", "dispatch",
                   "failed", "noop", "pr", "main"}
  /\ vendor.fetched \in 0..upstream.tip /\ vendor.at \in 0..main.height
  /\ Cardinality(runs) <= 1
  /\ \A r \in runs : r.at \in 0..main.height
  /\ site.at \in 0..main.height
  /\ Cardinality(Lines(main.tree, "page")) = 1 /\ Cardinality(FeedOf(main.tree)) = 1

\* A green tip turns red only by the merge of a pull request whose check saw
\* an older tip, or by a vendored feed, which nothing checks.
RedOnlyUnseen ==
  [][main.green /\ ~main'.green =>
       \/ \E b \in Branches : /\ prs[b].pc = "checked" /\ prs'[b].pc = "merged"
                              /\ prs[b].seen # main.height
       \/ vendor.pc = "push" /\ \E l \in vendor.got : l.text.linksFork]_vars

\* The vendored feed never goes back to an older upstream tip: neither by a
\* vendor run that a newer one overtook, nor by the pull request of a run
\* whose push was refused.
FeedOnlyForward ==
  [][\A l \in FeedOf(main.tree), k \in FeedOf(main'.tree) : k.text.tip >= l.text.tip]_vars

\* The newest feed that upstream announced is picked up, again and again if
\* it has to be: it reaches the branch or a pull request, unless the vendor
\* run said it failed.
FeedArrives ==
  []<>(\/ \E l \in FeedOf(main.tree) : l.text = upstream.text
       \/ vendor.pc \in {"failed", "pr"} /\ vendor.fetched = upstream.tip)

\* A newer served page is never replaced by an older one.
PageNeverGoesBack == [][site'.at >= site.at]_vars

\* Once the branch settles, the served page is what it renders to, or it
\* does not render.  (The paths filter covers all that the page shows.)
PageCatchesUp == <>[](main.page = {} \/ site.shows = main.page)

\* When the freshness check finds the committed page fresh, it shows what
\* the tip renders to.
FreshMeansCurrent == Fresh => StoredPage.shows = main.page
=============================================================================
