----------------------------- MODULE MainlineInv -----------------------------
(***************************************************************************)
(* The inductive invariant of Mainline: which feed and which page stand in *)
(* the tree, what every hunk on its way to the tree will do to them, and   *)
(* how much of what was read earlier (a check, a rendering, a checkout)    *)
(* still holds on the branch of the moment.                                *)
(***************************************************************************)
EXTENDS Mainline

\* The hunk that replaces one line.
Swap(p, q) == [old |-> {p}, new |-> {q}]

Kinds == (UNION {Touches(Edits[b]) : b \in DOMAIN Edits}) \cup {"page", "feed"}

\* One line of its kind stands in the tree.
Sole(t, file, l) == Lines(t, file) = {l}

\* No commit after height s touches what the page is rendered from.
Unmoved(s) == \A h \in (s + 1)..Len(log) : log[h] \cap DashboardInputs = {}

\* Page q shows tree t, unless something has moved since q was built.
Right(q, t) ==
  q.sha \in 0..main.height /\ (Unmoved(q.sha) => q.shows = Rendered(t))

\* A feed that upstream served, no newer than its tip; there is one text for
\* each version.
Served(l) ==
  /\ l = [file |-> "feed", text |-> l.text]
  /\ l.text.tip \in {Unknown} \cup 0..upstream.tip
  /\ l.text.tip = upstream.tip => l.text = upstream.text

\* Feed k replaces feed l; the first tip that upstream announces is 1.
Newer(k, l) ==
  Served(k) /\ Served(l) /\ l.text.tip < k.text.tip /\ 1 <= k.text.tip

\* The tip: its verdict, its rendering, its history, one page and one feed.
\* Only the vendor run lands a commit beyond MaxMerges, each time for a newer
\* feed, which bounds the height.
TipInv ==
  /\ main.green = GuardsPass(main.tree)
  /\ main.page = Rendered(main.tree)
  /\ log \in Seq(SUBSET Kinds)
  /\ main.height = Len(log)
  /\ \E p \in Lines(main.tree, "page") : Sole(main.tree, "page", p) /\ p.sha \in 0..main.height
  /\ \E l \in Lines(main.tree, "feed") :
       /\ Sole(main.tree, "feed", l) /\ Served(l)
       /\ main.height <= MaxMerges \/ main.height <= MaxMerges + l.text.tip

UpstreamInv ==
  /\ upstream.tip \in 0..Len(FeedTexts)
  /\ upstream.text.tip \in {Unknown, upstream.tip}
  /\ wanted \/ vendor.pc # "idle" => upstream.tip >= 1

\* What an open branch will do: the edit of author b; that edit with the
\* page, which is right as long as nothing it is rendered from has moved; or
\* a newer feed.
Plain(b, hunks) == b \in DOMAIN Edits /\ hunks = Edits[b]

Repaged(b, hunks) ==
  /\ b \in DOMAIN Edits
  /\ \E h \in hunks :
       /\ hunks = Edits[b] \cup {h}
       /\ \E p \in h.old, q \in h.new :
            /\ h = Swap(p, q)
            /\ p.file = "page" /\ q.file = "page"
            /\ Right(q, Apply(main.tree, Edits[b]))

Vendored(hunks) ==
  \E h \in hunks :
    /\ hunks = {h}
    /\ \E l \in h.old, k \in h.new : h = Swap(l, k) /\ Newer(k, l)

Expected(b, hunks) == Plain(b, hunks) \/ Repaged(b, hunks) \/ Vendored(hunks)

\* A verdict is right as long as it is about the tip.
PullInv(b) ==
  /\ prs[b] = [pc |-> prs[b].pc, hunks |-> prs[b].hunks,
               seen |-> prs[b].seen, green |-> prs[b].green]
  /\ prs[b].pc \in {"none", "pushed", "open", "checked", "merged"}
  /\ prs[b].seen \in 0..main.height
  /\ prs[b].pc \in {"open", "checked"} => Expected(b, prs[b].hunks)
  /\ prs[b].pc = "checked" /\ prs[b].seen = main.height =>
       prs[b].green = GuardsPass(Apply(main.tree, prs[b].hunks))

PullsInv == prs = [b \in Branches |-> prs[b]] /\ \A b \in Branches : PullInv(b)

\* The vendor run carries a newer feed than the one it checked out, and has
\* dropped its commit exactly when the branch it pulled has that feed.
VendorInv ==
  /\ vendor = [pc |-> vendor.pc, local |-> vendor.local, got |-> vendor.got,
               fetched |-> vendor.fetched, at |-> vendor.at]
  /\ vendor.pc \in {"idle", "fetch", "pull", "push", "empty", "dispatch",
                   "failed", "noop", "pr", "main"}
  /\ vendor.fetched \in 0..upstream.tip
  /\ vendor.at \in 0..main.height
  /\ vendor.pc = "fetch" => \E l \in vendor.local : vendor.local = {l} /\ Served(l)
  /\ vendor.pc \in {"pull", "push", "empty"} =>
       /\ vendor.fetched \in DOMAIN VendorBranch
       /\ \E l \in vendor.local, k \in vendor.got :
            vendor.local = {l} /\ vendor.got = {k} /\ Newer(k, l)
  /\ vendor.pc \in {"push", "empty"} /\ vendor.at = main.height =>
       /\ Clean(main.tree, {FeedHunk})
       /\ vendor.pc = "empty" <=> FeedHunk.new \subseteq main.tree

\* At most one page run, of a checkout no older than the page that is served.
PageRunInv ==
  /\ \A r, q \in runs : r = q
  /\ \A r \in runs : r.at \in 0..main.height /\ site.at <= r.at
  /\ site.at \in 0..main.height

FreshInv == StoredBy \in 0..Len(log) /\ FreshMeansCurrent

MInv ==
  /\ TipInv
  /\ UpstreamInv
  /\ PullsInv
  /\ VendorInv
  /\ PageRunInv
  /\ FreshInv
=============================================================================
