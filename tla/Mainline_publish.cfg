SPECIFICATION Spec
CONSTANTS
  Modules <- MCModules
  InsideText = {}
  Headlines <- MCHeadlines
  Base <- MCBase
  Edits <- MCEdits
  Regenerating <- MCRegenerating
  FeedTexts <- MCFeedTexts
  VendorBranch <- MCVendorBranch
  Protected = FALSE
  MaxMerges = 3
  MaxProposed = 2
CHECK_DEADLOCK FALSE
INVARIANTS TypeOK FreshMeansCurrent
PROPERTIES RedOnlyUnseen FeedOnlyForward FeedArrives PageNeverGoesBack PageCatchesUp
