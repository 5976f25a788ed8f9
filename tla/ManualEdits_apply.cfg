SPECIFICATION Spec
CONSTANTS
  title = title
  lead = lead
  footer = footer
  home = home
  about = about
  view1 = view1
  view2 = view2
  Refs = {title, lead, footer}
  Pages = {home, about}
  Files = {view1, view2}
  PageOf <- PageOfRef
  FileOf <- FileOfRef
  ChunkSize = 1
  Agents = 1
  MaxRepairs = 1
  MaxCommits = 2
  MaxEvents = 2
INVARIANTS TypeOK  TransactionOwned
PROPERTIES ClearedIsApplied EveryCommitEnds
CHECK_DEADLOCK FALSE
