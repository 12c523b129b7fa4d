\* One mint at a time, WinForge only between mints; archives cut short anywhere
\* but inside the branch file's rewrite; releases, failures and a relaunch;
\* purchases in quick succession.
SPECIFICATION Spec
CONSTANTS
  Calls = {c1, c2, c3}
  Litres = {0, 1, 2}
  MaxInFlight = 1
  WinForgeOverlaps = FALSE
  Saves = {s1, s2, s3, s4}
  MaxCuts = 2
  RefTears = FALSE
  MaxVersion = 3
  Unnamed = Unnamed
  MaxFailures = 2
  MaxLaunches = 2
  MaxPushed = 2
  Rows = {r1, r2}
  Diesel = Diesel
  GroupWindow = 1
  RowLasts = 3
  DieselLasts = 4
  ReducedLasts = 2
  MaxLate = 1
  MaxPurchases = 4
INVARIANTS  ListedIsReadable  FeedbackIsOrderly
PROPERTIES  HistoryIsALog PublishedIsOffered PurchasesAreDrawn
CHECK_DEADLOCK FALSE
