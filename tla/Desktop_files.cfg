\* Two applications sharing school mode; three overlapping calls of the security screen.
SPECIFICATION Spec
CONSTANTS
  Apps = {a1, a2}
  Modes = {off, on}
  DefaultMode = off
  NoMode = NoMode
  MaxChoices = 2
  MaxUpsets = 1
  MaxPending = 2
  Calls = {c1, c2, c3}
  NoCall = NoCall
  Clerk = c3
  Second = c2
  RecordsKept = 2
  MaxTroubles = 1
INVARIANTS QuietAppsAgree UndisturbedIsKept
PROPERTIES ChoicesSettle
CHECK_DEADLOCK FALSE
