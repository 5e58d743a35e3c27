SPECIFICATION MCSpec
CONSTANTS
  MaxId = 3
  MaxChunks = 2
  MaxKey = 4
  MaxPrinted = 2
  MinFont = 1
  MaxFont = 3
  DefaultFont = 2
  Entries = {"profile"}
  MaxItems = 2
  None = None
  Legacy <- MCLegacy
  Texts = {"first", "after_current", "last", "beside", "plain", "html", "none",
           "", "Cascadia Mono", "other", "remaining", "profile", "group"}
  MaxVersions = 3
  Sizes = {"small", "large"}
  MaxTimers = 3
  MaxLaidTabs = 2
CONSTRAINT Bounded
INVARIANTS
  FrontTab
  StripMatchesTabs
  OneTabPerSession
  LookIsPrefs
  ReadBackAlike
  SavedComesBack
  FitsWhenQuiet
PROPERTIES
  OwnOutput
CHECK_DEADLOCK FALSE
