\* Two accounts, one call that fails, abort or change made elsewhere.
SPECIFICATION Spec
CONSTANTS
  a = a
  b = b
  local = local
  core = core
  aapl = aapl
  msft = msft
  AccountIds <- Accounts
  Names <- NameSet
  SymbolSet <- Pair
  Slug <- SlugOf
  Demo <- DemoLists
  InitialRemote <- AtTda
  InitialOverlays <- Overlays
  MaxLists = 3
  MaxOps = 2
  MaxTroubles = 1
INVARIANTS TypeOK OverlayOnlyDecorates DecorationsSurvive AnswersComeTrue
PROPERTY OnlyAskedSymbolsLeave
CHECK_DEADLOCK FALSE
