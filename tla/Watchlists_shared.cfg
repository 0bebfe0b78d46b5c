\* The API server and the desktop application, one failure.
SPECIFICATION Spec
CONSTANTS
  api = api
  desktop = desktop
  aapl = aapl
  msft = msft
  Procs <- Both
  Names <- NameSet
  SymbolSet <- Pair
  Slug <- SlugOf
  Demo <- DemoLists
  MaxLists = 2
  MaxOps = 4
  MaxCrashes = 1
INVARIANTS TypeOK IdsNameOneList EachSymbolOnce PinnedRowsLead
PROPERTY OnlyRemovalsLose
CHECK_DEADLOCK FALSE
SYMMETRY Interchangeable
