SPECIFICATION MCSpec
CONSTANTS
    InLua = {"l"}
    InTeal = {"t"}
    MaxEdits = 2
    MaxClock = 2
    Dirs = {"project", "home", "moved", "tmp", "extra", "other"}
    Levels = {0, 3, 4}
    Commands = {1, 2}
    Labels = {"x"}
    Natures = {"plain", "stubborn", "host"}
    Grace = 1
    MaxTicks = 3
    Carried <- ThreeModules
    Places <- SevenPlaces
    Runs = {1, 2}
    MaxChanges = 1
    Extras <- SomeExtras
    HostTools <- SomeHostTools
    Copies <- SomeCopies
    Named <- TwoNamed
    MaxCalls = 3
    StreamIds = {"p", "c"}
    Writers = {1, 2}
    Readers = {1}
    Logs <- TwoLogs
    Requests <- EightRequests
    Page = 2
    MaxEvents = 5
INVARIANTS
    FilesAsTold SeriesWhole GreenIsTrue VendoringIsSafe ServedAsListed RunsAsConfigured
    HandlesAsTold  CommandsEnd WireIsFaithful 
PROPERTIES StoreKeepsItsWord
CHECK_DEADLOCK FALSE
