SPECIFICATION FairSpec
CONSTANTS
    Resources <- AllResources
    WaitsFor <- Order
    Recorded <- RecordedDependencies
    Rivals <- RivalsOf
    Names <- UsedNames
    Paths <- UsedPaths
    Reads <- ReadAtBoot
    Races <- KnownRaces
    Cuts <- KnownCuts
    Views <- AllViews
INVARIANTS
    TypeOK
    RivalsApart
    NamesResolve
    BootsComplete
    PathsKept
    GetsOn
PROPERTIES
    ComesUp
    TearsDown
