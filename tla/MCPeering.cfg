SPECIFICATION Spec
CONSTANTS
    hub = hub
    a = a
    b = b
    Connections <- TwoSpokes
    Hub = hub
    RouteTables <- OneTableEach
    InitialConfigs <- OneWayFirst
INVARIANTS
    TypeOK
    SpokesIsolated
    Bidirectional
PROPERTIES
    SpokeListsSerial
