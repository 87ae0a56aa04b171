SPECIFICATION FairSpec
CONSTANTS
    hub = hub
    a = a
    b = b
    Connections <- TwoSpokes
    Hub = hub
    RouteTables <- NoTables
    InitialConfigs <- AllConfigs
PROPERTIES
    ListsSerial
