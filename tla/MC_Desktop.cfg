SPECIFICATION FairSpec
CONSTANTS
    d1 = d1
    d2 = d2
    d3 = d3
    NoDesktop = NoDesktop
    Desktops = {d1, d2, d3}
    Paces <- MCPaces
    MaxServers = 4
    MaxDeaths = 2
    MaxCrashes = 1
INVARIANTS
    SingleInstance
    ServerEndsWithWindow
PROPERTIES
    LaunchSettles
CHECK_DEADLOCK FALSE
