CONSTANTS
    MaxRegistersPerRead = 4
    Sensors <- MCSensors
    Settings <- MCSettings
    Managed <- MCManaged
    Samples <- MCSamples
    Users = {u1, u2}
    MeterInputs <- MCMeterInputs
    GatewayInputs <- MCGatewayInputs
    MaxPolls = 1
    MaxCalls = 2
    MaxEvents = 1
    Hosts = {h1, h2, h3}
    LocalHosts = {h1, h2}
    HostKinds <- MCHostKinds
    Slaves = {1, 2}
    Devices <- MCDevices
    Concurrency = 2
    ProxyHosts <- MCProxyHosts
    Heard <- MCHeard
    MaxMissed = 2
SPECIFICATION Spec
INVARIANTS RequestsCoverExactly ReadingsAreRegisters ActionTakesAll FoundAsTheyAre
PROPERTY SettingReadsBack
CHECK_DEADLOCK FALSE
