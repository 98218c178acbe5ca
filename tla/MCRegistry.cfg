SPECIFICATION FairSpec
CONSTANTS
    lamp = lamp
    lock = lock
    light = light
    other = other
    hall = hall
    yard = yard
    hub = hub
    plug = plug
    lovelace = lovelace
    gps = gps
    noArea = noArea
    noDevice = noDevice
    noDashboard = noDashboard
    Entities <- mcEntities
    Domains = {light, other}
    DomainOf <- mcDomainOf
    Areas = {hall, yard}
    Devices = {hub, plug}
    Dashboards = {lovelace}
    Lovelace = lovelace
    HomeLocation = gps
    NoArea = noArea
    NoDevice = noDevice
    NoDashboard = noDashboard
    Worlds <- mcWorlds
    RefreshInterval = 1
    StaleMax = 3
CHECK_DEADLOCK FALSE
INVARIANT TypeOK
PROPERTY SnapshotOfItsTime
PROPERTY Converges
PROPERTY OutageNarrows
