SPECIFICATION Spec
CONSTANTS
    lamp = lamp
    lock = lock
    cam = cam
    light = light
    other = other
    hall = hall
    yard = yard
    hub = hub
    home = home
    kiosk = kiosk
    lovelace = lovelace
    gps = gps
    noArea = noArea
    noDevice = noDevice
    noDashboard = noDashboard
    Entities <- mcEntities
    Domains = {light, other}
    DomainOf <- mcDomainOf
    Areas = {hall, yard}
    Devices = {hub}
    Dashboards = {lovelace, kiosk}
    Lovelace = lovelace
    HomeLocation = gps
    NoArea = noArea
    NoDevice = noDevice
    NoDashboard = noDashboard
    Policies <- mcTwoPolicies
    Snapshots <- mcSnapshots
    Requested <- mcRequested
    Calls <- mcCalls
    Commands <- mcStreamCommands
    MaxCommands = 2
    MaxQueue = 1
CHECK_DEADLOCK FALSE
INVARIANT SessionInv
INVARIANT NothingHiddenDelivered
PROPERTY ForwardedInScope
PROPERTY KeepsContract
