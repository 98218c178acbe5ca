SPECIFICATION FairSpec
CONSTANTS
    lamp = lamp
    alarm = alarm
    light = light
    other = other
    hall = hall
    yard = yard
    hub = hub
    kiosk = kiosk
    lovelace = lovelace
    gps = gps
    noArea = noArea
    noDevice = noDevice
    noDashboard = noDashboard
    ann = ann
    boss = boss
    tester = tester
    nobody = nobody
    odd = odd
    falsy = falsy
    annRequest = annRequest
    probe = probe
    Entities <- mcEntities
    Domains = {light, other}
    DomainOf <- mcDomainOf
    Areas = {hall, yard}
    Devices = {hub}
    Dashboards = {lovelace, kiosk}
    Lovelace = lovelace
    HomeLocation = gps
    NoArea = noArea
    NoDevice = noDevice
    NoDashboard = noDashboard
    Keys = {ann, boss, tester}
    Nobody = nobody
    Unusual = odd
    Falsy = falsy
    PolicyError = PolicyError
    CheckInterval = 2
    Slots = {annRequest, probe}
    Users = {ann, boss, tester}
    Admins = {boss}
    Stranger = Stranger
    Deployments <- mcDeployments
    Snapshots <- mcSnapshots
    Payloads <- mcPayloads
    FirstPolicies <- mcFirstPolicies
    None = None
    Probe = probe
    Tester = tester
    Allowed = lamp
    Forbidden = alarm
CHECK_DEADLOCK FALSE
INVARIANT TypeOK
PROPERTY RestTellsOnlyReadable
PROPERTY RestCallsInScope
PROPERTY TripBites
PROPERTY ResaveKeepsRights
PROPERTY TripsForCause
PROPERTY LeakTrips
